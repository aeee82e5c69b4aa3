------------------------ MODULE GoogleEntitlementProofs ------------------------
(***************************************************************************)
(* What GoogleEntitlement establishes for any number of workers, changes,  *)
(* losses and failures, from three inductive invariants.                   *)
(*                                                                         *)
(*   IInv       the guards: terminal statuses absorb, event time does not  *)
(*              go back, a held row is stamped.  The sweeper writes        *)
(*              without consulting the guard, so its candidate must be     *)
(*              known not to be terminal; the reconciliation sweep stamps  *)
(*              by the status it read when it claimed the row, so the row  *)
(*              must still have it, which the row lock ensures.            *)
(*   ServedInv  types, owners of notifications and locks, and Synced: once *)
(*              every sync that is owed has read the rows, the access rows *)
(*              agree with the row, or the one lock holder will make them. *)
(*   StoreInv   the row follows the store since its last change.           *)
(***************************************************************************)
EXTENDS GoogleEntitlement, TLAPS

JobFields == {"at", "msg", "to", "exp", "n", "time", "from", "want", "rows"}
RowFields == {"status", "exp", "at", "held", "checked"}

Shape ==
    /\ DOMAIN job = Process
    /\ \A p \in Process : JobFields \subseteq DOMAIN job[p]
    /\ RowFields \subseteq DOMAIN row

(* Nobody carries a time from the future, and a process about to write the *)
(* row carries one.                                                        *)
Clocks ==
    /\ clock \in Nat
    /\ row.at \in Int
    /\ \A p \in Process :
         /\ job[p].time \in Int /\ job[p].time <= clock
         /\ job[p].at \in {"stamped", "insert", "held"} => job[p].time >= 0

(* The sweeper's candidate was not terminal when it was read. *)
Candidate == job["sweeper"].at = "expire" => job["sweeper"].from \notin Terminal

(* While the reconciliation sweep holds its claim the status stays as read. *)
Claim ==
    job["recon"].at = "held" => rowLock = "recon" /\ job["recon"].from = row.status

IInv == Shape /\ Clocks /\ Candidate /\ Claim /\ HoldIsStamped

(* The three processes that are not workers are distinct from them. *)
LEMMA Names ==
    /\ {"sweeper", "recon", "healer"} \subseteq Process
    /\ Worker \subseteq Process
    /\ \A w \in Worker : w # "sweeper" /\ w # "recon" /\ w # "healer"
  BY EntitlementAssumption DEF Process

(* The initial state satisfies the invariant. *)
LEMMA InitIInv == Init => IInv
  BY Names DEF Init, IInv, Shape, Clocks, Candidate, Claim, HoldIsStamped,
     JobFields, RowFields, Idle, NoRow, Null

(* What a step may do to the row: the three properties read off one step.  *)
RowStep ==
    /\ row.status \in Terminal => row'.status = row.status
    /\ row # NoRow /\ (\A w \in Worker : ~At(w, "insert")) => row'.at >= row.at

(* A step that leaves the row, its lock and the clock alone and moves one  *)
(* process other than a claim holder to a place where it writes nothing,   *)
(* or gives it an admissible time, keeps the invariant.                    *)
LEMMA Moves ==
    ASSUME IInv, NEW p \in Process, NEW j,
           UNCHANGED <<clock, row, rowLock>>,
           job' = [job EXCEPT ![p] = j],
           JobFields \subseteq DOMAIN j,
           j.time \in Int, j.time <= clock,
           j.at \in {"stamped", "insert", "held"} => j.time >= 0,
           p = "sweeper" /\ j.at = "expire" => j.from \notin Terminal,
           p = "recon" => j.at # "held"
    PROVE  IInv' /\ RowStep
  <1>1. Shape'
    BY DEF IInv, Shape
  <1>2. Clocks'
    BY DEF IInv, Shape, Clocks
  <1>3. Candidate'
    BY Names DEF IInv, Shape, Candidate
  <1>4. Claim'
    BY Names DEF IInv, Shape, Claim
  <1>5. HoldIsStamped'
    BY DEF IInv, HoldIsStamped
  <1>6. RowStep
    BY DEF IInv, Clocks, RowStep
  <1> QED
    BY <1>1, <1>2, <1>3, <1>4, <1>5, <1>6 DEF IInv

(* A process that has nothing to write: it is not about to write the row   *)
(* and holds neither a candidate nor a claim.                              *)
Harmless(j) ==
    /\ JobFields \subseteq DOMAIN j
    /\ j.time = -1
    /\ j.at \notin {"stamped", "insert", "held", "expire"}

\* A process at rest writes nothing.
LEMMA IdleHarmless == Harmless(Idle)
  BY DEF Harmless, Idle, JobFields, Null

(* Stop, Go and GoGrant all leave their process harmless. *)
LEMMA GoHarmless ==
    ASSUME NEW p \in Process, NEW where, Go(p, where),
           where \notin {"stamped", "insert", "held", "expire"}
    PROVE  \E j : job' = [job EXCEPT ![p] = j] /\ Harmless(j)
  <1>0. PICK j : j = [Idle EXCEPT !.at = where, !.msg = job[p].msg]
    OBVIOUS
  <1>1. Harmless(j)
    BY <1>0 DEF Harmless, Idle, JobFields, Null
  <1> QED
    BY <1>0, <1>1 DEF Go

\* A handler on its way to the access rows writes no purchase any more.
LEMMA GrantHarmless ==
    ASSUME NEW w \in Process, NEW apply, GoGrant(w, apply)
    PROVE  \E j : job' = [job EXCEPT ![w] = j] /\ Harmless(j)
  <1>0. PICK j : j = [Idle EXCEPT !.at = "find", !.msg = job[w].msg,
                                  !.exp = job[w].exp]
    OBVIOUS
  <1>1. Harmless(j)
    BY <1>0 DEF Harmless, Idle, JobFields, Null
  <1>2. CASE apply /\ job[w].to \in AccessGranting
    BY <1>0, <1>1, <1>2 DEF GoGrant
  <1>3. CASE ~(apply /\ job[w].to \in AccessGranting)
    BY <1>3, GoHarmless DEF GoGrant
  <1> QED
    BY <1>2, <1>3

(* A process that becomes harmless and leaves the row alone. *)
LEMMA HarmlessMoves ==
    ASSUME IInv, NEW p \in Process, UNCHANGED <<clock, row, rowLock>>,
           \E j : job' = [job EXCEPT ![p] = j] /\ Harmless(j)
    PROVE  IInv' /\ RowStep
  <1>1. PICK j : job' = [job EXCEPT ![p] = j] /\ Harmless(j)
    OBVIOUS
  <1>2. /\ JobFields \subseteq DOMAIN j
        /\ j.time \in Int /\ j.time <= clock
        /\ j.at \in {"stamped", "insert", "held"} => j.time >= 0
        /\ p = "sweeper" /\ j.at = "expire" => j.from \notin Terminal
        /\ p = "recon" => j.at # "held"
    BY <1>1 DEF Harmless, IInv, Clocks
  <1> QED
    BY <1>1, <1>2, Moves

\* A process that stops keeps the row's invariant.
LEMMA StopMoves ==
    ASSUME IInv, NEW p \in Process, UNCHANGED <<clock, row, rowLock>>, Stop(p)
    PROVE  IInv' /\ RowStep
  BY HarmlessMoves, IdleHarmless DEF Stop

\* A process that goes on to a step that writes no purchase keeps it too.
LEMMA GoMoves ==
    ASSUME IInv, NEW p \in Process, NEW where,
           UNCHANGED <<clock, row, rowLock>>,
           where \notin {"stamped", "insert", "held", "expire"}, Go(p, where)
    PROVE  IInv' /\ RowStep
  BY HarmlessMoves, GoHarmless

(* A process writes the row, as r, and becomes harmless.  The writer has   *)
(* the row to itself: it is the claim holder or there is none.             *)
LEMMA Writes ==
    ASSUME IInv, NEW p \in Process, NEW r,
           clock' = clock, row' = r,
           \E j : job' = [job EXCEPT ![p] = j] /\ Harmless(j),
           p = "recon" \/ job["recon"].at # "held",
           RowFields \subseteq DOMAIN r, r.at \in Int,
           r.status = "BILLING_ISSUE" => r.held \in 0 .. clock
    PROVE  IInv'
  <1>1. PICK j : job' = [job EXCEPT ![p] = j] /\ Harmless(j)
    OBVIOUS
  <1>2. Shape'
    BY <1>1 DEF IInv, Shape, Harmless
  <1>3. Clocks'
    BY <1>1 DEF IInv, Shape, Clocks, Harmless
  <1>4. Candidate'
    BY <1>1, Names DEF IInv, Shape, Candidate, Harmless
  <1>5. Claim'
    <2>1. job'["recon"].at # "held"
      BY <1>1, Names DEF IInv, Shape, Harmless
    <2> QED
      BY <2>1 DEF Claim
  <1>6. HoldIsStamped'
    BY DEF HoldIsStamped
  <1> QED
    BY <1>2, <1>3, <1>4, <1>5, <1>6 DEF IInv

(* Whoever may lock the row, other than the claim holder, sees no claim. *)
LEMMA FreeMeansUnclaimed ==
    ASSUME IInv, NEW p \in Process, p # "recon", Free(p)
    PROVE  job["recon"].at # "held"
  BY DEF IInv, Claim, Free, Nobody

(* What updateRow writes: the CASE keeps a terminal status, an applied     *)
(* write carries its own time, and a row that enters a hold is stamped     *)
(* with it.                                                                *)
LEMMA UpdateRow ==
    ASSUME IInv, NEW j, NEW apply \in BOOLEAN, NEW from,
           j.time \in 0 .. clock,
           from = row.status \/ from = "NONE"
    PROVE  LET r == updateRow(j, apply, from)
           IN  /\ RowFields \subseteq DOMAIN r
               /\ r.at = IF apply THEN j.time ELSE row.at
               /\ row.status \in Terminal => r.status = row.status
               /\ r.status = "BILLING_ISSUE" => r.held \in 0 .. clock
  <1> DEFINE r == updateRow(j, apply, from)
  <1>1. /\ RowFields \subseteq DOMAIN r
        /\ r.status = (IF apply THEN caseGuarded(row.status, j.to) ELSE row.status)
        /\ r.at = (IF apply THEN j.time ELSE row.at)
        /\ r.held = (IF apply THEN billingIssueStamp(from, j.to, j.time, row.held)
                     ELSE row.held)
    BY DEF updateRow, IInv, Shape, RowFields
  <1>2. row.status \in Terminal => r.status = row.status
    BY <1>1 DEF caseGuarded
  <1>3. ASSUME r.status = "BILLING_ISSUE" PROVE r.held \in 0 .. clock
    <2>1. CASE ~apply
      BY <1>1, <1>3, <2>1 DEF IInv, HoldIsStamped
    <2>2. CASE apply
      <3>1. j.to = "BILLING_ISSUE"
        BY <1>1, <1>3, <2>2 DEF caseGuarded, Terminal
      <3>2. CASE from = "BILLING_ISSUE"
        BY <1>1, <2>2, <3>1, <3>2 DEF billingIssueStamp, IInv, HoldIsStamped
      <3>3. CASE from # "BILLING_ISSUE"
        BY <1>1, <2>2, <3>1, <3>3 DEF billingIssueStamp
      <3> QED
        BY <3>2, <3>3
    <2> QED
      BY <2>1, <2>2
  <1> QED
    BY <1>1, <1>2, <1>3

(* The worker's steps that write no purchase row. *)
LEMMA WorkerMoves ==
    ASSUME IInv, NEW w \in Worker, NEW m,
           \/ Fetch(w, m) \/ FindVoided(w, m) \/ Stamp(w) \/ GuardFirst(w)
           \/ FindAccess(w) \/ createAccess(w) \/ revokeAccessByPurchaseId(w)
    PROVE  IInv' /\ RowStep
  <1>p. w \in Process /\ w # "sweeper" /\ w # "recon"
    BY Names
  <1>c. clock \in Nat /\ job[w].time \in Int /\ job[w].time <= clock
        /\ (job[w].at \in {"stamped", "insert", "held"} => job[w].time >= 0)
    BY <1>p DEF IInv, Clocks
  <1>d. DOMAIN job = Process /\ JobFields \subseteq DOMAIN job[w]
    BY <1>p DEF IInv, Shape
  <1>1. CASE Fetch(w, m)
    <2>1. PICK j : j = [Idle EXCEPT !.at = "fetched", !.msg = m,
                          !.exp = store.exp, !.n = store.n,
                          !.to = mapStatus(store.state, m.kind)]
      OBVIOUS
    <2>2. Harmless(j)
      BY <2>1 DEF Harmless, Idle, JobFields, Null
    <2> QED
      BY <1>1, <1>p, <2>1, <2>2, HarmlessMoves DEF Fetch
  <1>2. CASE FindVoided(w, m)
    <2>1. CASE row = NoRow
      <3>1. UNCHANGED <<clock, row, rowLock, job>>
        BY <1>2, <2>1 DEF FindVoided
      <3> QED
        BY <3>1 DEF IInv, Shape, Clocks, Candidate, Claim, HoldIsStamped, RowStep
    <2>2. CASE row # NoRow
      <3>1. PICK j : j = [Idle EXCEPT !.at = "fetched", !.msg = m]
        OBVIOUS
      <3>2. Harmless(j)
        BY <3>1 DEF Harmless, Idle, JobFields, Null
      <3> QED
        BY <1>2, <1>p, <2>2, <3>1, <3>2, HarmlessMoves DEF FindVoided
    <2> QED
      BY <2>1, <2>2
  <1>3. CASE Stamp(w)
    <2>1. PICK j : j = [job[w] EXCEPT !.at = "stamped", !.time = clock]
      OBVIOUS
    <2>2. JobFields \subseteq DOMAIN j /\ j.time = clock /\ j.at = "stamped"
      BY <2>1, <1>d DEF JobFields
    <2>3. job' = [job EXCEPT ![w] = j] /\ UNCHANGED <<clock, row, rowLock>>
      BY <1>3, <1>d, <1>p, <2>1 DEF Stamp, JobFields
    <2>4. /\ j.time \in Int /\ j.time <= clock
          /\ j.at \in {"stamped", "insert", "held"} => j.time >= 0
          /\ w = "sweeper" /\ j.at = "expire" => j.from \notin Terminal
          /\ w = "recon" => j.at # "held"
      BY <2>2, <1>c
    <2> QED
      BY <1>p, <2>2, <2>3, <2>4, Moves
  <1>4. CASE GuardFirst(w)
    <2>1. PICK j : j = [job[w] EXCEPT !.at = "insert"]
      OBVIOUS
    <2>2. JobFields \subseteq DOMAIN j /\ j.time = job[w].time /\ j.at = "insert"
      BY <2>1, <1>d DEF JobFields
    <2>3. job' = [job EXCEPT ![w] = j] /\ UNCHANGED <<clock, row, rowLock>>
      BY <1>4, <1>d, <1>p, <2>1 DEF GuardFirst
    <2>4. job[w].at = "stamped"
      BY <1>4 DEF GuardFirst, At
    <2>5. /\ j.time \in Int /\ j.time <= clock
          /\ j.at \in {"stamped", "insert", "held"} => j.time >= 0
          /\ w = "sweeper" /\ j.at = "expire" => j.from \notin Terminal
          /\ w = "recon" => j.at # "held"
      BY <2>2, <2>4, <1>c
    <2> QED
      BY <1>p, <2>2, <2>3, <2>5, Moves
  <1>5. CASE FindAccess(w)
    <2>u. UNCHANGED <<clock, row, rowLock>>
      BY <1>5 DEF FindAccess
    <2>1. CASE access = <<>>
      <3>1. PICK j : j = [job[w] EXCEPT !.at = "create"]
        OBVIOUS
      <3>2. JobFields \subseteq DOMAIN j /\ j.time = job[w].time /\ j.at = "create"
        BY <3>1, <1>d DEF JobFields
      <3>3. job' = [job EXCEPT ![w] = j]
        BY <1>5, <1>d, <1>p, <2>1, <3>1 DEF FindAccess
      <3>4. /\ j.time \in Int /\ j.time <= clock
            /\ j.at \in {"stamped", "insert", "held"} => j.time >= 0
            /\ w = "sweeper" /\ j.at = "expire" => j.from \notin Terminal
            /\ w = "recon" => j.at # "held"
        BY <3>2, <1>c
      <3> QED
        BY <1>p, <2>u, <3>2, <3>3, <3>4, Moves
    <2>2. CASE access # <<>>
      <3>1. Go(w, "sync")
        BY <1>5, <2>2 DEF FindAccess
      <3> QED
        BY <1>p, <2>u, <3>1, GoMoves
    <2> QED
      BY <2>1, <2>2
  <1>6. CASE createAccess(w) \/ revokeAccessByPurchaseId(w)
    <2>1. UNCHANGED <<clock, row, rowLock>> /\ Go(w, "sync")
      BY <1>6 DEF createAccess, revokeAccessByPurchaseId
    <2> QED
      BY <1>p, <2>1, GoMoves
  <1> QED
    BY <1>1, <1>2, <1>3, <1>4, <1>5, <1>6

(* The worker's three writes of the purchase row. *)
LEMMA WorkerWrites ==
    ASSUME IInv, NEW w \in Worker,
           WriteRow(w) \/ WriteVoided(w) \/ upsertPurchase(w)
    PROVE  IInv' /\ RowStep
  <1>p. w \in Process /\ w # "recon"
    BY Names
  <1>c. /\ clock \in Nat /\ row.at \in Int
        /\ job[w].at \in {"stamped", "insert"} => job[w].time \in 0 .. clock
    BY <1>p DEF IInv, Clocks
  <1>u. job["recon"].at # "held" /\ clock' = clock
    BY <1>p, FreeMeansUnclaimed DEF WriteRow, WriteVoided, upsertPurchase
  <1>1. CASE WriteRow(w)
    <2>1. PICK j : j = job[w]
      OBVIOUS
    <2>a. PICK apply \in BOOLEAN : apply = guardStatusWrite(j.to, j.time)
      BY DEF guardStatusWrite
    <2>2. j.time \in 0 .. clock
      BY <1>1, <1>c, <2>1 DEF WriteRow, At
    <2>3. PICK r : r = updateRow(j, apply, row.status)
      OBVIOUS
    <2>4. row' = r /\ GoGrant(w, apply)
      BY <1>1, <2>1, <2>a, <2>3 DEF WriteRow
    <2>5. /\ RowFields \subseteq DOMAIN r
          /\ r.at = IF apply THEN j.time ELSE row.at
          /\ row.status \in Terminal => r.status = row.status
          /\ r.status = "BILLING_ISSUE" => r.held \in 0 .. clock
      BY <2>2, <2>3, UpdateRow
    <2>6. ASSUME apply PROVE j.time >= row.at
      <3>1. ~isStale(j.time)
        BY <2>6, <2>a, Zenon DEF guardStatusWrite
      <3> QED
        BY <1>c, <2>2, <3>1 DEF isStale, Null
    <2>7. r.at \in Int /\ r.at >= row.at
      BY <1>c, <2>2, <2>5, <2>6
    <2>8. IInv'
      BY <1>p, <1>u, <2>4, <2>5, <2>7, Writes, GrantHarmless
    <2> QED
      BY <2>4, <2>5, <2>7, <2>8 DEF RowStep
  <1>2. CASE WriteVoided(w)
    <2>1. PICK r : r = row'
      OBVIOUS
    <2>2. job[w].time \in 0 .. clock /\ Go(w, "revoke")
      BY <1>2, <1>c DEF WriteVoided, At
    <2>3. CASE ~guardStatusWrite("REFUNDED", job[w].time)
      <3>1. row' = row
        BY <1>2, <2>3 DEF WriteVoided
      <3>2. /\ RowFields \subseteq DOMAIN r /\ r.at \in Int
            /\ r.status = "BILLING_ISSUE" => r.held \in 0 .. clock
        BY <2>1, <3>1, <1>c DEF IInv, Shape, HoldIsStamped
      <3>3. IInv'
        BY <1>p, <1>u, <2>1, <2>2, <3>2, Writes, GoHarmless
      <3> QED
        BY <1>c, <3>1, <3>3 DEF RowStep
    <2>4. CASE guardStatusWrite("REFUNDED", job[w].time)
      <3>1. row' = [row EXCEPT !.at = job[w].time,
                               !.status = caseGuarded(row.status, "REFUNDED")]
        BY <1>2, <2>4 DEF WriteVoided
      <3>2. /\ RowFields \subseteq DOMAIN r
            /\ r.at = job[w].time
            /\ r.status = caseGuarded(row.status, "REFUNDED")
        BY <2>1, <3>1 DEF IInv, Shape, RowFields
      <3>3. job[w].time >= row.at
        BY <1>c, <2>2, <2>4 DEF guardStatusWrite, isStale, Null
      <3>4. r.status # "BILLING_ISSUE" /\ (row.status \in Terminal => r.status = row.status)
        BY <3>2 DEF caseGuarded, Terminal
      <3>5. r.at \in Int
        BY <2>2, <3>2
      <3>6. IInv'
        BY <1>p, <1>u, <2>1, <2>2, <3>2, <3>4, <3>5, Writes, GoHarmless
      <3> QED
        BY <2>1, <3>2, <3>3, <3>4, <3>6 DEF RowStep
    <2> QED
      BY <2>3, <2>4
  <1>3. CASE upsertPurchase(w)
    <2>1. PICK j : j = job[w]
      OBVIOUS
    <2>2. PICK r : r = row'
      OBVIOUS
    <2>3. /\ j.time \in 0 .. clock /\ GoGrant(w, TRUE) /\ job[w].at = "insert"
      BY <1>3, <1>c, <2>1 DEF upsertPurchase, At
    <2>4. CASE row = NoRow
      <3>1. r = [status |-> j.to, exp |-> j.exp, at |-> j.time,
                 held |-> billingIssueStamp("NONE", j.to, j.time, Null),
                 checked |-> Null]
        BY <1>3, <2>1, <2>2, <2>4 DEF upsertPurchase
      <3>2. /\ RowFields \subseteq DOMAIN r /\ r.at \in Int
            /\ r.status = "BILLING_ISSUE" => r.held \in 0 .. clock
        BY <2>3, <3>1 DEF RowFields, billingIssueStamp
      <3>3. IInv'
        BY <1>p, <1>u, <2>2, <2>3, <3>2, Writes, GrantHarmless
      <3> QED
        BY <2>4, <3>3 DEF RowStep, NoRow, Terminal
    <2>5. CASE row # NoRow
      <3>1. r = updateRow(j, TRUE, "NONE")
        BY <1>3, <2>1, <2>2, <2>5 DEF upsertPurchase
      <3>2. /\ RowFields \subseteq DOMAIN r
            /\ r.at = j.time
            /\ row.status \in Terminal => r.status = row.status
            /\ r.status = "BILLING_ISSUE" => r.held \in 0 .. clock
        BY <2>3, <3>1, UpdateRow
      <3>3. r.at \in Int
        BY <2>3, <3>2
      <3>4. IInv'
        BY <1>p, <1>u, <2>2, <2>3, <3>2, <3>3, Writes, GrantHarmless
      <3> QED
        BY <2>2, <2>3, <3>2, <3>4 DEF RowStep, At
    <2> QED
      BY <2>4, <2>5
  <1> QED
    BY <1>1, <1>2, <1>3

(* Reading for a sync: the process keeps its time and goes to "apply". *)
LEMMA SyncReadMoves ==
    ASSUME IInv, NEW p \in Process, syncRead(p)
    PROVE  IInv' /\ RowStep
  <1>c. job[p].time \in Int /\ job[p].time <= clock
    BY DEF IInv, Clocks
  <1>d. DOMAIN job = Process /\ JobFields \subseteq DOMAIN job[p]
    BY DEF IInv, Shape
  <1>1. PICK j : j = [job[p] EXCEPT !.at = "apply", !.want = computeDesiredAccess,
                                    !.rows = access]
    OBVIOUS
  <1>2. JobFields \subseteq DOMAIN j /\ j.time = job[p].time /\ j.at = "apply"
    BY <1>1, <1>d DEF JobFields
  <1>3. job' = [job EXCEPT ![p] = j] /\ UNCHANGED <<clock, row, rowLock>>
    BY <1>1, <1>d DEF syncRead, JobFields
  <1>4. /\ j.time \in Int /\ j.time <= clock
        /\ j.at \in {"stamped", "insert", "held"} => j.time >= 0
        /\ p = "sweeper" /\ j.at = "expire" => j.from \notin Terminal
        /\ p = "recon" => j.at # "held"
    BY <1>2, <1>c
  <1> QED
    BY <1>2, <1>3, <1>4, Moves

(* The steps every process may take on its access sync. *)
LEMMA SyncMoves ==
    ASSUME IInv, NEW p \in Process,
           SyncRead(p) \/ SyncApply(p) \/ SyncFail(p)
    PROVE  IInv' /\ RowStep
  <1>1. CASE SyncRead(p)
    <2> QED
      BY <1>1, SyncReadMoves DEF SyncRead, At
  <1>2. CASE SyncApply(p)
    <2>1. UNCHANGED <<clock, row, rowLock>> /\ AfterSync(p)
      BY <1>2 DEF SyncApply
    <2>2. Stop(p) \/ Go(p, "tell")
      BY <2>1 DEF AfterSync
    <2> QED
      BY <2>1, <2>2, StopMoves, GoMoves
  <1>3. CASE SyncFail(p)
    <2>1. UNCHANGED <<clock, row, rowLock>> /\ (Stop(p) \/ Go(p, "tell"))
      BY <1>3 DEF SyncFail
    <2> QED
      BY <2>1, StopMoves, GoMoves
  <1> QED
    BY <1>1, <1>2, <1>3

(* The sweeper. *)
LEMMA SweepMoves ==
    ASSUME IInv, SweepStep
    PROVE  IInv' /\ RowStep
  <1>p. "sweeper" \in Process
    BY Names
  <1>c. clock \in Nat /\ row.at \in Int
    BY DEF IInv, Clocks
  <1>1. CASE SweepRead
    <2>1. PICK j : j = [Idle EXCEPT !.at = "expire", !.from = row.status]
      OBVIOUS
    <2>2. /\ JobFields \subseteq DOMAIN j /\ j.time = -1
          /\ j.at = "expire" /\ j.from = row.status
      BY <2>1 DEF Idle, JobFields, Null
    <2>3. job' = [job EXCEPT !["sweeper"] = j] /\ UNCHANGED <<clock, row, rowLock>>
      BY <1>1, <2>1 DEF SweepRead
    <2>4. row.status \notin Terminal
      BY <1>1 DEF SweepRead, Overdue, Aged, Sweepable, Terminal
    <2>5. /\ j.time \in Int /\ j.time <= clock
          /\ j.at \in {"stamped", "insert", "held"} => j.time >= 0
          /\ "sweeper" = "sweeper" /\ j.at = "expire" => j.from \notin Terminal
          /\ "sweeper" = "recon" => j.at # "held"
      BY <2>2, <2>4, <1>c
    <2> QED
      BY <1>p, <2>2, <2>3, <2>5, Moves
  <1>2. CASE updatePurchaseStatusIf
    <2>1. /\ job["recon"].at # "held" /\ clock' = clock /\ rowLock' = rowLock
          /\ job["sweeper"].at = "expire"
      BY <1>2, <1>p, FreeMeansUnclaimed DEF updatePurchaseStatusIf, At
    <2>2. CASE swapMatches(job["sweeper"].from)
      <3>1. row.status \notin Terminal
        BY <2>1, <2>2 DEF swapMatches, IInv, Candidate
      <3>2. PICK r : r = [row EXCEPT !.status = "EXPIRED"]
        OBVIOUS
      <3>3. row' = r /\ Go("sweeper", "sync")
        BY <1>2, <2>2, <3>2 DEF updatePurchaseStatusIf
      <3>4. RowFields \subseteq DOMAIN r /\ r.at = row.at /\ r.status = "EXPIRED"
        BY <3>2 DEF IInv, Shape, RowFields
      <3>5. IInv'
        BY <1>p, <1>c, <2>1, <3>3, <3>4, Writes, GoHarmless
      <3> QED
        BY <1>c, <3>1, <3>3, <3>4, <3>5 DEF RowStep
    <2>3. CASE ~swapMatches(job["sweeper"].from)
      <3>1. Stop("sweeper") /\ UNCHANGED <<clock, row, rowLock>>
        BY <1>2, <2>1, <2>3 DEF updatePurchaseStatusIf
      <3> QED
        BY <1>p, <3>1, StopMoves
    <2> QED
      BY <2>2, <2>3
  <1>3. CASE Tell
    <2>1. Stop("sweeper") /\ UNCHANGED <<clock, row, rowLock>>
      BY <1>3 DEF Tell
    <2> QED
      BY <1>p, <2>1, StopMoves
  <1> QED
    BY <1>1, <1>2, <1>3 DEF SweepStep

(* The reconciliation sweep. *)
LEMMA ReconMoves ==
    ASSUME IInv, ReconStep
    PROVE  IInv' /\ RowStep
  <1>p. "recon" \in Process
    BY Names
  <1>c. clock \in Nat /\ row.at \in Int
    BY DEF IInv, Clocks
  <1>1. CASE ReconClaim
    <2>1. PICK now \in 0 .. clock :
            job' = [job EXCEPT !["recon"] = [Idle EXCEPT
                      !.at = "held", !.time = now, !.from = row.status,
                      !.to = mapSubscriptionStateToStatus(store.state),
                      !.exp = store.exp, !.n = store.n]]
      BY <1>1 DEF ReconClaim
    <2>2. PICK j : j = [Idle EXCEPT
                      !.at = "held", !.time = now, !.from = row.status,
                      !.to = mapSubscriptionStateToStatus(store.state),
                      !.exp = store.exp, !.n = store.n]
      OBVIOUS
    <2>3. /\ JobFields \subseteq DOMAIN j /\ j.time = now
          /\ j.at = "held" /\ j.from = row.status
      BY <2>2 DEF Idle, JobFields
    <2>4. /\ job' = [job EXCEPT !["recon"] = j]
          /\ UNCHANGED <<clock, row>> /\ rowLock' = "recon"
      BY <1>1, <2>1, <2>2 DEF ReconClaim
    <2>5. Shape'
      BY <2>3, <2>4 DEF IInv, Shape
    <2>6. Clocks'
      BY <1>p, <1>c, <2>1, <2>3, <2>4 DEF IInv, Shape, Clocks
    <2>7. Candidate' /\ Claim'
      BY Names, <2>3, <2>4 DEF IInv, Shape, Candidate, Claim
    <2>8. HoldIsStamped' /\ RowStep
      BY <1>c, <2>4 DEF IInv, HoldIsStamped, RowStep
    <2> QED
      BY <2>5, <2>6, <2>7, <2>8 DEF IInv
  <1>2. CASE ReconError
    <2>1. PICK r : r = row
      OBVIOUS
    <2>2. /\ RowFields \subseteq DOMAIN r /\ r.at \in Int
          /\ r.status = "BILLING_ISSUE" => r.held \in 0 .. clock
      BY <1>c, <2>1 DEF IInv, Shape, HoldIsStamped
    <2>3. clock' = clock /\ row' = r /\ job' = [job EXCEPT !["recon"] = Idle]
      BY <1>2, <2>1 DEF ReconError, Stop
    <2>4. IInv'
      BY <1>p, <2>2, <2>3, Writes, IdleHarmless
    <2> QED
      BY <1>c, <2>1, <2>3, <2>4 DEF RowStep
  <1>3. CASE ReconWrite
    <2>1. PICK j : j = job["recon"]
      OBVIOUS
    <2>2. j.time \in 0 .. clock /\ j.from = row.status /\ clock' = clock
      BY <1>3, <1>p, <1>c, <2>1 DEF ReconWrite, At, IInv, Clocks, Claim
    <2>3. PICK r : r = row'
      OBVIOUS
    <2>4. CASE j.to # j.from /\ guardStatusWrite(j.to, j.time)
      <3>1. PICK u : u = updateRow(j, TRUE, j.from)
        OBVIOUS
      <3>2. r = [u EXCEPT !.checked = j.time] /\ Go("recon", "sync")
        BY <1>3, <2>1, <2>3, <2>4, <3>1 DEF ReconWrite
      <3>3. /\ RowFields \subseteq DOMAIN u /\ u.at = j.time
            /\ row.status \in Terminal => u.status = row.status
            /\ u.status = "BILLING_ISSUE" => u.held \in 0 .. clock
        BY ZenonT(60), <2>2, <3>1, UpdateRow
      <3>4. /\ RowFields \subseteq DOMAIN r /\ r.at = j.time
            /\ row.status \in Terminal => r.status = row.status
            /\ r.status = "BILLING_ISSUE" => r.held \in 0 .. clock
        BY <3>2, <3>3 DEF RowFields
      <3>5. r.at \in Int /\ r.at >= row.at
        <4>1. ~isStale(j.time)
          BY <2>4, Zenon DEF guardStatusWrite
        <4> QED
          BY <1>c, <2>2, <3>4, <4>1 DEF isStale, Null
      <3>6. IInv'
        BY <1>p, <2>2, <2>3, <3>2, <3>4, <3>5, Writes, GoHarmless
      <3> QED
        BY <2>3, <3>4, <3>5, <3>6 DEF RowStep
    <2>5. CASE ~(j.to # j.from /\ guardStatusWrite(j.to, j.time))
      <3>1. r = [row EXCEPT !.checked = j.time] /\ Stop("recon")
        BY <1>3, <2>1, <2>3, <2>5 DEF ReconWrite
      <3>2. /\ RowFields \subseteq DOMAIN r /\ r.at = row.at
            /\ r.status = row.status /\ r.held = row.held
        BY <3>1 DEF IInv, Shape, RowFields
      <3>3. r.at \in Int /\ (r.status = "BILLING_ISSUE" => r.held \in 0 .. clock)
        BY <1>c, <3>2 DEF IInv, HoldIsStamped
      <3>4. IInv'
        BY <1>p, <2>2, <2>3, <3>1, <3>2, <3>3, Writes, IdleHarmless DEF Stop
      <3> QED
        BY <1>c, <2>3, <3>2, <3>4 DEF RowStep
    <2> QED
      BY <2>4, <2>5
  <1> QED
    BY <1>1, <1>2, <1>3 DEF ReconStep

(* A crash makes its process harmless and releases what it held. *)
LEMMA CrashMoves ==
    ASSUME IInv, NEW p \in Process, Crash(p)
    PROVE  IInv' /\ RowStep
  <1>c. clock \in Nat /\ row.at \in Int
    BY DEF IInv, Clocks
  <1>1. /\ UNCHANGED <<clock, row>> /\ job' = [job EXCEPT ![p] = Idle]
        /\ rowLock' = IF rowLock = p THEN Nobody ELSE rowLock
    BY DEF Crash, Stop
  <1>2. Shape'
    BY <1>1, IdleHarmless DEF IInv, Shape, Harmless
  <1>3. Clocks'
    BY <1>1, <1>c, IdleHarmless DEF IInv, Shape, Clocks, Harmless
  <1>4. Candidate'
    BY <1>1, Names, IdleHarmless DEF IInv, Shape, Candidate, Harmless
  <1>5. Claim'
    BY <1>1, Names, IdleHarmless DEF IInv, Shape, Claim, Harmless
  <1>6. HoldIsStamped' /\ RowStep
    BY <1>1, <1>c DEF IInv, HoldIsStamped, RowStep
  <1> QED
    BY <1>2, <1>3, <1>4, <1>5, <1>6 DEF IInv

(* Time and the store touch none of this. *)
LEMMA WorldMoves ==
    ASSUME IInv, Tick \/ StoreStep
    PROVE  IInv' /\ RowStep
  <1>c. clock \in Nat /\ row.at \in Int
    BY DEF IInv, Clocks
  <1>1. UNCHANGED <<row, job, rowLock>> /\ clock' \in {clock, clock + 1}
    BY DEF Tick, StoreStep, Charge, Lapse, Revoke, Void, StoreMove
  <1>2. Shape' /\ Candidate' /\ Claim'
    BY <1>1 DEF IInv, Shape, Candidate, Claim
  <1>3. Clocks'
    BY <1>1, <1>c DEF IInv, Clocks
  <1>4. HoldIsStamped' /\ RowStep
    BY <1>1, <1>c DEF IInv, HoldIsStamped, RowStep
  <1> QED
    BY <1>2, <1>3, <1>4 DEF IInv

(* Every step keeps the invariant and does to the row only what RowStep    *)
(* allows.                                                                 *)
LEMMA NextStep ==
    ASSUME IInv, [Next]_vars
    PROVE  IInv' /\ (RowStep \/ UNCHANGED vars)
  <1>1. CASE UNCHANGED vars
    BY <1>1 DEF vars, IInv, Shape, Clocks, Candidate, Claim, HoldIsStamped
  <1>2. CASE Tick \/ StoreStep
    BY <1>2, WorldMoves
  <1>3. ASSUME NEW w \in Worker, WorkerStep(w) PROVE IInv' /\ RowStep
    BY <1>3, WorkerMoves, WorkerWrites DEF WorkerStep
  <1>4. CASE SweepStep
    BY <1>4, SweepMoves
  <1>5. CASE ReconStep
    BY <1>5, ReconMoves
  <1>6. CASE Heal
    BY <1>6, Names, SyncReadMoves DEF Heal, At
  <1>7. ASSUME NEW p \in Process,
               SyncRead(p) \/ SyncApply(p) \/ SyncFail(p) \/ Crash(p)
        PROVE  IInv' /\ RowStep
    BY <1>7, SyncMoves, CrashMoves
  <1> QED
    BY <1>1, <1>2, <1>3, <1>4, <1>5, <1>6, <1>7 DEF Next

(* The invariant holds in every state, for any number of workers and any   *)
(* bounds.                                                                 *)
THEOREM EntitlementInvariant == Spec => []IInv
  <1>1. Init => IInv
    BY InitIInv
  <1>2. IInv /\ [Next]_vars => IInv'
    BY NextStep
  <1> QED
    BY <1>1, <1>2, PTL DEF Spec

(* HoldIsStamped: a BILLING_ISSUE row always carries the date its hold     *)
(* began, whichever of the handler, the conflicting first insert and the   *)
(* reconciliation sweep put it there.                                      *)
THEOREM EntitlementHoldIsStamped == Spec => []HoldIsStamped
  <1>1. IInv => HoldIsStamped
    BY DEF IInv
  <1> QED
    BY <1>1, EntitlementInvariant, PTL

(* TerminalIsAbsorbing: no writer moves a refunded or revoked purchase. *)
THEOREM EntitlementTerminal == Spec => TerminalIsAbsorbing
  <1>1. IInv /\ [Next]_vars => [row.status \in Terminal => row'.status = row.status]_vars
    BY NextStep DEF RowStep
  <1> QED
    BY <1>1, EntitlementInvariant, PTL DEF Spec, TerminalIsAbsorbing

(* EventOrder: outside two concurrent first inserts, the row's event time  *)
(* never goes back.                                                        *)
THEOREM EntitlementEventOrder == Spec => EventOrder
  <1>1. IInv /\ [Next]_vars
          => [row # NoRow /\ (\A w \in Worker : ~At(w, "insert"))
                => row'.at >= row.at]_vars
    BY NextStep DEF RowStep
  <1> QED
    BY <1>1, EntitlementInvariant, PTL DEF Spec, EventOrder

--------------------------------------------------------------------------------
(***************************************************************************)
(* The second inductive invariant, on top of IInv: types, who holds which  *)
(* notification and lock, what a process carries, and how the access rows  *)
(* follow the row and the row follows the store.                           *)
(***************************************************************************)
StoreState == {"ACTIVE", "IN_GRACE_PERIOD", "ON_HOLD", "PAUSED", "EXPIRED"}

(* The shared variables have their types; the clock bounds expiries. *)
Typed ==
    /\ clock \in 0 .. MaxTime
    /\ store \in [state : StoreState, exp : Time, n : 1 .. MaxChanges]
    /\ inbox \subseteq Msg /\ \A m \in inbox : m.n <= store.n
    /\ row \in Row \cup {NoRow}
    /\ access \in Seq(Access)
    /\ lost \in 0 .. MaxLost /\ fails \in 0 .. MaxFail
    /\ newest \in 0 .. store.n
    /\ skewed \in BOOLEAN /\ unsynced \in BOOLEAN /\ untold \in Int

(* Each lock is held by the process that is in its transaction. *)
Locked ==
    /\ rowLock \in {Nobody, "recon"} /\ (rowLock = "recon" => At("recon", "held"))
    /\ syncLock \in Process \cup {Nobody}
    /\ \A p \in Process : At(p, "apply") <=> syncLock = p

(* A worker that has fetched carries Google's state as of change n. *)
Carries(p) ==
    \/ /\ p \in Worker /\ job[p].at \in {"fetched", "stamped", "insert"}
       /\ job[p].msg.kind # "VOIDED"
    \/ p = "recon" /\ At(p, "held")

(* Where a worker stands after its write of the row. *)
Past == {"find", "create", "revoke", "sync", "apply"}

Places(p) ==
    IF p \in Worker THEN {"idle", "fetched", "stamped", "insert"} \cup Past
    ELSE IF p = "sweeper" THEN {"idle", "expire", "sync", "apply", "tell"}
    ELSE IF p = "recon" THEN {"idle", "held", "sync", "apply"}
    ELSE {"idle", "apply"}

(* What a process carries where it stands. *)
Sound(p) ==
    /\ job[p].at \in Places(p)
    /\ IF p \in Worker /\ job[p].at # "idle" THEN job[p].msg \in inbox
       ELSE job[p].msg = NoMsg
    /\ Carries(p) => /\ job[p].to \in Status /\ job[p].exp \in Time
                     /\ job[p].n \in 1 .. store.n /\ job[p].n >= job[p].msg.n
    /\ At(p, "insert") => job[p].msg.kind # "VOIDED"
    /\ job[p].at \in {"find", "create"} => job[p].exp \in Time
    /\ At(p, "apply") => job[p].want \in Time \cup {Null}
    /\ (IF p \in Worker THEN job[p].at \in Past \/ job[p].msg.kind = "VOIDED"
        ELSE job[p].at # "idle") => row # NoRow
    /\ p \in Worker /\ job[p].at \in Past /\ job[p].msg.kind # "VOIDED"
         => newest >= job[p].msg.n
    /\ p = "sweeper" /\ At(p, "expire") => job[p].from # "EXPIRED"

(* A notification is in the hands of one worker. *)
OneOwner ==
    \A v, w \in Worker : v # w /\ ~At(v, "idle") => job[v].msg # job[w].msg

(* Before the first row nothing was granted or given. *)
BeforeFirst == row = NoRow => access = <<>> /\ newest = 0

(* The lapses the sweeper has written and not yet announced. *)
Owed == IF job["sweeper"].at \in {"sync", "apply", "tell"} THEN 1 ELSE 0
Announced == untold >= Owed /\ (fails = 0 => untold = Owed)

(* Somebody has still to read the row and the access rows for a sync. *)
Pending ==
    \/ unsynced
    \/ \E m \in inbox : \A w \in Worker : At(w, "apply") => job[w].msg # m
    \/ At("sweeper", "sync") \/ At("recon", "sync")

Entitled == row.status \in AccessGranting /\ row.exp > clock

(* The access rows grant what the row entitles to ... *)
Agrees ==
    /\ Entitled => \E i \in DOMAIN access : access[i].active = TRUE /\ access[i].exp = row.exp
    /\ row.status \notin AccessGranting => \A i \in DOMAIN access : access[i].active = FALSE

(* ... or a sync that is about to write read them as they are. *)
Reading(p) ==
    /\ job[p].rows = access
    /\ Entitled => job[p].want = row.exp
    /\ row.status \notin AccessGranting => job[p].want = Null

Synced == ~Pending => IF syncLock = Nobody THEN Agrees ELSE Reading(syncLock)

ServedInv ==
    /\ Typed /\ Locked /\ OneOwner /\ BeforeFirst /\ Announced /\ Synced
    /\ \A p \in Process : Sound(p)

--------------------------------------------------------------------------------
(***************************************************************************)
(* The third: the row follows the store.                                   *)
(***************************************************************************)

(* Unless the subscription was cut short, nobody carries an expiry past    *)
(* the store's, and a lapsed one is over.                                  *)
Dated(p) ==
    /\ job[p].exp \in Time \cup {Null} /\ job[p].want \in Time \cup {Null}
    /\ store.state # "EXPIRED" => job[p].exp <= store.exp /\ job[p].want <= store.exp

Expiries ==
    /\ store.exp <= clock + Period
    /\ store.state \in {"ON_HOLD", "PAUSED"} => store.exp <= clock
    /\ (\E m \in inbox : m.kind = "REVOKED") => store.state = "EXPIRED"
    /\ store.state # "EXPIRED" =>
         row.exp <= store.exp /\ \A i \in DOMAIN access : access[i].exp <= store.exp
    /\ \A p \in Process : Dated(p)

(* What the row owes to the store's present state. *)
Mirrors ==
    /\ row.exp = store.exp
    /\ row.status \notin Terminal =>
         /\ store.state = "ACTIVE" /\ store.exp > clock => row.status \in AccessGranting
         /\ store.state = "EXPIRED" => row.status \notin AccessGranting

(* What was fetched at change b or later is what the store says now. *)
Latest(to) ==
    \/ to = mapSubscriptionStateToStatus(store.state)
    \/ to = "REVOKED" /\ store.state = "EXPIRED"
Fresh(p, b) ==
    Carries(p) /\ job[p].n >= b => job[p].exp = store.exp /\ Latest(job[p].to)

(* Change b reached the row, was lost, or is still to be processed. *)
Owing(b) == newest >= b \/ lost > 0 \/ \E m \in inbox : m.kind # "VOIDED" /\ m.n >= b

(* Change b was the last to change the store's state or expiry. *)
SinceChange(b) ==
    /\ \A p \in Process : Fresh(p, b)
    /\ newest >= b /\ skewed = FALSE => Mirrors
    /\ Owing(b)

StoreInv == Expiries /\ \E b \in 1 .. store.n : SinceChange(b)

--------------------------------------------------------------------------------
(* Numbers and names the second invariant speaks of. *)
LEMMA Numbers ==
    /\ Period \in Nat /\ MaxTime \in Nat /\ MaxChanges \in Nat /\ MaxLost \in Nat
    /\ MaxFail \in Nat /\ Period > 0 /\ MaxChanges > 0
    /\ Null = -1 /\ Null \notin Time /\ Time \subseteq Nat
    /\ Nobody \notin Process /\ "NONE" \notin Status
    /\ NoMsg \notin Msg
  <1>1. /\ Period \in Nat /\ MaxTime \in Nat /\ MaxChanges \in Nat /\ MaxLost \in Nat
        /\ MaxFail \in Nat /\ Period > 0 /\ MaxChanges > 0
    BY EntitlementAssumption
  <1>2. Null = -1 /\ Null \notin Time /\ Time \subseteq Nat
    BY <1>1 DEF Null, Time
  <1>3. Nobody \notin Process /\ "NONE" \notin Status
    BY EntitlementAssumption DEF Nobody, Process, Status
  <1>4. NoMsg \notin Msg
    BY <1>1 DEF NoMsg, Msg
  <1> QED
    BY <1>1, <1>2, <1>3, <1>4

(* A row has an expiry; the missing one has none and no status. *)
LEMMA RowType ==
    ASSUME Typed
    PROVE  /\ row.exp \in Int
           /\ row # NoRow => row \in Row /\ row.exp \in Time /\ row.status \in Status
           /\ row = NoRow => row.exp = -1 /\ row.status = "NONE"
  <1>1. CASE row \in Row
    <2>1. row.exp \in Time /\ row.status \in Status
      BY <1>1 DEF Row
    <2>2. row # NoRow
      BY <2>1, Numbers DEF NoRow
    <2>3. PICK x \in Nat : x = row.exp
      BY <2>1, Numbers
    <2>4. row.exp \in Int
      BY <2>3
    <2> QED
      BY <1>1, <2>1, <2>2, <2>4
  <1>2. CASE row = NoRow
    BY <1>2, Numbers DEF NoRow
  <1> QED
    BY <1>1, <1>2 DEF Typed

(* One process' record is replaced. *)
LEMMA Replaced ==
    ASSUME IInv, NEW p \in Process, NEW j, job' = [job EXCEPT ![p] = j]
    PROVE  job'[p] = j /\ \A q \in Process \ {p} : job'[q] = job[q]
  BY DEF IInv, Shape

(* Another process' step leaves what a process carries sound. *)
LEMMA SoundStays ==
    ASSUME ServedInv, Typed', NEW q \in Process, job'[q] = job[q],
           store.n <= store'.n, newest <= newest', row # NoRow => row' # NoRow,
           q \in Worker /\ ~At(q, "idle") => job[q].msg \in inbox'
    PROVE  Sound(q)'
  <1>1. Sound(q) /\ Typed
    BY DEF ServedInv
  <1>2. Carries(q)' <=> Carries(q)
    BY DEF Carries, At
  <1>3. Carries(q)' => /\ job'[q].to \in Status /\ job'[q].exp \in Time
                       /\ job'[q].n \in 1 .. store'.n /\ job'[q].n >= job'[q].msg.n
    BY SMTT(40), <1>1, <1>2 DEF Sound, Typed
  <1>4. q \in Worker /\ job'[q].at \in Past /\ job'[q].msg.kind # "VOIDED"
          => newest' >= job'[q].msg.n
    <2> SUFFICES ASSUME q \in Worker, job[q].at \in Past, job[q].msg.kind # "VOIDED"
                 PROVE  newest' >= job[q].msg.n
      OBVIOUS
    <2>1. job[q].msg \in inbox /\ newest >= job[q].msg.n
      BY <1>1 DEF Sound, Past
    <2>2. job[q].msg.n \in Int /\ newest \in Int /\ newest' \in Int
      BY <1>1, <2>1, Numbers DEF Typed, Msg
    <2> QED
      BY <2>1, <2>2
  <1>5. /\ job'[q].at \in Places(q)
        /\ IF q \in Worker /\ job'[q].at # "idle" THEN job'[q].msg \in inbox'
           ELSE job'[q].msg = NoMsg
        /\ At(q, "insert")' => job'[q].msg.kind # "VOIDED"
        /\ job'[q].at \in {"find", "create"} => job'[q].exp \in Time
        /\ At(q, "apply")' => job'[q].want \in Time \cup {Null}
        /\ (IF q \in Worker THEN job'[q].at \in Past \/ job'[q].msg.kind = "VOIDED"
            ELSE job'[q].at # "idle") => row' # NoRow
        /\ q = "sweeper" /\ At(q, "expire")' => job'[q].from # "EXPIRED"
    BY <1>1 DEF Sound, At
  <1> QED
    BY <1>3, <1>4, <1>5 DEF Sound

(* A step of process p that hands it no notification but a free one and    *)
(* takes none from the others.                                             *)
LEMMA ServedStep ==
    ASSUME IInv, ServedInv, NEW p \in Process, NEW j, job' = [job EXCEPT ![p] = j],
           Typed', store.n <= store'.n, newest <= newest', row # NoRow => row' # NoRow,
           \A w \in Worker \ {p} : ~At(w, "idle") => job[w].msg \in inbox',
           p \in Worker /\ j.at # "idle" =>
              \/ job[p].at # "idle" /\ j.msg = job[p].msg
              \/ j.msg \in Msg /\ \A v \in Worker : job[v].msg # j.msg,
           j.at = "idle" => j.msg = NoMsg,
           Sound(p)', Locked', BeforeFirst', Announced', Synced'
    PROVE  ServedInv'
  <1>1. job'[p] = j /\ \A q \in Process \ {p} : job'[q] = job[q]
    BY Replaced
  <1>2. \A q \in Process : Sound(q)'
    <2>1. ASSUME NEW q \in Process \ {p} PROVE Sound(q)'
      BY <1>1, <2>1, SoundStays
    <2> QED
      BY <2>1
  <1>3. OneOwner'
    <2> SUFFICES ASSUME NEW v \in Worker, NEW w \in Worker, v # w, ~At(v, "idle")'
                 PROVE  job'[v].msg # job'[w].msg
      BY DEF OneOwner
    <2>1. v \in Process /\ w \in Process
      BY Names
    <2>2. \A u \in Worker : Sound(u) /\ inbox \subseteq Msg
      BY Names DEF ServedInv, Typed
    <2>3. \A u \in Worker : IF At(u, "idle") THEN job[u].msg = NoMsg ELSE job[u].msg \in Msg
      BY <2>2 DEF Sound, At
    <2>4. CASE v # p /\ w # p
      <3>1. job'[v] = job[v] /\ job'[w] = job[w] /\ ~At(v, "idle")
        BY <1>1, <2>1, <2>4 DEF At
      <3> QED
        BY <3>1 DEF ServedInv, OneOwner
    <2>5. CASE v = p
      <3>1. job'[v] = j /\ job'[w] = job[w] /\ j.at # "idle"
        BY <1>1, <2>1, <2>5 DEF At
      <3>2. CASE j.msg \in Msg /\ \A u \in Worker : job[u].msg # j.msg
        BY <3>1, <3>2
      <3>3. CASE job[p].at # "idle" /\ j.msg = job[p].msg
        BY <2>5, <3>1, <3>3 DEF ServedInv, OneOwner, At
      <3> QED
        BY <2>5, <3>1, <3>2, <3>3
    <2>6. CASE w = p
      <3>1. job'[w] = j /\ job'[v] = job[v] /\ ~At(v, "idle")
        BY <1>1, <2>1, <2>6 DEF At
      <3>2. job[v].msg \in Msg
        BY <2>3, <3>1
      <3>3. CASE j.at = "idle"
        BY <3>1, <3>2, <3>3, Numbers
      <3>4. CASE j.at # "idle" /\ job[p].at # "idle" /\ j.msg = job[p].msg
        BY <2>6, <3>1, <3>4 DEF ServedInv, OneOwner
      <3>5. CASE \A u \in Worker : job[u].msg # j.msg
        BY <3>1, <3>5
      <3> QED
        BY <2>6, <3>3, <3>4, <3>5
    <2> QED
      BY <2>4, <2>5, <2>6
  <1> QED
    BY <1>2, <1>3 DEF ServedInv

(* A process other than a lock's holder moves without taking a lock. *)
LEMMA LockedStays ==
    ASSUME IInv, ServedInv, NEW p \in Process, NEW j, job' = [job EXCEPT ![p] = j],
           UNCHANGED <<rowLock, syncLock>>, j.at # "apply", job[p].at # "apply",
           p = "recon" => job[p].at # "held"
    PROVE  Locked'
  <1>1. job'[p] = j /\ \A q \in Process \ {p} : job'[q] = job[q]
    BY Replaced
  <1>2. Locked
    BY DEF ServedInv
  <1> QED
    BY <1>1, <1>2, Names DEF Locked, At

(* A worker that has a notification in hand, and is not inside its sync,   *)
(* has its sync's read to come.                                            *)
LEMMA WorkerServed ==
    ASSUME IInv, ServedInv, NEW w \in Worker, NEW j, job' = [job EXCEPT ![w] = j], Typed',
           UNCHANGED <<store, inbox, rowLock, syncLock, fails, untold>>,
           newest <= newest', row # NoRow => row' # NoRow,
           job[w].at # "apply", j.at \notin {"apply", "idle"}, j.msg \in inbox,
           \/ job[w].at # "idle" /\ j.msg = job[w].msg
           \/ \A v \in Worker : job[v].msg # j.msg,
           Sound(w)', BeforeFirst'
    PROVE  ServedInv'
  <1>p. w \in Process /\ w # "sweeper" /\ w # "recon"
    BY Names
  <1>1. job'[w] = j /\ \A q \in Process \ {w} : job'[q] = job[q]
    BY <1>p, Replaced
  <1>2. Locked'
    BY <1>p, LockedStays
  <1>3. Announced'
    BY <1>1, <1>p, Names DEF ServedInv, Announced, Owed
  <1>4. Pending'
    <2>1. \A v \in Worker : At(v, "apply")' => job'[v].msg # j.msg
      <3> SUFFICES ASSUME NEW v \in Worker, At(v, "apply")' PROVE job'[v].msg # j.msg
        OBVIOUS
      <3>1. v # w /\ job'[v] = job[v] /\ At(v, "apply")
        BY <1>1, Names DEF At
      <3>2. job[v].msg # job[w].msg
        BY <3>1 DEF ServedInv, OneOwner, At
      <3> QED
        BY <3>1, <3>2
    <2> QED
      BY <2>1 DEF Pending
  <1>5. Synced'
    BY <1>4 DEF Synced
  <1>6. \A v \in Worker \ {w} : ~At(v, "idle") => job[v].msg \in inbox'
    BY Names DEF ServedInv, Sound, At
  <1>7. store.n <= store'.n /\ j.msg \in Msg
    BY Numbers DEF ServedInv, Typed
  <1> QED
    BY <1>p, <1>2, <1>3, <1>5, <1>6, <1>7, ServedStep

(* Types that hold before a step and are not touched by it. *)
LEMMA TypedStays ==
    ASSUME ServedInv, UNCHANGED <<clock, store, inbox, lost, fails>>,
           row' \in Row \cup {NoRow}, access' \in Seq(Access), newest' \in 0 .. store.n,
           skewed' \in BOOLEAN, unsynced' \in BOOLEAN, untold' \in Int
    PROVE  Typed'
  BY DEF ServedInv, Typed

(* Google's states all map to a status. *)
LEMMA MapType ==
    ASSUME NEW state, NEW kind
    PROVE  mapSubscriptionStateToStatus(state) \in Status /\ mapStatus(state, kind) \in Status
  <1>1. mapSubscriptionStateToStatus(state) \in Status
    BY DEF mapSubscriptionStateToStatus, Status
  <1> QED
    BY <1>1 DEF mapStatus, Status

(* What a worker with a notification may rely on. *)
LEMMA WorkerFacts ==
    ASSUME IInv, ServedInv, NEW w \in Worker
    PROVE  /\ w \in Process /\ Sound(w) /\ Typed
           /\ DOMAIN job = Process /\ JobFields \subseteq DOMAIN job[w]
           /\ job[w].at # "idle" => job[w].msg \in inbox /\ job[w].msg \in Msg
  <1>1. w \in Process /\ Sound(w) /\ Typed
    BY Names DEF ServedInv
  <1>2. job[w].at # "idle" => job[w].msg \in inbox /\ job[w].msg \in Msg
    BY <1>1 DEF Sound, Typed
  <1> QED
    BY <1>1, <1>2 DEF IInv, Shape

\* A handler fetches the state of the store.
LEMMA ServedFetch ==
    ASSUME IInv, ServedInv, NEW w \in Worker, NEW m \in inbox, Fetch(w, m) \/ FindVoided(w, m)
    PROVE  ServedInv'
  <1>0. w \in Process /\ Sound(w) /\ Typed /\ At(w, "idle") /\ m \in Msg
        /\ \A v \in Worker : job[v].msg # m
    BY WorkerFacts DEF Fetch, FindVoided, Typed
  <1>1. CASE Fetch(w, m)
    <2> DEFINE to == mapStatus(store.state, m.kind)
    <2>1. to \in Status
      BY MapType
    <2>2. PICK j : j = [Idle EXCEPT !.at = "fetched", !.msg = m, !.exp = store.exp,
                                    !.n = store.n, !.to = to]
      OBVIOUS
    <2>3. job' = [job EXCEPT ![w] = j]
          /\ UNCHANGED <<clock, store, inbox, row, access, rowLock, syncLock, lost,
                         fails, newest, skewed, unsynced, untold>>
      BY <1>1, <2>2 DEF Fetch
    <2> HIDE DEF to
    <2>4. j.at = "fetched" /\ j.msg = m /\ j.exp = store.exp /\ j.n = store.n /\ j.to = to
      BY <2>2 DEF Idle
    <2>5. Typed' /\ BeforeFirst'
      BY <2>3 DEF ServedInv, Typed, BeforeFirst
    <2>6. job'[w] = j
      BY <1>0, <2>3, Replaced
    <2>7. store.n \in 1 .. store.n /\ store.n >= m.n /\ store.exp \in Time
      BY SMTT(40), <1>0, Numbers DEF Typed, Msg
    <2>8. Sound(w)'
      BY <1>0, <1>1, <2>1, <2>3, <2>4, <2>6, <2>7, Names
         DEF Sound, Carries, At, Past, Places, Fetch
    <2>9. newest <= newest'
      BY <1>0, <2>3, Numbers DEF Typed
    <2>10. job[w].at # "apply"
      BY <1>0 DEF At
    <2> QED
      BY <1>0, <2>3, <2>4, <2>5, <2>8, <2>9, <2>10, WorkerServed
  <1>2. CASE FindVoided(w, m) /\ row # NoRow
    <2>1. PICK j : j = [Idle EXCEPT !.at = "fetched", !.msg = m]
      OBVIOUS
    <2>2. job' = [job EXCEPT ![w] = j]
          /\ UNCHANGED <<clock, store, inbox, row, access, rowLock, syncLock, lost,
                         fails, newest, skewed, unsynced, untold>>
      BY <1>2, <2>1 DEF FindVoided
    <2>3. j.at = "fetched" /\ j.msg = m
      BY <2>1 DEF Idle
    <2>4. Typed' /\ BeforeFirst'
      BY <2>2 DEF ServedInv, Typed, BeforeFirst
    <2>5. job'[w] = j
      BY <1>0, <2>2, Replaced
    <2>6. Sound(w)'
      BY <1>0, <1>2, <2>2, <2>3, <2>5, Names
         DEF Sound, Carries, At, Past, Places, FindVoided
    <2>7. newest <= newest' /\ job[w].at # "apply"
      BY <1>0, <2>2, Numbers DEF Typed, At
    <2> QED
      BY <1>0, <2>2, <2>3, <2>4, <2>6, <2>7, WorkerServed
  <1>3. CASE FindVoided(w, m) /\ row = NoRow
    <2>1. inbox' = inbox \ {m} /\ UNCHANGED <<clock, store, row, access, job, rowLock,
             syncLock, lost, fails, newest, skewed, unsynced, untold>>
      BY <1>3 DEF FindVoided
    <2>2. Typed' /\ BeforeFirst' /\ OneOwner' /\ Announced' /\ Locked'
      BY <2>1 DEF ServedInv, Typed, BeforeFirst, OneOwner, Announced, Owed, Locked, At
    <2>3. ASSUME NEW q \in Process PROVE Sound(q)'
      <3>1. q \in Worker /\ ~At(q, "idle") => job[q].msg \in inbox'
        BY <1>0, <2>1 DEF ServedInv, Sound, At
      <3>2. newest <= newest' /\ store.n <= store'.n
        BY <1>0, <2>1, Numbers DEF Typed
      <3> QED
        BY <2>1, <2>2, <3>1, <3>2, SoundStays
    <2>4. Synced'
      <3>1. \A p \in Process : ~At(p, "apply")
        BY <1>3, Names DEF ServedInv, Sound, At, Past
      <3>2. syncLock = Nobody
        BY <3>1 DEF ServedInv, Locked
      <3>3. access = <<>> /\ row.status = "NONE"
        BY <1>3 DEF ServedInv, BeforeFirst, NoRow
      <3>4. Agrees'
        BY <2>1, <3>3 DEF Agrees, Entitled, AccessGranting
      <3> QED
        BY <2>1, <3>2, <3>4 DEF Synced
    <2> QED
      BY <2>2, <2>3, <2>4 DEF ServedInv
  <1> QED
    BY <1>1, <1>2, <1>3 DEF FindVoided

\* A handler takes its event time, or finds the guard closed.
LEMMA ServedStamp ==
    ASSUME IInv, ServedInv, NEW w \in Worker, Stamp(w) \/ GuardFirst(w)
    PROVE  ServedInv'
  <1>0. /\ w \in Process /\ Sound(w) /\ Typed /\ DOMAIN job = Process
        /\ JobFields \subseteq DOMAIN job[w] /\ job[w].at \in {"fetched", "stamped"}
        /\ job[w].msg \in inbox /\ job[w].msg \in Msg
    BY WorkerFacts DEF Stamp, GuardFirst, At
  <1>1. PICK j : \/ Stamp(w) /\ j = [job[w] EXCEPT !.at = "stamped", !.time = clock]
                 \/ GuardFirst(w) /\ j = [job[w] EXCEPT !.at = "insert"]
    OBVIOUS
  <1>2. job' = [job EXCEPT ![w] = j]
        /\ UNCHANGED <<clock, store, inbox, row, access, rowLock, syncLock, lost,
                       fails, newest, skewed, unsynced, untold>>
    BY <1>0, <1>1 DEF Stamp, GuardFirst, JobFields
  <1>3. /\ j.msg = job[w].msg /\ j.exp = job[w].exp /\ j.n = job[w].n /\ j.to = job[w].to
        /\ j.at \in {"stamped", "insert"} /\ (j.at = "insert" => j.msg.kind # "VOIDED")
    BY <1>0, <1>1 DEF JobFields, GuardFirst
  <1>4. Typed' /\ BeforeFirst'
    BY <1>2 DEF ServedInv, Typed, BeforeFirst
  <1>5. job'[w] = j
    BY <1>0, <1>2, Replaced
  <1>6. Sound(w)'
    <2>1. Carries(w)' => Carries(w)
      BY <1>0, <1>3, <1>5, Names DEF Carries, At
    <2> QED
      BY <1>0, <1>2, <1>3, <1>5, <2>1, Names DEF Sound, At, Past, Places
  <1>7. newest <= newest' /\ job[w].at # "apply" /\ job[w].at # "idle"
    BY SMTT(40), <1>0, <1>2, Numbers DEF Typed
  <1> QED
    BY <1>0, <1>2, <1>3, <1>4, <1>6, <1>7, WorkerServed

(* The three writes of the row by a worker. *)
LEMMA ServedWrites ==
    ASSUME IInv, ServedInv, NEW w \in Worker, NEW j, job' = [job EXCEPT ![w] = j],
           job[w].at \in {"stamped", "insert"}, j.msg = job[w].msg,
           j.at \in {"find", "revoke"}, j.at = "find" => j.exp \in Time, row' \in Row,
           UNCHANGED <<clock, store, inbox, access, rowLock, syncLock, lost, fails,
                       unsynced, untold>>,
           newest' \in 0 .. store.n, newest <= newest', skewed' \in BOOLEAN,
           j.msg.kind # "VOIDED" => newest' >= j.msg.n
    PROVE  ServedInv'
  <1>0. w \in Process /\ Sound(w) /\ Typed /\ job[w].msg \in inbox /\ job[w].msg \in Msg
    BY WorkerFacts
  <1>1. row' # NoRow
    BY Numbers DEF Row, NoRow
  <1>2. Typed' /\ BeforeFirst'
    BY <1>0, <1>1, TypedStays DEF Typed, BeforeFirst
  <1>3. job'[w] = j
    BY <1>0, Replaced
  <1>4. Sound(w)'
    BY <1>0, <1>1, <1>3, Names DEF Sound, Carries, At, Past, Places
  <1> QED
    BY <1>0, <1>1, <1>2, <1>4, WorkerServed

(* Where GoGrant and Go leave a worker. *)
LEMMA GrantFields ==
    ASSUME NEW w \in Process, NEW apply, GoGrant(w, apply)
    PROVE  \E j : /\ job' = [job EXCEPT ![w] = j] /\ j.msg = job[w].msg
                  /\ j.at \in {"find", "revoke"}
                  /\ j.at = "find" => j.exp = job[w].exp
                  /\ j.at = "revoke" => j.exp = Null
                  /\ j.want = Null
  <1>1. CASE apply /\ job[w].to \in AccessGranting
    <2>1. PICK j : j = [Idle EXCEPT !.at = "find", !.msg = job[w].msg, !.exp = job[w].exp]
      OBVIOUS
    <2>2. j.at = "find" /\ j.msg = job[w].msg /\ j.exp = job[w].exp /\ j.want = Null
      BY <2>1 DEF Idle
    <2> QED
      BY <1>1, <2>1, <2>2 DEF GoGrant
  <1>2. CASE ~(apply /\ job[w].to \in AccessGranting)
    <2>1. PICK j : j = [Idle EXCEPT !.at = "revoke", !.msg = job[w].msg]
      OBVIOUS
    <2>2. j.at = "revoke" /\ j.msg = job[w].msg /\ j.exp = Null /\ j.want = Null
      BY <2>1 DEF Idle
    <2> QED
      BY <1>2, <2>1, <2>2 DEF GoGrant, Go
  <1> QED
    BY <1>1, <1>2

\* A process that goes on keeps its message and forgets what it fetched.
LEMMA GoFields ==
    ASSUME NEW p \in Process, NEW where, Go(p, where)
    PROVE  \E j : /\ job' = [job EXCEPT ![p] = j] /\ j.msg = job[p].msg /\ j.at = where
                  /\ j.exp = Null /\ j.want = Null
  <1>1. PICK j : j = [Idle EXCEPT !.at = where, !.msg = job[p].msg]
    OBVIOUS
  <1>2. j.at = where /\ j.msg = job[p].msg /\ j.exp = Null /\ j.want = Null
    BY <1>1 DEF Idle
  <1> QED
    BY <1>1, <1>2 DEF Go

(* What a write of the row makes of a typed row. *)
LEMMA UpdateType ==
    ASSUME Typed, row # NoRow, NEW j, NEW apply \in BOOLEAN, NEW from,
           j.to \in Status, j.exp \in Time, j.time \in 0 .. clock
    PROVE  updateRow(j, apply, from) \in Row /\ updateRow(j, apply, from).exp = j.exp
  <1>1. row \in Row /\ j.time \in Time
    BY Numbers DEF Typed, Time
  <1>2. PICK a \in Status : a = IF apply THEN caseGuarded(row.status, j.to) ELSE row.status
    BY <1>1 DEF caseGuarded, Row
  <1>3. PICK b \in Time : b = IF apply THEN j.time ELSE row.at
    BY <1>1 DEF Row
  <1>4. PICK c \in Time \cup {Null} :
          c = IF apply THEN billingIssueStamp(from, j.to, j.time, row.held) ELSE row.held
    BY <1>1 DEF Row, billingIssueStamp
  <1>5. updateRow(j, apply, from) = [row EXCEPT !.status = a, !.at = b, !.held = c, !.exp = j.exp]
    BY <1>2, <1>3, <1>4 DEF updateRow
  <1> QED
    BY <1>1, <1>5 DEF Row

(* The history Given keeps is typed and monotone. *)
LEMMA GivenType ==
    ASSUME Typed, NEW n \in 1 .. store.n, NEW withheld \in BOOLEAN, Given(n, withheld)
    PROVE  newest' \in 0 .. store.n /\ newest <= newest' /\ n <= newest' /\ skewed' \in BOOLEAN
  <1>1. newest' \in 0 .. store.n /\ newest <= newest' /\ n <= newest'
    BY Numbers DEF Typed, Given
  <1>2. skewed' \in BOOLEAN
    BY DEF Given
  <1> QED
    BY <1>1, <1>2

\* A handler writes the purchase: it owes the sync it goes on to.
LEMMA ServedWorkerWrites ==
    ASSUME IInv, ServedInv, NEW w \in Worker,
           WriteRow(w) \/ WriteVoided(w) \/ upsertPurchase(w)
    PROVE  ServedInv'
  <1>0. /\ w \in Process /\ Sound(w) /\ Typed /\ job[w].at \in {"stamped", "insert"}
        /\ job[w].msg \in inbox /\ job[w].msg \in Msg
    BY WorkerFacts DEF WriteRow, WriteVoided, upsertPurchase, At
  <1>u. UNCHANGED <<clock, store, inbox, access, rowLock, syncLock, lost, fails,
                    unsynced, untold>>
    BY DEF WriteRow, WriteVoided, upsertPurchase
  <1>t. job[w].time \in 0 .. clock
    BY <1>0 DEF IInv, Clocks
  <1>1. ASSUME NEW apply, GoGrant(w, apply), row' \in Row, NEW withheld \in BOOLEAN,
               Given(job[w].n, withheld), job[w].msg.kind # "VOIDED"
        PROVE  ServedInv'
    <2>1. PICK j : /\ job' = [job EXCEPT ![w] = j] /\ j.msg = job[w].msg
                   /\ j.at \in {"find", "revoke"} /\ (j.at = "find" => j.exp = job[w].exp)
      BY <1>0, <1>1, GrantFields
    <2>2. Carries(w)
      BY <1>0, <1>1 DEF Carries
    <2>3. job[w].exp \in Time /\ job[w].n \in 1 .. store.n /\ job[w].n >= job[w].msg.n
      BY <1>0, <2>2 DEF Sound
    <2>4. /\ newest' \in 0 .. store.n /\ newest <= newest' /\ job[w].n <= newest'
          /\ skewed' \in BOOLEAN
      BY <1>0, <1>1, <2>3, GivenType
    <2>5. newest' >= job[w].msg.n
      BY <1>0, <2>3, <2>4, Numbers DEF Typed, Msg
    <2> QED
      BY <1>0, <1>1, <1>u, <2>1, <2>3, <2>4, <2>5, ServedWrites
  <1>2. job[w].msg.kind # "VOIDED" => job[w].to \in Status /\ job[w].exp \in Time
    BY <1>0 DEF Sound, Carries
  <1>3. CASE WriteRow(w)
    <2>1. PICK apply \in BOOLEAN : apply = guardStatusWrite(job[w].to, job[w].time)
      BY DEF guardStatusWrite
    <2>2. PICK withheld \in BOOLEAN : withheld = isStale(job[w].time)
      BY DEF isStale
    <2>3. /\ row' = updateRow(job[w], apply, row.status) /\ GoGrant(w, apply)
          /\ Given(job[w].n, withheld) /\ job[w].msg.kind # "VOIDED" /\ row # NoRow
      BY <1>3, <2>1, <2>2 DEF WriteRow
    <2>4. row' \in Row
      BY <1>0, <1>2, <1>t, <2>3, UpdateType
    <2> QED
      BY <1>1, <2>3, <2>4
  <1>4. CASE upsertPurchase(w)
    <2>1. /\ Given(job[w].n, FALSE) /\ GoGrant(w, TRUE) /\ job[w].msg.kind # "VOIDED"
      BY <1>0, <1>4 DEF upsertPurchase, Sound
    <2>2. CASE row # NoRow
      <3>1. row' = updateRow(job[w], TRUE, "NONE")
        BY <1>4, <2>2 DEF upsertPurchase
      <3>2. row' \in Row
        BY <1>0, <1>2, <1>t, <2>1, <2>2, <3>1, UpdateType
      <3> QED
        BY <1>1, <2>1, <3>2
    <2>3. CASE row = NoRow
      <3>1. PICK h \in Time \cup {Null} :
              h = billingIssueStamp("NONE", job[w].to, job[w].time, Null)
        BY <1>0, <1>t, Numbers DEF billingIssueStamp, Time, Typed
      <3>2. row' = [status |-> job[w].to, exp |-> job[w].exp, at |-> job[w].time,
                    held |-> h, checked |-> Null]
        BY <1>4, <2>3, <3>1 DEF upsertPurchase
      <3>3. job[w].time \in Time
        BY <1>0, <1>t, Numbers DEF Time, Typed
      <3>4. row' \in Row
        BY <1>2, <2>1, <3>1, <3>2, <3>3 DEF Row
      <3> QED
        BY <1>1, <2>1, <3>4
    <2> QED
      BY <2>2, <2>3
  <1>5. CASE WriteVoided(w)
    <2>1. Go(w, "revoke") /\ job[w].msg.kind = "VOIDED" /\ UNCHANGED <<newest, skewed>>
      BY <1>5 DEF WriteVoided
    <2>2. row \in Row
      BY <1>0, <2>1 DEF Sound, Typed
    <2>3. row' \in Row
      <3>0. job[w].time \in Time
        BY SMTT(40), <1>0, <1>t, Numbers DEF Time, Typed
      <3>1. caseGuarded(row.status, "REFUNDED") \in Status
        BY <2>2 DEF caseGuarded, Row, Status
      <3>2. \/ row' = row
            \/ row' = [row EXCEPT !.at = job[w].time,
                                  !.status = caseGuarded(row.status, "REFUNDED")]
        BY <1>5 DEF WriteVoided
      <3> QED
        BY <2>2, <3>0, <3>1, <3>2 DEF Row
    <2>4. PICK j : /\ job' = [job EXCEPT ![w] = j] /\ j.msg = job[w].msg /\ j.at = "revoke"
      BY <1>0, <2>1, GoFields
    <2>5. newest' \in 0 .. store.n /\ newest <= newest' /\ skewed' \in BOOLEAN
      BY <1>0, <2>1, Numbers DEF Typed
    <2> QED
      BY <1>0, <1>u, <2>1, <2>3, <2>4, <2>5, ServedWrites
  <1> QED
    BY <1>3, <1>4, <1>5

(* A function on a sequence's domain is a sequence. *)
LEMMA SeqMap ==
    ASSUME NEW S, NEW s \in Seq(S), NEW T, NEW f, f \in [DOMAIN s -> T]
    PROVE  f \in Seq(T) /\ Len(f) = Len(s)
  <1>1. DOMAIN s = 1 .. Len(s) /\ Len(s) \in Nat
    OBVIOUS
  <1> QED
    BY <1>1

(* The worker's writes of the access rows. *)
LEMMA ServedGrants ==
    ASSUME IInv, ServedInv, NEW w \in Worker,
           FindAccess(w) \/ createAccess(w) \/ revokeAccessByPurchaseId(w)
    PROVE  ServedInv'
  <1>0. /\ w \in Process /\ Sound(w) /\ Typed /\ job[w].at \in {"find", "create", "revoke"}
        /\ job[w].msg \in inbox /\ job[w].msg \in Msg
        /\ DOMAIN job = Process /\ JobFields \subseteq DOMAIN job[w]
    BY WorkerFacts DEF FindAccess, createAccess, revokeAccessByPurchaseId, At
  <1>u. UNCHANGED <<clock, store, inbox, row, rowLock, syncLock, lost, fails, newest,
                    skewed, unsynced, untold>>
    BY DEF FindAccess, createAccess, revokeAccessByPurchaseId
  <1>n. newest <= newest' /\ row # NoRow /\ access \in Seq(Access)
    BY <1>0, <1>u, Numbers DEF Typed, Sound, Past
  <1>1. ASSUME NEW j, job' = [job EXCEPT ![w] = j], j.msg = job[w].msg,
               j.at \in {"create", "sync"}, j.at = "create" => j.exp \in Time,
               access' \in Seq(Access)
        PROVE  ServedInv'
    <2>1. Typed' /\ BeforeFirst'
      BY <1>0, <1>1, <1>u, <1>n, TypedStays DEF Typed, BeforeFirst
    <2>2. job'[w] = j
      BY <1>0, <1>1, Replaced
    <2>3. Sound(w)'
      BY <1>0, <1>1, <1>u, <1>n, <2>2, Names DEF Sound, Carries, At, Past, Places
    <2> QED
      BY <1>0, <1>1, <1>u, <1>n, <2>1, <2>3, WorkerServed
  <1>2. ASSUME Go(w, "sync"), access' \in Seq(Access) PROVE ServedInv'
    BY <1>0, <1>1, <1>2, GoFields
  <1>3. job[w].at \in {"find", "create"} =>
          [active |-> TRUE, exp |-> job[w].exp] \in Access
    BY <1>0 DEF Sound, Access
  <1>4. CASE FindAccess(w)
    <2>1. CASE access = <<>>
      <3>1. PICK j : j = [job[w] EXCEPT !.at = "create"]
        OBVIOUS
      <3>2. job' = [job EXCEPT ![w] = j] /\ access' = access
        BY <1>0, <1>4, <2>1, <3>1 DEF FindAccess
      <3>3. j.msg = job[w].msg /\ j.at = "create" /\ j.exp = job[w].exp
        BY <1>0, <3>1 DEF JobFields
      <3>4. j.exp \in Time
        BY <1>0, <1>4, <3>3 DEF Sound, FindAccess, At
      <3> QED
        BY <1>1, <1>n, <3>2, <3>3, <3>4
    <2>2. CASE access # <<>>
      <3>1. PICK a \in Access : a = [active |-> TRUE, exp |-> job[w].exp]
        BY <1>3, <1>4 DEF FindAccess, At
      <3>2. PICK k \in DOMAIN access : access' = [access EXCEPT ![k] = a]
        BY <1>4, <2>2, <3>1 DEF FindAccess
      <3>3. access' \in Seq(Access)
        BY <1>n, <3>2
      <3> QED
        BY <1>2, <1>4, <2>2, <3>3 DEF FindAccess
    <2> QED
      BY <2>1, <2>2
  <1>5. CASE createAccess(w)
    <2>1. PICK a \in Access : a = [active |-> TRUE, exp |-> job[w].exp]
      BY <1>3, <1>5 DEF createAccess, At
    <2>2. access' = access \o <<a>>
      BY <1>5, <2>1 DEF createAccess
    <2>3. access' \in Seq(Access)
      BY <1>n, <2>2
    <2> QED
      BY <1>2, <1>5, <2>3 DEF createAccess
  <1>6. CASE revokeAccessByPurchaseId(w)
    <2>1. \A k \in DOMAIN access : [access[k] EXCEPT !.active = FALSE] \in Access
      <3>1. ASSUME NEW a \in Access PROVE [a EXCEPT !.active = FALSE] \in Access
        BY DEF Access
      <3>2. \A k \in DOMAIN access : access[k] \in Access
        BY <1>n
      <3> QED
        BY <3>1, <3>2
    <2>2. access' = [k \in DOMAIN access |-> [access[k] EXCEPT !.active = FALSE]]
      BY <1>6 DEF revokeAccessByPurchaseId
    <2>3. access' \in Seq(Access)
      BY <1>n, <2>1, <2>2, SeqMap
    <2> QED
      BY <1>2, <1>6, <2>3 DEF revokeAccessByPurchaseId
  <1> QED
    BY <1>4, <1>5, <1>6

(* The read of a sync: from here on the lock holder knows the row and the  *)
(* access rows as they are, whatever was owed before.                      *)
LEMMA ServedSyncRead ==
    ASSUME IInv, ServedInv, NEW p \in Process, syncRead(p),
           \/ At(p, "sync")
           \/ p = "healer" /\ At(p, "idle") /\ row # NoRow
    PROVE  ServedInv'
  <1>0. /\ Sound(p) /\ Typed /\ Locked /\ BeforeFirst /\ Announced
        /\ DOMAIN job = Process /\ JobFields \subseteq DOMAIN job[p]
    BY DEF ServedInv, IInv, Shape
  <1>1. PICK want : want = computeDesiredAccess
    OBVIOUS
  <1>2. PICK j : j = [job[p] EXCEPT !.at = "apply", !.want = want, !.rows = access]
    OBVIOUS
  <1>3. /\ job' = [job EXCEPT ![p] = j] /\ syncLock = Nobody /\ syncLock' = p
        /\ unsynced' = FALSE
        /\ UNCHANGED <<clock, store, inbox, row, access, rowLock, lost, fails,
                       newest, skewed, untold>>
    BY <1>0, <1>1, <1>2 DEF syncRead, JobFields
  <1>4. /\ j.at = "apply" /\ j.want = want /\ j.rows = access /\ j.msg = job[p].msg
    BY <1>0, <1>2 DEF JobFields
  <1>5. job'[p] = j /\ \A q \in Process \ {p} : job'[q] = job[q]
    BY <1>3, Replaced
  <1>6. row # NoRow /\ row \in Row
    BY <1>0, Names DEF Sound, At, Past, Typed
  <1>7. want \in Time \cup {Null}
    BY <1>1, <1>6 DEF computeDesiredAccess, Row
  <1>8. /\ Entitled => want = row.exp
        /\ row.status \notin AccessGranting => want = Null
    <2>1. PICK x \in Nat : x = row.exp
      BY <1>6, Numbers DEF Row
    <2>2. row.exp > clock => ~(row.exp < clock)
      BY <2>1 DEF IInv, Clocks
    <2> QED
      BY <1>1, <2>2 DEF computeDesiredAccess, Entitled
  <1>9. Typed' /\ BeforeFirst'
    BY <1>0, <1>3 DEF Typed, BeforeFirst
  <1>10. Locked'
    <2>1. \A q \in Process : ~At(q, "apply")
      BY <1>0, <1>3, Numbers DEF Locked
    <2>2. \A q \in Process : At(q, "apply")' <=> q = p
      BY <1>4, <1>5, <2>1 DEF At
    <2>3. p = "recon" => job[p].at # "held"
      BY DEF At
    <2> QED
      BY <1>0, <1>3, <1>5, <2>2, <2>3, Names DEF Locked, At
  <1>11. Announced'
    BY <1>0, <1>3, <1>4, <1>5, Names DEF Announced, Owed, At
  <1>12. Synced'
    BY <1>3, <1>4, <1>5, <1>8, Numbers DEF Synced, Reading, Entitled
  <1>13. p # "healer" => At(p, "sync") /\ job[p].at # "idle"
    BY DEF At
  <1>14. Sound(p)'
    BY <1>0, <1>3, <1>4, <1>5, <1>6, <1>7, <1>13, Names
       DEF Sound, Carries, At, Past, Places
  <1>15. /\ p \in Worker /\ j.at # "idle" =>
              \/ job[p].at # "idle" /\ j.msg = job[p].msg
              \/ j.msg \in Msg /\ \A v \in Worker : job[v].msg # j.msg
         /\ j.at = "idle" => j.msg = NoMsg
    BY <1>4, <1>13, Names
  <1>16. \A w \in Worker \ {p} : ~At(w, "idle") => job[w].msg \in inbox'
    BY <1>3, Names DEF ServedInv, Sound, At
  <1>17. store.n <= store'.n /\ newest <= newest' /\ (row # NoRow => row' # NoRow)
    BY <1>0, <1>3, Numbers DEF Typed
  <1> QED
    BY <1>3, <1>9, <1>10, <1>11, <1>12, <1>14, <1>15, <1>16, <1>17, ServedStep

(* The access rows a sync leaves are access rows. *)
LEMMA ReconciledType ==
    ASSUME access \in Seq(Access), NEW rows, NEW want \in Time \cup {Null}, NEW first
    PROVE  reconciled(rows, want, first) \in Seq(Access)
  <1> DEFINE f == reconciled(rows, want, first)
  <1>1. ASSUME NEW a \in Access, NEW b PROVE [a EXCEPT !.active = a.active /\ b] \in Access
    <2>1. PICK c \in BOOLEAN : c = (a.active /\ b)
      OBVIOUS
    <2>2. [a EXCEPT !.active = c] \in Access
      BY DEF Access
    <2> QED
      BY <2>1, <2>2
  <1>2. want # Null => [active |-> TRUE, exp |-> want] \in Access
    BY DEF Access
  <1>3. \A i \in DOMAIN access : access[i] \in Access
    OBVIOUS
  <1>4. f = [i \in DOMAIN access |-> f[i]] /\ \A i \in DOMAIN access :
          \/ f[i] = access[i]
          \/ f[i] = [access[i] EXCEPT !.active = access[i].active /\ ~rows[i].active]
          \/ want # Null /\ f[i] = [active |-> TRUE, exp |-> want]
    BY DEF reconciled
  <1> HIDE DEF f
  <1>5. \A i \in DOMAIN access : f[i] \in Access
    BY <1>1, <1>2, <1>3, <1>4
  <1>6. f \in [DOMAIN access -> Access]
    BY <1>4, <1>5
  <1>7. f \in Seq(Access)
    BY <1>6, SeqMap
  <1> QED
    BY <1>7 DEF f

(* A sync that read the rows as they are leaves what the row entitles to. *)
LEMMA ReadingAgrees ==
    ASSUME Typed, NEW p \in Process, Reading(p), SyncApply(p)
    PROVE  Agrees'
  <1>1. /\ UNCHANGED <<clock, row>> /\ access \in Seq(Access) /\ job[p].rows = access
    BY DEF SyncApply, Typed, Reading
  <1>2. ASSUME Entitled
        PROVE  \E i \in DOMAIN access' : access'[i].active = TRUE /\ access'[i].exp = row.exp
    <2>1. job[p].want = row.exp /\ row.exp # Null
      <3>1. row.exp \in Time
        <4>1. row.status # "NONE"
          BY <1>2 DEF Entitled, AccessGranting
        <4>2. row \in Row
          BY <4>1 DEF Typed, NoRow
        <4> QED
          BY <4>2 DEF Row
      <3> QED
        BY <1>2, <3>1, Numbers DEF Reading
    <2>2. CASE access = <<>>
      <3>1. access' = <<>> \o <<[active |-> TRUE, exp |-> row.exp]>>
        BY <1>1, <2>1, <2>2 DEF SyncApply
      <3>2. 1 \in DOMAIN access' /\ access'[1] = [active |-> TRUE, exp |-> row.exp]
        BY <3>1
      <3> QED
        BY <3>2
    <2>3. CASE access # <<>>
      <3>1. PICK first \in 1 .. Len(access) : access' = reconciled(access, row.exp, first)
        BY <1>1, <2>1, <2>3 DEF SyncApply
      <3>2. first \in DOMAIN access
        BY <1>1
      <3>3. first \in DOMAIN access' /\
              \/ access'[first] = [active |-> TRUE, exp |-> row.exp]
              \/ access[first].active /\ access[first].exp = row.exp /\ access'[first] = access[first]
        BY <2>1, <3>1, <3>2 DEF reconciled
      <3>4. PICK a \in Access : a = access[first]
        BY <1>1, <3>2
      <3>5. a.active => a.active = TRUE
        BY DEF Access
      <3> QED
        BY <3>3, <3>4, <3>5
    <2> QED
      BY <2>2, <2>3
  <1>3. ASSUME row.status \notin AccessGranting
        PROVE  \A i \in DOMAIN access' : access'[i].active = FALSE
    <2>1. PICK first : access' = reconciled(access, Null, first)
      BY <1>1, <1>3 DEF SyncApply, Reading
    <2>2. DOMAIN access' = DOMAIN access /\ \A i \in DOMAIN access :
            access'[i] = [access[i] EXCEPT !.active = access[i].active /\ ~access[i].active]
      BY <2>1 DEF reconciled
    <2>3. \A i \in DOMAIN access : access[i] \in Access
      BY <1>1
    <2>4. ASSUME NEW a \in Access, NEW b, b = [a EXCEPT !.active = a.active /\ ~a.active]
          PROVE  b.active = FALSE
      BY <2>4 DEF Access
    <2> SUFFICES ASSUME NEW i \in DOMAIN access PROVE access'[i].active = FALSE
      BY <2>2
    <2>5. PICK a \in Access : a = access[i]
      BY <2>3
    <2>6. access'[i] = [a EXCEPT !.active = a.active /\ ~a.active]
      BY <2>2, <2>5
    <2> QED
      BY <2>4, <2>6
  <1> QED
    BY <1>1, <1>2, <1>3 DEF Agrees, Entitled

(* A notification nobody else works on stays in the inbox. *)
LEMMA OthersKeep ==
    ASSUME ServedInv, NEW p \in Process, inbox' = inbox \/ inbox' = inbox \ {job[p].msg},
           p \in Worker \/ inbox' = inbox
    PROVE  \A w \in Worker \ {p} : ~At(w, "idle") => job[w].msg \in inbox'
  BY Names DEF ServedInv, Sound, At, OneOwner

(* Nothing that still has to be read is forgotten by a process that leaves *)
(* its sync, or by one that was not about to read.                         *)
LEMMA PendingStays ==
    ASSUME IInv, ServedInv, NEW p \in Process, NEW j, job' = [job EXCEPT ![p] = j], Pending,
           \/ inbox' = inbox
           \/ p \in Worker /\ At(p, "apply") /\ inbox' = inbox \ {job[p].msg},
           unsynced => unsynced', j.at # "apply", ~At(p, "sync")
    PROVE  Pending'
  <1>1. job'[p] = j /\ \A q \in Process \ {p} : job'[q] = job[q]
    BY Replaced
  <1>2. CASE unsynced
    BY <1>2 DEF Pending
  <1>3. CASE At("sweeper", "sync") \/ At("recon", "sync")
    BY <1>1, <1>3, Names DEF Pending, At
  <1>4. ASSUME NEW m \in inbox, \A w \in Worker : At(w, "apply") => job[w].msg # m
        PROVE  Pending'
    <2>1. m \in inbox'
      BY <1>4
    <2>2. \A w \in Worker : At(w, "apply")' => job'[w].msg # m
      BY <1>1, <1>4, Names DEF At
    <2> QED
      BY <2>1, <2>2 DEF Pending
  <1> QED
    BY <1>2, <1>3, <1>4 DEF Pending

(* The synced rows stay so under a step outside any sync that leaves the   *)
(* row's status and expiry alone.                                          *)
LEMMA SyncedStays ==
    ASSUME IInv, ServedInv, NEW p \in Process, NEW j, job' = [job EXCEPT ![p] = j],
           UNCHANGED <<clock, inbox, access, syncLock, unsynced>>,
           row'.status = row.status, row'.exp = row.exp,
           j.at # "apply", ~At(p, "apply"), ~At(p, "sync")
    PROVE  Synced'
  <1>1. Pending => Pending'
    BY PendingStays
  <1>2. syncLock # p /\ (syncLock # Nobody => syncLock \in Process)
    BY DEF ServedInv, Locked
  <1>3. syncLock # Nobody => job'[syncLock] = job[syncLock]
    BY <1>2, Replaced
  <1>4. Synced
    BY DEF ServedInv
  <1> QED
    BY <1>1, <1>3, <1>4 DEF Synced, Agrees, Reading, Entitled

(* The commit of a sync: its writes, the end of the lock, and what its     *)
(* process does next.                                                      *)
LEMMA ServedSyncApply ==
    ASSUME IInv, ServedInv, NEW p \in Process, SyncApply(p)
    PROVE  ServedInv'
  <1>0. /\ Sound(p) /\ Typed /\ Locked /\ BeforeFirst /\ Announced /\ job[p].at = "apply"
        /\ syncLock = p /\ row # NoRow /\ (p \in Worker => job[p].msg \in inbox)
    BY DEF ServedInv, SyncApply, At, Sound, Past, Locked
  <1>1. /\ syncLock' = Nobody /\ AfterSync(p)
        /\ UNCHANGED <<clock, store, row, rowLock, lost, newest, skewed, unsynced, untold>>
    BY DEF SyncApply
  <1>2. PICK j : /\ job' = [job EXCEPT ![p] = j]
                 /\ j.at = IF p = "sweeper" THEN "tell" ELSE "idle"
                 /\ j.msg = NoMsg
    <2>1. Idle.at = "idle" /\ Idle.msg = NoMsg
      BY DEF Idle
    <2>2. CASE p = "sweeper"
      <3>1. Go(p, "tell") /\ job[p].msg = NoMsg
        BY <1>0, <1>1, <2>2, Names DEF AfterSync, Sound
      <3> QED
        BY <2>2, <3>1, GoFields
    <2>3. CASE p # "sweeper"
      <3>1. Stop(p)
        BY <1>1, <2>3 DEF AfterSync
      <3> QED
        BY <2>1, <2>3, <3>1 DEF Stop
    <2> QED
      BY <2>2, <2>3
  <1>3. /\ inbox' = inbox \/ (p \in Worker /\ inbox' = inbox \ {job[p].msg})
        /\ fails' = fails \/ (fails < MaxFail /\ fails' = fails + 1)
    BY <1>1, Names DEF AfterSync
  <1>4. access' \in Seq(Access)
    <2>1. job[p].want \in Time \cup {Null} /\ access \in Seq(Access)
      BY <1>0 DEF Sound, At, Typed
    <2>2. CASE job[p].want # Null /\ job[p].rows = <<>>
      <3>1. PICK a \in Access : a = [active |-> TRUE, exp |-> job[p].want]
        BY <2>1, <2>2 DEF Access
      <3>2. access' = access \o <<a>>
        BY <2>2, <3>1 DEF SyncApply
      <3> QED
        BY <2>1, <3>2
    <2>3. CASE ~(job[p].want # Null /\ job[p].rows = <<>>)
      <3>1. PICK first : access' = reconciled(job[p].rows, job[p].want, first)
        BY <2>3 DEF SyncApply
      <3> QED
        BY <2>1, <3>1, ReconciledType
    <2> QED
      BY <2>2, <2>3
  <1>5. Typed'
    <2>1. inbox' \subseteq inbox /\ fails' \in 0 .. MaxFail
      BY <1>0, <1>3, Numbers DEF Typed
    <2> QED
      BY <1>0, <1>1, <1>4, <2>1 DEF Typed
  <1>6. job'[p] = j /\ \A q \in Process \ {p} : job'[q] = job[q]
    BY <1>2, Replaced
  <1>7. Locked'
    <2>1. \A q \in Process : ~At(q, "apply")'
      BY <1>0, <1>2, <1>6 DEF Locked, At
    <2> QED
      BY <1>0, <1>1, <1>2, <1>6, <2>1, Names, Numbers DEF Locked, At
  <1>8. BeforeFirst'
    BY <1>0, <1>1 DEF BeforeFirst
  <1>9. Announced'
    <2>1. Owed' = Owed
      BY <1>0, <1>2, <1>6, Names DEF Owed
    <2>2. fails' = 0 => fails = 0
      BY <1>0, <1>3, Numbers DEF Typed
    <2> QED
      BY <1>0, <1>1, <2>1, <2>2 DEF Announced
  <1>10. Synced'
    <2>1. Pending => Pending'
      BY <1>0, <1>1, <1>2, <1>3, PendingStays DEF At
    <2>2. ~Pending => Agrees'
      BY <1>0, ReadingAgrees, Numbers DEF ServedInv, Synced
    <2> QED
      BY <1>1, <2>1, <2>2 DEF Synced
  <1>11. Sound(p)'
    BY <1>0, <1>1, <1>2, <1>6, Names DEF Sound, Carries, At, Past, Places, NoMsg
  <1>12. \A w \in Worker \ {p} : ~At(w, "idle") => job[w].msg \in inbox'
    BY <1>3, OthersKeep
  <1>13. store.n <= store'.n /\ newest <= newest' /\ (row # NoRow => row' # NoRow)
    BY <1>0, <1>1, Numbers DEF Typed
  <1>14. p \in Worker => j.at = "idle"
    BY <1>2, Names
  <1> QED
    BY <1>2, <1>5, <1>7, <1>8, <1>9, <1>10, <1>11, <1>12, <1>13, <1>14, ServedStep

(* A step of one of the sweeps: it has no notification in hand. *)
LEMMA SweepServed ==
    ASSUME IInv, ServedInv, NEW p \in {"sweeper", "recon"}, NEW j, job' = [job EXCEPT ![p] = j],
           j.msg = NoMsg, Typed', UNCHANGED <<store, inbox>>, newest <= newest',
           row # NoRow => row' # NoRow, j.at \in Places(p), j.at # "idle" => row' # NoRow,
           p = "sweeper" /\ j.at = "expire" => j.from # "EXPIRED",
           j.at # "apply",
           Carries(p)' => j.to \in Status /\ j.exp \in Time /\ j.n \in 1 .. store.n,
           Locked', BeforeFirst', Announced', Synced'
    PROVE  ServedInv'
  <1>0. p \in Process /\ p \notin Worker /\ Typed
    BY Names DEF ServedInv
  <1>1. job'[p] = j
    BY <1>0, Replaced
  <1>2. Carries(p)' => j.n >= j.msg.n
    BY SMTT(40), <1>0, Numbers DEF NoMsg, Typed
  <1>3. Sound(p)'
    BY <1>0, <1>1, <1>2 DEF Sound, At, Places
  <1>4. \A w \in Worker \ {p} : ~At(w, "idle") => job[w].msg \in inbox'
    BY <1>0, OthersKeep
  <1>5. store.n <= store'.n
    BY <1>0, Numbers DEF Typed
  <1> QED
    BY <1>0, <1>3, <1>4, <1>5, ServedStep

(* A sweep that logs a failed sync leaves a sync owed. *)
LEMMA ServedSyncFail ==
    ASSUME IInv, ServedInv, NEW p \in Process, SyncFail(p)
    PROVE  ServedInv'
  <1>0. /\ p \in {"sweeper", "recon"} /\ Sound(p) /\ Typed /\ BeforeFirst /\ Announced
        /\ job[p].at = "sync" /\ row # NoRow /\ job[p].msg = NoMsg
    BY Names DEF ServedInv, SyncFail, At, Sound
  <1>1. /\ fails < MaxFail /\ fails' = fails + 1 /\ unsynced' = TRUE
        /\ UNCHANGED <<clock, store, inbox, row, access, rowLock, syncLock, lost,
                       newest, skewed, untold>>
    BY DEF SyncFail
  <1>2. PICK j : /\ job' = [job EXCEPT ![p] = j] /\ j.msg = NoMsg
                 /\ j.at = IF p = "sweeper" THEN "tell" ELSE "idle"
    <2>1. Idle.at = "idle" /\ Idle.msg = NoMsg
      BY DEF Idle
    <2> QED
      BY <1>0, <2>1, GoFields DEF SyncFail, Stop
  <1>3. job'[p] = j /\ \A q \in Process \ {p} : job'[q] = job[q]
    BY <1>2, Replaced
  <1>4. Typed' /\ fails' # 0
    <2>1. fails' \in 0 .. MaxFail /\ fails' # 0
      BY <1>0, <1>1, Numbers DEF Typed
    <2> QED
      BY <1>0, <1>1, <2>1 DEF Typed
  <1>5. Locked'
    BY <1>0, <1>1, <1>2, LockedStays
  <1>6. BeforeFirst' /\ Synced'
    BY <1>0, <1>1 DEF BeforeFirst, Synced, Pending
  <1>7. Announced'
    <2>1. Owed' = Owed
      BY <1>0, <1>2, <1>3, Names DEF Owed
    <2> QED
      BY <1>0, <1>1, <1>4, <2>1 DEF Announced
  <1>8. newest <= newest' /\ j.at \in Places(p) /\ ~Carries(p)'
    BY <1>0, <1>1, <1>2, <1>3, Names, Numbers DEF Typed, Places, Carries, At
  <1>9. /\ j.at # "idle" => row' # NoRow
        /\ row # NoRow => row' # NoRow
        /\ j.at # "apply" /\ j.at # "expire"
    BY <1>0, <1>1, <1>2
  <1> QED
    BY <1>0, <1>1, <1>2, <1>4, <1>5, <1>6, <1>7, <1>8, <1>9, SweepServed

(* The sweeper: the compare-and-swap makes a lapse owed, Tell pays it. *)
LEMMA ServedSweep ==
    ASSUME IInv, ServedInv, SweepStep
    PROVE  ServedInv'
  <1>0. /\ "sweeper" \in Process /\ "sweeper" \notin Worker /\ Sound("sweeper") /\ Typed
        /\ BeforeFirst /\ Announced /\ job["sweeper"].msg = NoMsg
    BY Names DEF ServedInv, Sound
  <1>u. UNCHANGED <<clock, store, inbox, access, rowLock, syncLock, lost, fails,
                    newest, unsynced>>
    BY DEF SweepStep, SweepRead, updatePurchaseStatusIf, Tell
  <1>n. newest <= newest' /\ untold \in Int
    BY <1>0, <1>u, Numbers DEF Typed
  <1>i. Idle.at = "idle" /\ Idle.msg = NoMsg
    BY DEF Idle
  <1>1. ASSUME NEW j, job' = [job EXCEPT !["sweeper"] = j], j.msg = NoMsg,
               job["sweeper"].at \in {"idle", "expire", "tell"},
               j.at \in {"idle", "expire", "sync"},
               j.at = "expire" => j.from # "EXPIRED", j.at # "idle" => row' # NoRow,
               row' \in Row \cup {NoRow}, row # NoRow => row' # NoRow,
               row = NoRow => row' = NoRow,
               skewed' \in BOOLEAN, untold' \in Int,
               untold' - untold = (IF j.at = "sync" THEN 1 ELSE 0) - Owed,
               j.at = "sync" \/ UNCHANGED row
        PROVE  ServedInv'
    <2>1. job'["sweeper"] = j
      BY <1>0, <1>1, Replaced
    <2>2. Typed' /\ BeforeFirst'
      BY <1>0, <1>1, <1>u, TypedStays DEF Typed, BeforeFirst
    <2>3. Locked'
      BY <1>0, <1>1, <1>u, LockedStays
    <2>4. Announced'
      <3>1. Owed' = IF j.at = "sync" THEN 1 ELSE 0
        BY <1>1, <2>1 DEF Owed
      <3>2. Owed \in Int /\ Owed' \in Int
        BY <3>1 DEF Owed
      <3>3. untold' - untold = Owed' - Owed
        BY <1>1, <3>1
      <3> QED
        BY <1>0, <1>1, <1>u, <1>n, <3>2, <3>3 DEF Announced
    <2>5. Synced'
      <3>1. CASE j.at = "sync"
        BY <2>1, <3>1 DEF Synced, Pending, At
      <3>2. CASE j.at # "sync"
        BY <1>0, <1>1, <1>u, <3>2, SyncedStays DEF At
      <3> QED
        BY <3>1, <3>2
    <2>6. j.at \in Places("sweeper") /\ ~Carries("sweeper")' /\ j.at # "apply"
      BY <1>0, <1>1, <2>1 DEF Places, Carries, At
    <2> QED
      BY <1>0, <1>1, <1>u, <1>n, <2>2, <2>3, <2>4, <2>5, <2>6, SweepServed
  <1>2. CASE SweepRead
    <2>1. PICK j : j = [Idle EXCEPT !.at = "expire", !.from = row.status]
      OBVIOUS
    <2>2. j.at = "expire" /\ j.from = row.status /\ j.msg = NoMsg
      BY <2>1 DEF Idle
    <2>3. job' = [job EXCEPT !["sweeper"] = j] /\ UNCHANGED <<row, skewed, untold>>
          /\ job["sweeper"].at = "idle"
      BY <1>2, <2>1 DEF SweepRead, At
    <2>4. row.status # "EXPIRED" /\ row # NoRow
      BY <1>2 DEF SweepRead, Overdue, Aged, Sweepable, NoRow
    <2>5. untold' - untold = (IF j.at = "sync" THEN 1 ELSE 0) - Owed /\ untold' \in Int
      <3>1. Owed = 0 /\ untold' = untold /\ j.at # "sync"
        BY <2>2, <2>3 DEF Owed
      <3> QED
        BY <1>n, <3>1
    <2>6. /\ row' \in Row \cup {NoRow} /\ skewed' \in BOOLEAN
          /\ row # NoRow => row' # NoRow
          /\ row = NoRow => row' = NoRow
          /\ j.at # "idle" => row' # NoRow
          /\ j.at = "expire" => j.from # "EXPIRED"
      BY <1>0, <2>2, <2>3, <2>4 DEF Typed
    <2> QED
      BY <1>1, <2>2, <2>3, <2>5, <2>6
  <1>3. CASE updatePurchaseStatusIf /\ swapMatches(job["sweeper"].from)
    <2>1. /\ job["sweeper"].at = "expire" /\ Go("sweeper", "sync")
          /\ row' = [row EXCEPT !.status = "EXPIRED"]
          /\ untold' = untold + (IF row.status = "EXPIRED" THEN 0 ELSE 1)
          /\ skewed' = (skewed \/ row.exp > clock)
      BY <1>3 DEF updatePurchaseStatusIf, At
    <2>2. row.status # "EXPIRED" /\ row # NoRow
      BY <1>0, <1>3, <2>1 DEF swapMatches, Sound, At
    <2>3. row' \in Row
      BY <1>0, <2>1, <2>2 DEF Typed, Row, Status
    <2>4. row' # NoRow
      BY <2>3, Numbers DEF Row, NoRow
    <2>5. Owed = 0 /\ untold' \in Int /\ untold' - untold = 1
      BY <1>n, <2>1, <2>2 DEF Owed
    <2>6. skewed' \in BOOLEAN
      BY <2>1
    <2>7. PICK j : /\ job' = [job EXCEPT !["sweeper"] = j] /\ j.msg = NoMsg /\ j.at = "sync"
      BY <1>0, <2>1, GoFields
    <2>8. untold' - untold = (IF j.at = "sync" THEN 1 ELSE 0) - Owed
      BY <2>5, <2>7
    <2> QED
      BY <1>1, <2>1, <2>2, <2>3, <2>4, <2>5, <2>6, <2>7, <2>8
  <1>4. CASE Tell \/ (updatePurchaseStatusIf /\ ~swapMatches(job["sweeper"].from))
    <2>1. /\ job' = [job EXCEPT !["sweeper"] = Idle] /\ UNCHANGED <<row, skewed>>
          /\ \/ job["sweeper"].at = "tell" /\ untold' = untold - 1
             \/ job["sweeper"].at = "expire" /\ untold' = untold
      BY <1>4 DEF Tell, updatePurchaseStatusIf, Stop, At
    <2>2. untold' \in Int /\ untold' - untold = 0 - Owed
      BY <1>n, <2>1 DEF Owed
    <2> QED
      BY <1>0, <1>1, <1>i, <2>1, <2>2 DEF Typed
  <1> QED
    BY <1>2, <1>3, <1>4 DEF SweepStep

(* The reconciliation sweep: it claims, and writes or lets go. *)
LEMMA ServedRecon ==
    ASSUME IInv, ServedInv, ReconStep
    PROVE  ServedInv'
  <1>0. /\ "recon" \in Process /\ "recon" \notin Worker /\ "recon" # "sweeper"
        /\ Sound("recon") /\ Typed /\ Locked
        /\ BeforeFirst /\ Announced /\ job["recon"].msg = NoMsg
    BY Names DEF ServedInv, Sound
  <1>u. UNCHANGED <<clock, store, inbox, access, syncLock, lost, fails, unsynced, untold>>
    BY DEF ReconStep, ReconClaim, ReconError, ReconWrite
  <1>i. Idle.at = "idle" /\ Idle.msg = NoMsg
    BY DEF Idle
  <1>1. ASSUME NEW j, job' = [job EXCEPT !["recon"] = j], j.msg = NoMsg,
               \/ job["recon"].at = "idle" /\ j.at = "held" /\ rowLock' = "recon"
               \/ job["recon"].at = "held" /\ j.at \in {"idle", "sync"} /\ rowLock' = Nobody,
               j.at = "held" => j.to \in Status /\ j.exp \in Time /\ j.n \in 1 .. store.n,
               row' \in Row, row # NoRow,
               newest <= newest', newest' \in 0 .. store.n, skewed' \in BOOLEAN,
               j.at = "sync" \/ (row'.status = row.status /\ row'.exp = row.exp)
        PROVE  ServedInv'
    <2>1. job'["recon"] = j /\ \A q \in Process \ {"recon"} : job'[q] = job[q]
      BY <1>0, <1>1, Replaced
    <2>2. row' # NoRow
      BY <1>1, Numbers DEF Row, NoRow
    <2>3. Typed' /\ BeforeFirst'
      BY <1>0, <1>1, <1>u, <2>2, TypedStays DEF Typed, BeforeFirst
    <2>4. Locked'
      <3>1. \A q \in Process : At(q, "apply")' <=> At(q, "apply")
        BY <1>1, <2>1 DEF At
      <3>2. rowLock' \in {Nobody, "recon"} /\ (rowLock' = "recon" => At("recon", "held")')
        BY <1>0, <1>1, <2>1, Numbers DEF At
      <3> QED
        BY <1>0, <1>u, <3>1, <3>2 DEF Locked
    <2>5. Announced'
      BY <1>0, <1>u, <2>1, Names DEF Announced, Owed
    <2>6. Synced'
      <3>1. CASE j.at = "sync"
        BY <2>1, <3>1 DEF Synced, Pending, At
      <3>2. CASE j.at # "sync"
        BY <1>0, <1>1, <1>u, <3>2, SyncedStays DEF At
      <3> QED
        BY <3>1, <3>2
    <2>7. /\ j.at \in Places("recon") /\ (Carries("recon")' => j.at = "held")
          /\ j.at # "apply"
      BY <1>0, <1>1, <2>1 DEF Places, Carries, At
    <2> QED
      BY <1>0, <1>1, <1>u, <2>2, <2>3, <2>4, <2>5, <2>6, <2>7, SweepServed
  <1>2. CASE ReconClaim
    <2>1. PICK now \in 0 .. clock :
            /\ Eligible(now)
            /\ job' = [job EXCEPT !["recon"] = [Idle EXCEPT
                      !.at = "held", !.time = now, !.from = row.status,
                      !.to = mapSubscriptionStateToStatus(store.state),
                      !.exp = store.exp, !.n = store.n]]
      BY <1>2 DEF ReconClaim
    <2>2. PICK to \in Status : to = mapSubscriptionStateToStatus(store.state)
      BY MapType
    <2>3. PICK j : j = [Idle EXCEPT
                      !.at = "held", !.time = now, !.from = row.status,
                      !.to = to, !.exp = store.exp, !.n = store.n]
      OBVIOUS
    <2>4. j.at = "held" /\ j.to = to /\ j.exp = store.exp /\ j.n = store.n /\ j.msg = NoMsg
      BY <2>3 DEF Idle
    <2>5. /\ job' = [job EXCEPT !["recon"] = j] /\ job["recon"].at = "idle"
          /\ rowLock' = "recon" /\ UNCHANGED <<row, newest, skewed>>
      BY <1>2, <2>1, <2>2, <2>3 DEF ReconClaim, At
    <2>6. row # NoRow /\ row \in Row
      BY <1>0, <2>1 DEF Eligible, Reconcilable, Sweepable, NoRow, Typed
    <2>7. j.to \in Status /\ j.exp \in Time /\ j.n \in 1 .. store.n
      BY <1>0, <2>2, <2>4, Numbers DEF Typed
    <2>8. newest <= newest' /\ newest' \in 0 .. store.n /\ skewed' \in BOOLEAN
      BY <1>0, <2>5, Numbers DEF Typed
    <2> QED
      BY <1>1, <2>4, <2>5, <2>6, <2>7, <2>8
  <1>3. CASE ReconError
    <2>1. /\ job' = [job EXCEPT !["recon"] = Idle] /\ job["recon"].at = "held"
          /\ rowLock' = Nobody /\ UNCHANGED <<row, newest, skewed>>
      BY <1>3 DEF ReconError, At, Stop
    <2>2. row # NoRow /\ row \in Row
      BY <1>0, <2>1 DEF Sound, Typed
    <2>3. newest <= newest' /\ newest' \in 0 .. store.n /\ skewed' \in BOOLEAN
      BY <1>0, <2>1, Numbers DEF Typed
    <2> QED
      BY <1>1, <1>i, <2>1, <2>2, <2>3
  <1>4. CASE ReconWrite
    <2>1. /\ job["recon"].at = "held" /\ rowLock' = Nobody
      BY <1>4 DEF ReconWrite, At
    <2>2. row # NoRow /\ row \in Row
      BY <1>0, <2>1 DEF Sound, Typed
    <2>3. /\ job["recon"].to \in Status /\ job["recon"].exp \in Time
          /\ job["recon"].n \in 1 .. store.n
      BY <1>0, <2>1 DEF Sound, Carries, At
    <2>4. job["recon"].time \in 0 .. clock /\ job["recon"].time \in Time
      <3>1. job["recon"].time \in 0 .. clock
        BY <1>0, <2>1 DEF IInv, Clocks
      <3> QED
        BY <1>0, <3>1, Numbers DEF Typed, Time
    <2>5. PICK apply \in BOOLEAN : apply = (job["recon"].to # job["recon"].from
                                  /\ guardStatusWrite(job["recon"].to, job["recon"].time))
      OBVIOUS
    <2>6. CASE apply
      <3>1. PICK r : r = updateRow(job["recon"], TRUE, job["recon"].from)
        OBVIOUS
      <3>2. r \in Row
        BY <1>0, <2>2, <2>3, <2>4, <3>1, UpdateType
      <3>3. /\ row' = [r EXCEPT !.checked = job["recon"].time]
            /\ Given(job["recon"].n, FALSE) /\ Go("recon", "sync")
        BY <1>4, <2>5, <2>6, <3>1 DEF ReconWrite
      <3>4. row' \in Row
        BY <2>4, <3>2, <3>3 DEF Row
      <3>5. newest' \in 0 .. store.n /\ newest <= newest' /\ skewed' \in BOOLEAN
        BY <1>0, <2>3, <3>3, GivenType
      <3>6. PICK j : job' = [job EXCEPT !["recon"] = j] /\ j.msg = NoMsg /\ j.at = "sync"
        BY <1>0, <3>3, GoFields
      <3> QED
        BY <1>1, <2>1, <2>2, <3>4, <3>5, <3>6
    <2>7. CASE ~apply
      <3>1. /\ row' = [row EXCEPT !.checked = job["recon"].time]
            /\ job' = [job EXCEPT !["recon"] = Idle] /\ UNCHANGED <<newest, skewed>>
        BY <1>4, <2>5, <2>7 DEF ReconWrite, Stop
      <3>2. row' \in Row /\ row'.status = row.status /\ row'.exp = row.exp
        BY <2>2, <2>4, <3>1 DEF Row
      <3>3. newest <= newest' /\ newest' \in 0 .. store.n /\ skewed' \in BOOLEAN
        BY <1>0, <3>1, Numbers DEF Typed
      <3> QED
        BY <1>1, <1>i, <2>1, <2>2, <3>1, <3>2, <3>3
    <2> QED
      BY <2>6, <2>7
  <1> QED
    BY <1>2, <1>3, <1>4 DEF ReconStep

(* A crash: a worker's notification is delivered again, a sweep's lost     *)
(* sync is recorded as owed, and the other processes see nothing of it.    *)
LEMMA ServedCrash ==
    ASSUME IInv, ServedInv, NEW p \in Process, Crash(p)
    PROVE  ServedInv'
  <1>0. /\ Sound(p) /\ Typed /\ Locked /\ BeforeFirst /\ Announced /\ OneOwner
        /\ job[p].at # "idle" /\ (p \in Worker => job[p].msg \in inbox)
    BY DEF ServedInv, Crash, At, Sound
  <1>1. /\ fails < MaxFail /\ fails' = fails + 1 /\ job' = [job EXCEPT ![p] = Idle]
        /\ rowLock' = IF rowLock = p THEN Nobody ELSE rowLock
        /\ syncLock' = IF syncLock = p THEN Nobody ELSE syncLock
        /\ unsynced' = (unsynced \/ (p \notin Worker /\ job[p].at \in {"sync", "apply"}))
        /\ UNCHANGED <<clock, store, inbox, row, access, lost, newest, skewed, untold>>
    BY DEF Crash, Stop
  <1>i. Idle.at = "idle" /\ Idle.msg = NoMsg
    BY DEF Idle
  <1>2. job'[p] = Idle /\ \A q \in Process \ {p} : job'[q] = job[q]
    BY <1>1, Replaced
  <1>3. Typed' /\ fails' # 0
    <2>1. fails' \in 0 .. MaxFail /\ fails' # 0
      BY <1>0, <1>1, Numbers DEF Typed
    <2>2. unsynced' \in BOOLEAN
      BY <1>1
    <2> QED
      BY <1>0, <1>1, <2>1, <2>2 DEF Typed
  <1>4. Locked'
    <2>1. \A q \in Process : At(q, "apply")' <=> syncLock' = q
      BY <1>0, <1>1, <1>2, <1>i, Numbers DEF Locked, At
    <2>2. rowLock' \in {Nobody, "recon"} /\ (rowLock' = "recon" => At("recon", "held")')
      BY <1>0, <1>1, <1>2, Names, Numbers DEF Locked, At
    <2>3. syncLock' \in Process \cup {Nobody}
      BY <1>0, <1>1 DEF Locked
    <2> QED
      BY <2>1, <2>2, <2>3 DEF Locked
  <1>5. BeforeFirst'
    BY <1>0, <1>1 DEF BeforeFirst
  <1>6. Announced'
    <2>1. Owed' \in {0, Owed} /\ Owed \in {0, 1}
      BY <1>2, <1>i, Names DEF Owed
    <2>2. untold' = untold /\ untold \in Int /\ untold >= Owed
      BY <1>0, <1>1 DEF Announced, Typed
    <2> QED
      BY <1>3, <2>1, <2>2 DEF Announced
  <1>7. Synced'
    <2>1. CASE p \in Worker
      <3>1. \A v \in Worker : At(v, "apply")' => job'[v].msg # job[p].msg
        BY <1>0, <1>2, <1>i, <2>1, Names DEF OneOwner, At
      <3>2. Pending'
        BY <1>0, <1>1, <2>1, <3>1 DEF Pending
      <3> QED
        BY <3>2 DEF Synced
    <2>2. CASE p \notin Worker /\ job[p].at \in {"sync", "apply"}
      BY <1>1, <2>2 DEF Synced, Pending
    <2>3. CASE p \notin Worker /\ job[p].at \notin {"sync", "apply"}
      <3>1. syncLock' = syncLock /\ unsynced' = unsynced
        BY <1>0, <1>1, <2>3 DEF Locked, At, Typed
      <3> QED
        BY <1>1, <1>i, <2>3, <3>1, SyncedStays DEF At
    <2> QED
      BY <2>1, <2>2, <2>3
  <1>8. Sound(p)'
    BY <1>2, <1>i, Names DEF Sound, Carries, At, Past, Places, NoMsg
  <1>9. \A w \in Worker \ {p} : ~At(w, "idle") => job[w].msg \in inbox'
    BY <1>1, OthersKeep
  <1>10. store.n <= store'.n /\ newest <= newest' /\ (row # NoRow => row' # NoRow)
    BY <1>0, <1>1, Numbers DEF Typed
  <1> QED
    BY <1>1, <1>i, <1>3, <1>4, <1>5, <1>6, <1>7, <1>8, <1>9, <1>10, ServedStep

(* What a change at Google does. *)
LEMMA StoreMoves ==
    ASSUME ServedInv, StoreStep
    PROVE  \E state \in StoreState, exp \in Time, kind \in {"STATE", "REVOKED", "VOIDED"} :
             StoreMove(state, exp, kind)
  <1>0. /\ store.state \in StoreState /\ store.exp \in Time
        /\ clock \in Time /\ clock + Period \in Time
    BY Numbers DEF ServedInv, Typed, Time
  <1>1. CASE Charge
    BY <1>0, <1>1 DEF Charge, StoreState
  <1>2. CASE Lapse
    <2>1. PICK next : StoreMove(next, store.exp, "STATE") /\ next \in StoreState
      BY <1>2 DEF Lapse, StoreState
    <2> QED
      BY <1>0, <2>1
  <1>3. CASE Revoke
    BY <1>0, <1>3 DEF Revoke, StoreState
  <1>4. CASE Void
    BY <1>0, <1>4 DEF Void
  <1> QED
    BY <1>1, <1>2, <1>3, <1>4 DEF StoreStep

(* Time and Google: time only takes entitlements away, and a change at     *)
(* Google adds to the inbox or is lost.                                    *)
LEMMA ServedWorld ==
    ASSUME IInv, ServedInv, Tick \/ StoreStep
    PROVE  ServedInv'
  <1>0. Typed /\ Locked /\ BeforeFirst /\ Announced /\ OneOwner /\ Synced
    BY DEF ServedInv
  <1>u. UNCHANGED <<row, access, job, rowLock, syncLock, fails, newest, skewed, unsynced,
                    untold>>
    BY DEF Tick, StoreStep, Charge, Lapse, Revoke, Void, StoreMove
  <1>1. Locked' /\ BeforeFirst' /\ Announced' /\ OneOwner'
    BY <1>0, <1>u DEF Locked, BeforeFirst, Announced, Owed, OneOwner, At
  <1>2. clock' \in 0 .. MaxTime /\ clock' >= clock /\ inbox \subseteq inbox'
    <2>1. CASE Tick
      BY <1>0, <2>1, Numbers DEF Tick, Typed
    <2>2. CASE StoreStep
      BY <1>0, <2>2, Numbers, StoreMoves DEF StoreMove, Typed
    <2> QED
      BY <2>1, <2>2
  <1>3. Typed' /\ store.n <= store'.n
    <2>1. CASE Tick
      <3>1. UNCHANGED <<store, inbox, lost>>
        BY <2>1 DEF Tick
      <3>2. store.n <= store.n
        BY <1>0, Numbers DEF Typed
      <3> QED
        BY <1>0, <1>2, <1>u, <3>1, <3>2 DEF Typed
    <2>2. CASE StoreStep
      <3>1. PICK state \in StoreState, exp \in Time, kind \in {"STATE", "REVOKED", "VOIDED"} :
              StoreMove(state, exp, kind)
        BY <2>2, StoreMoves
      <3>2. PICK n \in 1 .. MaxChanges : n = store.n + 1 /\ newest \in 0 .. n
        BY <1>0, <3>1, Numbers DEF StoreMove, Typed
      <3>3. /\ store' = [state |-> state, exp |-> exp, n |-> n]
            /\ \/ inbox' = inbox \cup {[n |-> n, kind |-> kind]} /\ lost' = lost
               \/ inbox' = inbox /\ lost < MaxLost /\ lost' = lost + 1
            /\ clock' = clock
        BY <3>1, <3>2 DEF StoreMove
      <3>4. store' \in [state : StoreState, exp : Time, n : 1 .. MaxChanges] /\ store'.n = n
        BY <3>3
      <3>5. store.n <= n /\ \A m \in inbox : m.n <= n
        <4>1. \A m \in inbox : m.n \in Nat /\ m.n <= store.n
          BY <1>0, Numbers DEF Typed, Msg
        <4>2. store.n \in Nat
          BY <1>0, Numbers DEF Typed
        <4> QED
          BY <3>2, <4>1, <4>2
      <3>6. inbox' \subseteq Msg /\ \A m \in inbox' : m.n <= n
        <4>1. PICK m : m = [n |-> n, kind |-> kind]
          OBVIOUS
        <4>2. m \in Msg /\ m.n <= n
          BY <3>2, <4>1, Numbers DEF Msg
        <4>3. inbox \subseteq Msg /\ inbox' \subseteq inbox \cup {m}
          BY <1>0, <3>3, <4>1 DEF Typed
        <4> QED
          BY <3>5, <4>2, <4>3
      <3>7. lost' \in 0 .. MaxLost
        BY <1>0, <3>3, Numbers DEF Typed
      <3> QED
        BY <1>0, <1>u, <3>2, <3>3, <3>4, <3>5, <3>6, <3>7 DEF Typed
    <2> QED
      BY <2>1, <2>2
  <1>4. Synced'
    <2>1. Pending => Pending'
      BY <1>u, <1>2 DEF Pending, At
    <2>2. Entitled' => Entitled
      <3>1. row.exp \in Int
        BY <1>0, RowType
      <3>2. clock \in Nat /\ clock' \in Nat
        BY <1>0, <1>2, Numbers DEF Typed
      <3> QED
        BY <1>u, <1>2, <3>1, <3>2 DEF Entitled
    <2> QED
      BY <1>0, <1>u, <2>1, <2>2 DEF Synced, Agrees, Reading
  <1>5. ASSUME NEW q \in Process PROVE Sound(q)'
    <2>1. q \in Worker /\ ~At(q, "idle") => job[q].msg \in inbox'
      BY <1>2 DEF ServedInv, Sound, At
    <2>2. newest <= newest'
      BY <1>0, <1>u, Numbers DEF Typed
    <2> QED
      BY <1>u, <1>3, <2>1, <2>2, SoundStays
  <1> QED
    BY <1>1, <1>3, <1>4, <1>5 DEF ServedInv

(* Every step keeps the second invariant. *)
LEMMA ServedNext ==
    ASSUME IInv, ServedInv, [Next]_vars
    PROVE  ServedInv'
  <1>1. CASE UNCHANGED vars
    <2>1. Typed' /\ Locked' /\ OneOwner' /\ BeforeFirst' /\ Announced' /\ Synced'
      BY <1>1 DEF vars, ServedInv, Typed, Locked, OneOwner, BeforeFirst, Announced, Owed,
         Synced, Pending, Agrees, Reading, Entitled, At
    <2>2. ASSUME NEW p \in Process PROVE Sound(p)'
      BY <1>1 DEF vars, ServedInv, Sound, Carries, At
    <2> QED
      BY <2>1, <2>2 DEF ServedInv
  <1>2. CASE Tick \/ StoreStep
    BY <1>2, ServedWorld
  <1>3. ASSUME NEW w \in Worker, WorkerStep(w) PROVE ServedInv'
    BY <1>3, ServedFetch, ServedStamp, ServedWorkerWrites, ServedGrants DEF WorkerStep
  <1>4. CASE SweepStep
    BY <1>4, ServedSweep
  <1>5. CASE ReconStep
    BY <1>5, ServedRecon
  <1>6. CASE Heal
    BY <1>6, Names, ServedSyncRead DEF Heal
  <1>7. ASSUME NEW p \in Process,
               SyncRead(p) \/ SyncApply(p) \/ SyncFail(p) \/ Crash(p)
        PROVE  ServedInv'
    BY <1>7, ServedSyncRead, ServedSyncApply, ServedSyncFail, ServedCrash DEF SyncRead
  <1> QED
    BY <1>1, <1>2, <1>3, <1>4, <1>5, <1>6, <1>7 DEF Next

(* The initial state: an empty row, nothing granted, nobody at work. *)
LEMMA InitServed == Init => ServedInv
  <1> SUFFICES ASSUME Init PROVE ServedInv
    OBVIOUS
  <1>1. \A p \in Process : job[p] = Idle
    BY DEF Init
  <1>2. Idle.at = "idle" /\ Idle.msg = NoMsg
    BY DEF Idle
  <1>3. Typed
    <2>1. PICK m : m = [n |-> 1, kind |-> "STATE"]
      OBVIOUS
    <2>2. m \in Msg /\ m.n = 1 /\ inbox = {m}
      BY <2>1, Numbers DEF Msg, Init
    <2>3. Period \in Time /\ 1 \in 1 .. MaxChanges
      BY Numbers DEF Time
    <2>4. store \in [state : StoreState, exp : Time, n : 1 .. MaxChanges] /\ store.n = 1
      BY <2>3 DEF Init, StoreState
    <2>5. access \in Seq(Access)
      BY DEF Init
    <2>6. clock \in 0 .. MaxTime /\ lost \in 0 .. MaxLost /\ fails \in 0 .. MaxFail
      BY Numbers DEF Init
    <2>7. inbox \subseteq Msg /\ \A k \in inbox : k.n <= store.n
      BY <2>2, <2>4
    <2>8. newest \in 0 .. store.n /\ untold \in Int /\ row \in Row \cup {NoRow}
      BY <2>4 DEF Init
    <2>9. skewed \in BOOLEAN /\ unsynced \in BOOLEAN
      BY DEF Init
    <2> QED
      BY <2>4, <2>5, <2>6, <2>7, <2>8, <2>9 DEF Typed
  <1>4. Locked
    BY <1>1, <1>2, Names, Numbers DEF Init, Locked, At
  <1>5. OneOwner /\ BeforeFirst
    BY <1>1, <1>2, Names DEF Init, OneOwner, BeforeFirst, At
  <1>6. Announced
    BY <1>1, <1>2, Names DEF Init, Announced, Owed
  <1>7. Synced
    <2>1. row.status = "NONE" /\ DOMAIN access = {} /\ syncLock = Nobody
      BY DEF Init, NoRow
    <2> QED
      BY <2>1 DEF Synced, Agrees, Entitled, AccessGranting
  <1>8. \A p \in Process : Sound(p)
    BY <1>1, <1>2 DEF Sound, Carries, At, Past, Places, NoMsg
  <1> QED
    BY <1>3, <1>4, <1>5, <1>6, <1>7, <1>8 DEF ServedInv

(* The second invariant holds in every state: notifications have one owner *)
(* each, locks their holder, and once every sync that is owed has read the *)
(* rows the access rows grant what the purchase row entitles to.           *)
THEOREM EntitlementServedInvariant == Spec => [](IInv /\ ServedInv)
  <1>1. Init => IInv /\ ServedInv
    BY InitIInv, InitServed
  <1>2. IInv /\ ServedInv /\ [Next]_vars => (IInv /\ ServedInv)'
    BY NextStep, ServedNext
  <1> QED
    BY <1>1, <1>2, PTL DEF Spec

(* Type correctness: every variable has its type in every state, and each  *)
(* lock belongs to a process inside the transaction that takes it.         *)
THEOREM EntitlementTypeCorrect == Spec => []TypeOK
  <1>1. ServedInv => TypeOK
    <2> SUFFICES ASSUME ServedInv PROVE TypeOK
      OBVIOUS
    <2>1. Typed /\ Locked /\ \A p \in Process : Sound(p)
      BY DEF ServedInv
    <2>2. \A i \in DOMAIN access : access[i] \in Access
      BY <2>1 DEF Typed
    <2>3. \A p \in Process : job[p].msg \in inbox \cup {NoMsg}
      BY <2>1 DEF Sound
    <2>4. /\ rowLock \in {Nobody} \cup {p \in Process : At(p, "held")}
          /\ syncLock \in {Nobody} \cup {p \in Process : At(p, "apply")}
      BY <2>1, Names DEF Locked
    <2> QED
      BY <2>1, <2>2, <2>3, <2>4 DEF TypeOK, Typed, StoreState
  <1> QED
    BY <1>1, EntitlementServedInvariant, PTL

(* Once the writers have come to rest, a purchase that entitles is served  *)
(* and one whose status grants nothing is not: nothing is pending then, so *)
(* the access rows agree with the row (syncAccess).                        *)
THEOREM EntitlementServedFollowsRow == Spec => []ServedFollowsRow
  <1>1. IInv /\ ServedInv => ServedFollowsRow
    <2> SUFFICES ASSUME IInv, ServedInv, Settled
                 PROVE  /\ row.status \in AccessGranting /\ row.exp > clock => Served
                        /\ Served => row.status \in AccessGranting
      BY DEF ServedFollowsRow
    <2>1. inbox = {} /\ unsynced = FALSE /\ \A p \in Process : At(p, "idle")
      BY DEF Settled, Quiet, ServedInv, Typed
    <2>2. ~Pending
      BY <2>1, Names DEF Pending, At
    <2>3. syncLock = Nobody
      BY <2>1 DEF ServedInv, Locked, At
    <2>4. Agrees
      BY <2>2, <2>3 DEF ServedInv, Synced
    <2> QED
      BY <2>4 DEF Agrees, Entitled, Served, findActiveAccess
  <1> QED
    BY <1>1, EntitlementServedInvariant, PTL

(* The sweeper announces each lapse it writes once, and none is missing    *)
(* when no process failed (updatePurchaseStatusIf, enqueueExpirationWebhook).*)
THEOREM EntitlementChurnToldOnce == Spec => []ChurnToldOnce
  <1>1. IInv /\ ServedInv => ChurnToldOnce
    <2> SUFFICES ASSUME ServedInv PROVE ChurnToldOnce
      OBVIOUS
    <2>1. Announced /\ untold \in Int
      BY DEF ServedInv, Typed
    <2>2. Owed \in {0, 1} /\ (Quiet => Owed = 0)
      BY Names DEF Owed, Quiet, At
    <2> QED
      BY <2>1, <2>2 DEF ChurnToldOnce, Announced
  <1> QED
    BY <1>1, EntitlementServedInvariant, PTL

--------------------------------------------------------------------------------
(* A lapse and a renewal are legal from every status that is not terminal, *)
(* a revocation from every one that has not lapsed.                        *)
LEMMA AlwaysLegal ==
    ASSUME NEW s \in Status \ Terminal
    PROVE  /\ "ACTIVE" \in Transitions(s) /\ "EXPIRED" \in Transitions(s)
           /\ s # "EXPIRED" => "REVOKED" \in Transitions(s)
  BY DEF Status, Terminal, Transitions

(* A write of the store's latest state, if it is legal or overrides the    *)
(* guard, makes the row mirror the store; if it is not legal the row did   *)
(* so in what counts.                                                      *)
LEMMA WriteMirrors ==
    ASSUME UNCHANGED store, NEW s \in Status \cup {"NONE"}, NEW to, Latest(to),
           row'.exp = store.exp,
           \/ row'.status = caseGuarded(s, to)
           \/ row'.status = s /\ s # "NONE" /\ to \notin Transitions(s)
    PROVE  Mirrors'
  <1> SUFFICES ASSUME row'.status \notin Terminal
               PROVE  /\ store.state = "ACTIVE" => row'.status \in AccessGranting
                      /\ store.state = "EXPIRED" => row'.status \notin AccessGranting
    BY DEF Mirrors
  <1>1. CASE row'.status = caseGuarded(s, to)
    <2>1. row'.status = to /\ to \notin Terminal
      BY <1>1 DEF caseGuarded
    <2>2. to = mapSubscriptionStateToStatus(store.state)
      BY <2>1 DEF Latest, Terminal
    <2> QED
      BY <2>1, <2>2 DEF mapSubscriptionStateToStatus, AccessGranting
  <1>2. CASE row'.status = s /\ s # "NONE" /\ to \notin Transitions(s)
    <2>1. s \in Status \ Terminal
      BY <1>2
    <2>2. to # "ACTIVE" /\ to # "EXPIRED" /\ (to = "REVOKED" => s = "EXPIRED")
      BY <1>2, <2>1, AlwaysLegal
    <2>3. store.state # "ACTIVE" /\ (store.state = "EXPIRED" => to = "REVOKED")
      BY <2>2 DEF Latest, mapSubscriptionStateToStatus
    <2> QED
      BY <1>2, <2>2, <2>3 DEF AccessGranting
  <1> QED
    BY <1>1, <1>2

(* What is owed to the row stays owed while no notification goes. *)
LEMMA OwingStays ==
    ASSUME ServedInv, Typed', NEW b \in 1 .. store.n, Owing(b),
           \A m \in inbox : m.kind # "VOIDED" /\ m.n >= b => m \in inbox' \/ newest' >= b,
           newest <= newest', lost <= lost'
    PROVE  Owing(b)'
  <1>1. Typed
    BY DEF ServedInv
  <1>2. newest \in Int /\ newest' \in Int /\ lost \in Int /\ lost' \in Int /\ b \in Int
    BY <1>1, Numbers DEF Typed
  <1>3. CASE newest >= b \/ lost > 0
    BY <1>2, <1>3 DEF Owing
  <1>4. CASE \E m \in inbox : m.kind # "VOIDED" /\ m.n >= b
    BY <1>4 DEF Owing
  <1> QED
    BY <1>3, <1>4 DEF Owing

(* A step of process p that leaves the store alone. *)
LEMMA StoreKept ==
    ASSUME IInv, ServedInv, Expiries, NEW b \in 1 .. store.n, SinceChange(b),
           NEW p \in Process, NEW j, job' = [job EXCEPT ![p] = j],
           UNCHANGED <<clock, store>>, inbox' \subseteq inbox,
           store.state # "EXPIRED" =>
             row'.exp <= store.exp /\ \A i \in DOMAIN access' : access'[i].exp <= store.exp,
           j.exp \in Time \cup {Null}, j.want \in Time \cup {Null},
           store.state # "EXPIRED" => j.exp <= store.exp /\ j.want <= store.exp,
           Fresh(p, b)', newest' >= b /\ skewed' = FALSE => Mirrors', Owing(b)'
    PROVE  StoreInv'
  <1>1. job'[p] = j /\ \A q \in Process \ {p} : job'[q] = job[q]
    BY Replaced
  <1>2. Expiries'
    <2>1. \A q \in Process : Dated(q)'
      BY <1>1 DEF Expiries, Dated
    <2> QED
      BY <2>1 DEF Expiries
  <1>3. \A q \in Process : Fresh(q, b)'
    <2>1. ASSUME NEW q \in Process \ {p} PROVE Fresh(q, b)'
      BY <1>1 DEF SinceChange, Fresh, Carries, Latest, At
    <2> QED
      BY <2>1
  <1>4. SinceChange(b)'
    BY <1>3 DEF SinceChange
  <1> QED
    BY <1>2, <1>4 DEF StoreInv

(* A step of process p that touches neither the row's mirror of the store  *)
(* nor the inbox, and hands p nothing Google said.                         *)
LEMMA StoreAside ==
    ASSUME IInv, ServedInv, Typed', Expiries, NEW b \in 1 .. store.n, SinceChange(b),
           NEW p \in Process, NEW j, job' = [job EXCEPT ![p] = j],
           UNCHANGED <<clock, store, inbox, lost, newest, skewed>>,
           row'.exp = row.exp, row'.status = row.status,
           store.state # "EXPIRED" => \A i \in DOMAIN access' : access'[i].exp <= store.exp,
           j.exp \in Time \cup {Null}, j.want \in Time \cup {Null},
           store.state # "EXPIRED" => j.exp <= store.exp /\ j.want <= store.exp,
           Fresh(p, b)'
    PROVE  StoreInv'
  <1>1. newest >= b /\ skewed = FALSE => Mirrors
    BY DEF SinceChange
  <1>2. newest' >= b /\ skewed' = FALSE => Mirrors'
    BY <1>1 DEF Mirrors
  <1>3. newest <= newest' /\ lost <= lost'
    BY Numbers DEF ServedInv, Typed
  <1>4. Owing(b)'
    BY <1>3, OwingStays DEF SinceChange
  <1>5. store.state # "EXPIRED" => row'.exp <= store.exp
    BY DEF Expiries
  <1> QED
    BY <1>2, <1>4, <1>5, StoreKept

(* The date of nothing is before every expiry. *)
LEMMA NullDate ==
    ASSUME Typed
    PROVE  /\ store.exp \in Time /\ store.exp \in Nat /\ Null <= store.exp
           /\ store.exp <= store.exp /\ Idle.exp = Null /\ Idle.want = Null
  <1>1. store.exp \in Time
    BY DEF Typed
  <1>2. PICK x \in Nat : x = store.exp
    BY <1>1, Numbers
  <1> QED
    BY <1>1, <1>2, Numbers DEF Idle

(* What a worker fetches is the store's present state. *)
LEMMA StoreFetch ==
    ASSUME IInv, ServedInv, ServedInv', StoreInv, NEW w \in Worker, NEW m \in inbox,
           Fetch(w, m) \/ FindVoided(w, m)
    PROVE  StoreInv'
  <1>0. /\ w \in Process /\ Typed /\ Typed' /\ Expiries
    BY Names DEF ServedInv, StoreInv
  <1>b. PICK b \in 1 .. store.n : SinceChange(b)
    BY DEF StoreInv
  <1>n. store.exp \in Time /\ Null <= store.exp /\ store.exp <= store.exp
    BY <1>0, NullDate
  <1>1. CASE Fetch(w, m)
    <2>1. PICK to : to = mapStatus(store.state, m.kind)
      OBVIOUS
    <2>2. PICK j : j = [Idle EXCEPT !.at = "fetched", !.msg = m, !.exp = store.exp,
                                    !.n = store.n, !.to = to]
      OBVIOUS
    <2>3. job' = [job EXCEPT ![w] = j]
          /\ UNCHANGED <<clock, store, inbox, row, access, rowLock, syncLock, lost,
                         fails, newest, skewed, unsynced, untold>>
      BY <1>1, <2>1, <2>2 DEF Fetch
    <2>4. /\ j.at = "fetched" /\ j.msg = m /\ j.exp = store.exp /\ j.n = store.n /\ j.to = to
          /\ j.want = Null
      BY <2>2 DEF Idle
    <2>5. Latest(to)
      BY <2>1 DEF mapStatus, Latest, StoreInv, Expiries
    <2>6. Fresh(w, b)'
      <3>1. job'[w] = j
        BY <1>0, <2>3, Replaced
      <3> QED
        BY <2>3, <2>4, <2>5, <3>1 DEF Fresh, Latest
    <2> QED
      BY <1>0, <1>b, <1>n, <2>3, <2>4, <2>6, StoreAside DEF Expiries
  <1>2. CASE FindVoided(w, m) /\ row # NoRow
    <2>1. PICK j : j = [Idle EXCEPT !.at = "fetched", !.msg = m]
      OBVIOUS
    <2>2. job' = [job EXCEPT ![w] = j]
          /\ UNCHANGED <<clock, store, inbox, row, access, rowLock, syncLock, lost,
                         fails, newest, skewed, unsynced, untold>>
      BY <1>2, <2>1 DEF FindVoided
    <2>3. j.at = "fetched" /\ j.msg = m /\ j.exp = Null /\ j.want = Null
      BY <2>1 DEF Idle
    <2>4. Fresh(w, b)'
      <3>1. job'[w] = j
        BY <1>0, <2>2, Replaced
      <3> QED
        BY <1>2, <2>3, <3>1, Names DEF Fresh, Carries, FindVoided
    <2> QED
      BY <1>0, <1>b, <1>n, <2>2, <2>3, <2>4, StoreAside DEF Expiries
  <1>3. CASE FindVoided(w, m) /\ row = NoRow
    <2>1. inbox' = inbox \ {m} /\ m.kind = "VOIDED" /\ UNCHANGED <<clock, store, row, access,
             job, rowLock, syncLock, lost, fails, newest, skewed, unsynced, untold>>
      BY <1>3 DEF FindVoided
    <2>2. newest <= newest' /\ lost <= lost'
      BY <1>0, <2>1, Numbers DEF Typed
    <2>3. Owing(b)'
      BY <1>0, <1>b, <2>1, <2>2, OwingStays DEF SinceChange
    <2>4. SinceChange(b)'
      BY <1>b, <2>1, <2>3 DEF SinceChange, Fresh, Carries, Latest, Mirrors, At
    <2>5. Expiries'
      BY <1>0, <2>1 DEF Expiries, Dated
    <2> QED
      BY <2>1, <2>4, <2>5 DEF StoreInv
  <1> QED
    BY <1>1, <1>2, <1>3 DEF FindVoided

(* A worker's other steps beside its write of the row carry nothing new. *)
LEMMA StoreStamp ==
    ASSUME IInv, ServedInv, ServedInv', StoreInv, NEW w \in Worker,
           Stamp(w) \/ GuardFirst(w)
    PROVE  StoreInv'
  <1>0. /\ w \in Process /\ Typed /\ Typed' /\ Expiries
        /\ DOMAIN job = Process /\ JobFields \subseteq DOMAIN job[w]
    BY Names DEF ServedInv, StoreInv, IInv, Shape
  <1>b. PICK b \in 1 .. store.n : SinceChange(b)
    BY DEF StoreInv
  <1>1. PICK j : \/ Stamp(w) /\ j = [job[w] EXCEPT !.at = "stamped", !.time = clock]
                 \/ GuardFirst(w) /\ j = [job[w] EXCEPT !.at = "insert"]
    OBVIOUS
  <1>2. job' = [job EXCEPT ![w] = j]
        /\ UNCHANGED <<clock, store, inbox, row, access, rowLock, syncLock, lost,
                       fails, newest, skewed, unsynced, untold>>
    BY <1>0, <1>1 DEF Stamp, GuardFirst, JobFields
  <1>3. /\ j.msg = job[w].msg /\ j.exp = job[w].exp /\ j.n = job[w].n /\ j.to = job[w].to
        /\ j.want = job[w].want /\ job[w].at \in {"fetched", "stamped"}
        /\ j.at \in {"stamped", "insert"}
    BY <1>0, <1>1 DEF JobFields, GuardFirst, Stamp, At
  <1>4. job'[w] = j
    BY <1>0, <1>2, Replaced
  <1>5. Fresh(w, b)'
    BY <1>0, <1>b, <1>2, <1>3, <1>4, Names DEF SinceChange, Fresh, Carries, Latest, At
  <1> QED
    BY <1>0, <1>b, <1>2, <1>3, <1>5, StoreAside DEF Expiries, Dated

(* A write of the row by a process that carries Google's state: if it is   *)
(* as new as any the row was given, and not stale, the row mirrors it.     *)
LEMMA StoreWrite ==
    ASSUME IInv, ServedInv, ServedInv', StoreInv, NEW p \in Process, NEW j,
           job' = [job EXCEPT ![p] = j], Carries(p), j.exp \in {Null, job[p].exp},
           j.want = Null, j.at \in {"find", "revoke", "sync"},
           NEW withheld \in BOOLEAN, Given(job[p].n, withheld),
           UNCHANGED <<clock, store, inbox, access, lost>>, row'.exp = job[p].exp,
           ~withheld =>
              \/ row'.status = caseGuarded(row.status, job[p].to)
              \/ /\ row'.status = row.status /\ row # NoRow
                 /\ job[p].to \notin Transitions(row.status)
    PROVE  StoreInv'
  <1>0. /\ Typed /\ Typed' /\ Expiries /\ Sound(p) /\ Dated(p)
    BY DEF ServedInv, StoreInv, Expiries
  <1>b. PICK b \in 1 .. store.n : SinceChange(b)
    BY DEF StoreInv
  <1>n. store.exp \in Time /\ Null <= store.exp
    BY <1>0, NullDate
  <1>1. job[p].n \in 1 .. store.n
    BY <1>0 DEF Sound
  <1>2. newest <= newest' /\ lost <= lost'
    BY <1>0, <1>1, GivenType, Numbers DEF Typed
  <1>3. Owing(b)'
    BY <1>0, <1>b, <1>2, OwingStays DEF SinceChange
  <1>4. Fresh(p, b)'
    <2>1. job'[p] = j
      BY Replaced
    <2>2. ~Carries(p)'
      BY <2>1, Names DEF Carries, At
    <2> QED
      BY <2>2 DEF Fresh
  <1>5. ASSUME newest' >= b, skewed' = FALSE PROVE Mirrors'
    <2>1. ~(job[p].n < newest) /\ ~withheld
      BY <1>5 DEF Given
    <2>2. job[p].n >= b
      BY <1>0, <1>1, <1>5, <2>1, Numbers DEF Given, Typed
    <2>3. job[p].exp = store.exp /\ Latest(job[p].to)
      BY <1>b, <2>2 DEF SinceChange, Fresh
    <2>4. row.status \in Status \cup {"NONE"} /\ (row # NoRow => row.status # "NONE")
      BY <1>0, RowType, Numbers
    <2> QED
      BY <2>1, <2>3, <2>4, WriteMirrors
  <1>6. /\ j.exp \in Time \cup {Null}
        /\ store.state # "EXPIRED" => j.exp <= store.exp /\ j.want <= store.exp
        /\ store.state # "EXPIRED" => row'.exp <= store.exp
    BY <1>0, <1>n DEF Dated
  <1>7. store.state # "EXPIRED" => \A i \in DOMAIN access' : access'[i].exp <= store.exp
    BY <1>0 DEF Expiries
  <1> QED
    BY <1>0, <1>b, <1>3, <1>4, <1>5, <1>6, <1>7, StoreKept

(* What updateRow leaves in the two columns the invariant speaks of. *)
LEMMA UpdateFields ==
    ASSUME IInv, NEW j, NEW apply \in BOOLEAN, NEW from
    PROVE  /\ updateRow(j, apply, from).exp = j.exp
           /\ updateRow(j, apply, from).status =
                IF apply THEN caseGuarded(row.status, j.to) ELSE row.status
  <1>1. RowFields \subseteq DOMAIN row
    BY DEF IInv, Shape
  <1> QED
    BY <1>1 DEF updateRow, RowFields

(* The writes of the row by a worker. *)
LEMMA StoreWorkerWrites ==
    ASSUME IInv, ServedInv, ServedInv', StoreInv, NEW w \in Worker,
           WriteRow(w) \/ WriteVoided(w) \/ upsertPurchase(w)
    PROVE  StoreInv'
  <1>0. /\ w \in Process /\ Sound(w) /\ Typed /\ Typed' /\ Expiries
    BY Names DEF ServedInv, StoreInv
  <1>u. UNCHANGED <<clock, store, inbox, access, lost>>
    BY DEF WriteRow, WriteVoided, upsertPurchase
  <1>1. CASE WriteRow(w)
    <2>1. PICK apply \in BOOLEAN : apply = guardStatusWrite(job[w].to, job[w].time)
      BY DEF guardStatusWrite
    <2>2. PICK withheld \in BOOLEAN : withheld = isStale(job[w].time)
      BY DEF isStale
    <2>3. /\ row' = updateRow(job[w], apply, row.status) /\ GoGrant(w, apply)
          /\ Given(job[w].n, withheld) /\ row # NoRow /\ Carries(w)
      BY <1>1, <2>1, <2>2 DEF WriteRow, Carries, At
    <2>4. PICK j : /\ job' = [job EXCEPT ![w] = j] /\ j.at \in {"find", "revoke"}
                   /\ j.exp \in {Null, job[w].exp} /\ j.want = Null
      BY <1>0, <2>3, GrantFields
    <2>5. /\ row'.exp = job[w].exp
          /\ row'.status = IF apply THEN caseGuarded(row.status, job[w].to) ELSE row.status
      BY <2>3, UpdateFields
    <2>6. ~withheld /\ ~apply => job[w].to \notin Transitions(row.status)
      BY <2>1, <2>2 DEF guardStatusWrite
    <2> QED
      BY <1>0, <1>u, <2>3, <2>4, <2>5, <2>6, StoreWrite
  <1>2. CASE upsertPurchase(w)
    <2>1. Given(job[w].n, FALSE) /\ GoGrant(w, TRUE) /\ Carries(w)
      BY <1>0, <1>2 DEF upsertPurchase, Sound, Carries, At
    <2>2. PICK j : /\ job' = [job EXCEPT ![w] = j] /\ j.at \in {"find", "revoke"}
                   /\ j.exp \in {Null, job[w].exp} /\ j.want = Null
      BY <1>0, <2>1, GrantFields
    <2>3. row'.exp = job[w].exp /\ row'.status = caseGuarded(row.status, job[w].to)
      <3>1. CASE row # NoRow
        <4>1. row' = updateRow(job[w], TRUE, "NONE")
          BY <1>2, <3>1 DEF upsertPurchase
        <4> QED
          BY <4>1, UpdateFields
      <3>2. CASE row = NoRow
        <4>1. row'.exp = job[w].exp /\ row'.status = job[w].to
          BY <1>2, <3>2 DEF upsertPurchase
        <4>2. row.status \notin Terminal
          BY <3>2 DEF NoRow, Terminal
        <4> QED
          BY <4>1, <4>2 DEF caseGuarded
      <3> QED
        BY <3>1, <3>2
    <2> QED
      BY <1>0, <1>u, <2>1, <2>2, <2>3, StoreWrite
  <1>3. CASE WriteVoided(w)
    <2>b. PICK b \in 1 .. store.n : SinceChange(b)
      BY DEF StoreInv
    <2>n. store.exp \in Time /\ Null <= store.exp
      BY <1>0, NullDate
    <2>1. Go(w, "revoke") /\ UNCHANGED <<newest, skewed>>
      BY <1>3 DEF WriteVoided
    <2>2. PICK j : /\ job' = [job EXCEPT ![w] = j] /\ j.at = "revoke"
                   /\ j.exp = Null /\ j.want = Null
      BY <1>0, <2>1, GoFields
    <2>3. row' = row \/ (row'.exp = row.exp /\ row'.status \in Terminal)
      <3>1. RowFields \subseteq DOMAIN row
        BY DEF IInv, Shape
      <3>2. caseGuarded(row.status, "REFUNDED") \in Terminal
        BY DEF caseGuarded, Terminal
      <3> QED
        BY <1>3, <3>1, <3>2 DEF WriteVoided, RowFields
    <2>4. Fresh(w, b)'
      <3>1. job'[w] = j
        BY <1>0, <2>2, Replaced
      <3> QED
        BY <2>2, <3>1, Names DEF Fresh, Carries, At
    <2>5. newest' >= b /\ skewed' = FALSE => Mirrors'
      BY <1>u, <2>b, <2>1, <2>3 DEF SinceChange, Mirrors
    <2>6. newest <= newest' /\ lost <= lost'
      BY <1>0, <1>u, <2>1, Numbers DEF Typed
    <2>7. Owing(b)'
      BY <1>0, <1>u, <2>b, <2>6, OwingStays DEF SinceChange
    <2>8. store.state # "EXPIRED" =>
             row'.exp <= store.exp /\ \A i \in DOMAIN access' : access'[i].exp <= store.exp
      BY <1>0, <1>u, <2>3 DEF Expiries
    <2> QED
      BY <1>0, <1>u, <2>b, <2>n, <2>2, <2>4, <2>5, <2>7, <2>8, StoreKept
  <1> QED
    BY <1>1, <1>2, <1>3

(* The worker's writes of the access rows carry the expiry it wrote. *)
LEMMA StoreGrants ==
    ASSUME IInv, ServedInv, ServedInv', StoreInv, NEW w \in Worker,
           FindAccess(w) \/ createAccess(w) \/ revokeAccessByPurchaseId(w)
    PROVE  StoreInv'
  <1>0. /\ w \in Process /\ Typed /\ Typed' /\ Expiries /\ Dated(w)
        /\ DOMAIN job = Process /\ JobFields \subseteq DOMAIN job[w] /\ access \in Seq(Access)
    BY Names DEF ServedInv, StoreInv, Expiries, IInv, Shape, Typed
  <1>b. PICK b \in 1 .. store.n : SinceChange(b)
    BY DEF StoreInv
  <1>n. store.exp \in Time /\ Null <= store.exp
    BY <1>0, NullDate
  <1>u. UNCHANGED <<clock, store, inbox, row, rowLock, syncLock, lost, fails, newest,
                    skewed, unsynced, untold>>
    BY DEF FindAccess, createAccess, revokeAccessByPurchaseId
  <1>1. ASSUME NEW j, job' = [job EXCEPT ![w] = j], j.at \in {"create", "sync"},
               j.exp \in {Null, job[w].exp}, j.want \in {Null, job[w].want},
               \A i \in DOMAIN access' :
                 \/ access'[i].exp = job[w].exp
                 \/ i \in DOMAIN access /\ access'[i].exp = access[i].exp
        PROVE  StoreInv'
    <2>1. Fresh(w, b)'
      <3>1. job'[w] = j
        BY <1>0, <1>1, Replaced
      <3> QED
        BY <1>1, <3>1, Names DEF Fresh, Carries, At
    <2>2. store.state # "EXPIRED" => \A i \in DOMAIN access' : access'[i].exp <= store.exp
      BY <1>0, <1>1 DEF Expiries, Dated
    <2>3. /\ j.exp \in Time \cup {Null} /\ j.want \in Time \cup {Null}
          /\ store.state # "EXPIRED" => j.exp <= store.exp /\ j.want <= store.exp
      BY <1>0, <1>n, <1>1 DEF Dated
    <2> QED
      BY <1>0, <1>b, <1>u, <1>1, <2>1, <2>2, <2>3, StoreAside
  <1>2. ASSUME Go(w, "sync"),
               \A i \in DOMAIN access' :
                 \/ access'[i].exp = job[w].exp
                 \/ i \in DOMAIN access /\ access'[i].exp = access[i].exp
        PROVE  StoreInv'
    BY <1>0, <1>1, <1>2, GoFields
  <1>3. CASE FindAccess(w) /\ access = <<>>
    <2>1. PICK j : j = [job[w] EXCEPT !.at = "create"]
      OBVIOUS
    <2>2. job' = [job EXCEPT ![w] = j] /\ access' = access
      BY <1>0, <1>3, <2>1 DEF FindAccess
    <2>3. j.at = "create" /\ j.exp = job[w].exp /\ j.want = job[w].want
      BY <1>0, <2>1 DEF JobFields
    <2> QED
      BY <1>1, <2>2, <2>3
  <1>4. CASE FindAccess(w) /\ access # <<>>
    <2>1. PICK k \in DOMAIN access :
            access' = [access EXCEPT ![k] = [active |-> TRUE, exp |-> job[w].exp]]
      BY <1>4 DEF FindAccess
    <2>2. \A i \in DOMAIN access' :
                 \/ access'[i].exp = job[w].exp
                 \/ i \in DOMAIN access /\ access'[i].exp = access[i].exp
      BY <2>1
    <2> QED
      BY <1>2, <1>4, <2>2 DEF FindAccess
  <1>5. CASE createAccess(w)
    <2>1. PICK a : a = [active |-> TRUE, exp |-> job[w].exp]
      OBVIOUS
    <2>2. access' = access \o <<a>> /\ a.exp = job[w].exp
      BY <1>5, <2>1 DEF createAccess
    <2>3. \A i \in DOMAIN access' : access'[i] = a \/ (i \in DOMAIN access /\ access'[i] = access[i])
      BY <1>0, <2>2
    <2> QED
      BY <1>2, <1>5, <2>2, <2>3 DEF createAccess
  <1>6. CASE revokeAccessByPurchaseId(w)
    <2>1. access' = [k \in DOMAIN access |-> [access[k] EXCEPT !.active = FALSE]]
      BY <1>6 DEF revokeAccessByPurchaseId
    <2>2. ASSUME NEW a \in Access, NEW r, r = [a EXCEPT !.active = FALSE] PROVE r.exp = a.exp
      BY <2>2 DEF Access
    <2>3. \A i \in DOMAIN access' : i \in DOMAIN access /\ access'[i].exp = access[i].exp
      <3> SUFFICES ASSUME NEW i \in DOMAIN access PROVE access'[i].exp = access[i].exp
        BY <2>1
      <3>1. access[i] \in Access /\ access'[i] = [access[i] EXCEPT !.active = FALSE]
        BY <1>0, <2>1
      <3> QED
        BY <2>2, <3>1
    <2> QED
      BY <1>2, <1>6, <2>3 DEF revokeAccessByPurchaseId
  <1> QED
    BY <1>3, <1>4, <1>5, <1>6

(* A sync reads the row's expiry or none. *)
LEMMA StoreSyncRead ==
    ASSUME IInv, ServedInv, ServedInv', StoreInv, NEW p \in Process, syncRead(p)
    PROVE  StoreInv'
  <1>0. /\ Typed /\ Typed' /\ Expiries /\ Dated(p)
        /\ DOMAIN job = Process /\ JobFields \subseteq DOMAIN job[p]
    BY DEF ServedInv, StoreInv, Expiries, IInv, Shape
  <1>b. PICK b \in 1 .. store.n : SinceChange(b)
    BY DEF StoreInv
  <1>n. store.exp \in Time /\ Null <= store.exp
    BY <1>0, NullDate
  <1>1. PICK want : want = computeDesiredAccess
    OBVIOUS
  <1>2. PICK j : j = [job[p] EXCEPT !.at = "apply", !.want = want, !.rows = access]
    OBVIOUS
  <1>3. /\ job' = [job EXCEPT ![p] = j]
        /\ UNCHANGED <<clock, store, inbox, row, access, rowLock, lost, fails,
                       newest, skewed, untold>>
    BY <1>0, <1>1, <1>2 DEF syncRead, JobFields
  <1>4. j.at = "apply" /\ j.want = want /\ j.exp = job[p].exp
    BY <1>0, <1>2 DEF JobFields
  <1>5. want = Null \/ (want = row.exp /\ row.exp \in Time)
    <2>1. row.status \in AccessGranting => row.exp \in Time
      BY <1>0, RowType DEF AccessGranting
    <2> QED
      BY <1>1, <2>1 DEF computeDesiredAccess
  <1>6. Fresh(p, b)'
    <2>1. job'[p] = j
      BY <1>3, Replaced
    <2> QED
      BY <1>4, <2>1, Names DEF Fresh, Carries, At
  <1>7. /\ j.exp \in Time \cup {Null} /\ j.want \in Time \cup {Null}
        /\ store.state # "EXPIRED" => j.exp <= store.exp /\ j.want <= store.exp
        /\ store.state # "EXPIRED" => \A i \in DOMAIN access' : access'[i].exp <= store.exp
    BY <1>0, <1>n, <1>3, <1>4, <1>5 DEF Dated, Expiries
  <1> QED
    BY <1>0, <1>b, <1>3, <1>6, <1>7, StoreAside

(* The commit of a sync.  The notification it ends was given to the row. *)
LEMMA StoreSyncApply ==
    ASSUME IInv, ServedInv, ServedInv', StoreInv, NEW p \in Process, SyncApply(p)
    PROVE  StoreInv'
  <1>0. /\ Typed /\ Typed' /\ Expiries /\ Dated(p) /\ Sound(p) /\ job[p].at = "apply"
        /\ access \in Seq(Access) /\ (p \in Worker => job[p].msg \in inbox /\ job[p].msg \in Msg)
    BY DEF ServedInv, StoreInv, Expiries, SyncApply, At, Typed, Sound
  <1>b. PICK b \in 1 .. store.n : SinceChange(b)
    BY DEF StoreInv
  <1>n. store.exp \in Time /\ Null <= store.exp
    BY <1>0, NullDate
  <1>1. /\ AfterSync(p)
        /\ UNCHANGED <<clock, store, row, rowLock, lost, newest, skewed, unsynced, untold>>
    BY DEF SyncApply
  <1>2. PICK j : /\ job' = [job EXCEPT ![p] = j] /\ j.at \in {"tell", "idle"}
                 /\ j.exp = Null /\ j.want = Null
    <2>1. Idle.at = "idle" /\ Idle.exp = Null /\ Idle.want = Null
      BY DEF Idle
    <2>2. Stop(p) \/ Go(p, "tell")
      BY <1>1 DEF AfterSync
    <2> QED
      BY <2>1, <2>2, GoFields DEF Stop
  <1>3. inbox' = inbox \/ (p \in Worker /\ inbox' = inbox \ {job[p].msg})
    BY <1>1, Names DEF AfterSync
  <1>4. \A i \in DOMAIN access' :
          \/ access'[i].exp = job[p].want
          \/ i \in DOMAIN access /\ access'[i].exp = access[i].exp
    <2>1. CASE job[p].want # Null /\ job[p].rows = <<>>
      <3>1. PICK a : a = [active |-> TRUE, exp |-> job[p].want]
        OBVIOUS
      <3>2. access' = access \o <<a>> /\ a.exp = job[p].want
        BY <2>1, <3>1 DEF SyncApply
      <3>3. \A i \in DOMAIN access' : access'[i] = a \/ (i \in DOMAIN access /\ access'[i] = access[i])
        BY <1>0, <3>2
      <3> QED
        BY <3>2, <3>3
    <2>2. CASE ~(job[p].want # Null /\ job[p].rows = <<>>)
      <3>1. PICK first : access' = reconciled(job[p].rows, job[p].want, first)
        BY <2>2 DEF SyncApply
      <3>2. DOMAIN access' = DOMAIN access /\ \A i \in DOMAIN access :
              \/ access'[i] = access[i]
              \/ access'[i] = [access[i] EXCEPT !.active =
                                 access[i].active /\ ~job[p].rows[i].active]
              \/ access'[i] = [active |-> TRUE, exp |-> job[p].want]
        BY <3>1 DEF reconciled
      <3>3. ASSUME NEW a \in Access, NEW c, NEW r,
                   \/ r = [a EXCEPT !.active = a.active /\ ~c]
                   \/ r = [active |-> TRUE, exp |-> job[p].want]
            PROVE  r.exp = a.exp \/ r.exp = job[p].want
        BY <3>3 DEF Access
      <3> SUFFICES ASSUME NEW i \in DOMAIN access
                   PROVE  access'[i].exp = job[p].want \/ access'[i].exp = access[i].exp
        BY <3>2
      <3>4. access[i] \in Access
        BY <1>0
      <3>5. CASE access'[i] = access[i]
        BY <3>5
      <3>6. CASE \/ access'[i] = [access[i] EXCEPT !.active =
                                 access[i].active /\ ~job[p].rows[i].active]
                 \/ access'[i] = [active |-> TRUE, exp |-> job[p].want]
        BY <3>3, <3>4, <3>6
      <3> QED
        BY <3>2, <3>5, <3>6
    <2> QED
      BY <2>1, <2>2
  <1>5. Fresh(p, b)'
    <2>1. job'[p] = j
      BY <1>2, Replaced
    <2> QED
      BY <1>2, <2>1, Names DEF Fresh, Carries, At
  <1>6. newest' >= b /\ skewed' = FALSE => Mirrors'
    BY <1>b, <1>1 DEF SinceChange, Mirrors
  <1>7. Owing(b)'
    <2>1. newest <= newest' /\ lost <= lost'
      BY <1>0, <1>1, Numbers DEF Typed
    <2>2. \A m \in inbox : m.kind # "VOIDED" /\ m.n >= b => m \in inbox' \/ newest' >= b
      <3> SUFFICES ASSUME NEW m \in inbox, m.kind # "VOIDED", m.n >= b, m \notin inbox'
                   PROVE  newest' >= b
        OBVIOUS
      <3>1. p \in Worker /\ m = job[p].msg
        BY <1>3
      <3>2. newest >= m.n
        BY <1>0, <3>1 DEF Sound, Past
      <3>3. newest \in Int /\ m.n \in Int
        BY <1>0, <3>1, Numbers DEF Typed, Msg
      <3> QED
        BY <1>1, <3>2, <3>3
    <2> QED
      BY <1>0, <1>b, <2>1, <2>2, OwingStays DEF SinceChange
  <1>8. store.state # "EXPIRED" =>
          row'.exp <= store.exp /\ \A i \in DOMAIN access' : access'[i].exp <= store.exp
    BY <1>0, <1>1, <1>4 DEF Expiries, Dated
  <1>9. inbox' \subseteq inbox
    BY <1>3
  <1> QED
    BY <1>0, <1>b, <1>n, <1>1, <1>2, <1>5, <1>6, <1>7, <1>8, <1>9, StoreKept

(* A failed sync and a crash only let go of what a process carried. *)
LEMMA StoreDropped ==
    ASSUME IInv, ServedInv, ServedInv', StoreInv, NEW p \in Process, SyncFail(p) \/ Crash(p)
    PROVE  StoreInv'
  <1>0. /\ Typed /\ Typed' /\ Expiries
    BY DEF ServedInv, StoreInv
  <1>b. PICK b \in 1 .. store.n : SinceChange(b)
    BY DEF StoreInv
  <1>n. store.exp \in Time /\ Null <= store.exp
    BY <1>0, NullDate
  <1>1. UNCHANGED <<clock, store, inbox, row, access, lost, newest, skewed>>
    BY DEF SyncFail, Crash
  <1>2. PICK j : /\ job' = [job EXCEPT ![p] = j] /\ j.at \in {"tell", "idle"}
                 /\ j.exp = Null /\ j.want = Null
    <2>1. Idle.at = "idle" /\ Idle.exp = Null /\ Idle.want = Null
      BY DEF Idle
    <2>2. Stop(p) \/ Go(p, "tell")
      BY DEF SyncFail, Crash
    <2> QED
      BY <2>1, <2>2, GoFields DEF Stop
  <1>3. Fresh(p, b)'
    <2>1. job'[p] = j
      BY <1>2, Replaced
    <2> QED
      BY <1>2, <2>1, Names DEF Fresh, Carries, At
  <1> QED
    BY <1>0, <1>b, <1>n, <1>1, <1>2, <1>3, StoreAside DEF Expiries

(* The sweeper lapses a row whose expiry has passed, or skews it. *)
LEMMA StoreSweep ==
    ASSUME IInv, ServedInv, ServedInv', StoreInv, SweepStep
    PROVE  StoreInv'
  <1>0. /\ "sweeper" \in Process /\ "sweeper" \notin Worker /\ "sweeper" # "recon"
        /\ Typed /\ Typed' /\ Expiries /\ RowFields \subseteq DOMAIN row
    BY Names DEF ServedInv, StoreInv, IInv, Shape
  <1>b. PICK b \in 1 .. store.n : SinceChange(b)
    BY DEF StoreInv
  <1>n. store.exp \in Time /\ store.exp \in Nat /\ Null <= store.exp
    BY <1>0, NullDate
  <1>u. UNCHANGED <<clock, store, inbox, access, lost, newest>>
    BY DEF SweepStep, SweepRead, updatePurchaseStatusIf, Tell
  <1>i. Idle.at = "idle" /\ Idle.exp = Null /\ Idle.want = Null
    BY DEF Idle
  <1>1. PICK j : /\ job' = [job EXCEPT !["sweeper"] = j] /\ j.exp = Null /\ j.want = Null
    <2>1. CASE SweepRead
      <3>1. PICK k : k = [Idle EXCEPT !.at = "expire", !.from = row.status]
        OBVIOUS
      <3>2. k.exp = Null /\ k.want = Null
        BY <3>1 DEF Idle
      <3> QED
        BY <2>1, <3>1, <3>2 DEF SweepRead
    <2>2. CASE Stop("sweeper") \/ Go("sweeper", "sync")
      BY <1>0, <1>i, <2>2, GoFields DEF Stop
    <2> QED
      BY <2>1, <2>2 DEF SweepStep, updatePurchaseStatusIf, Tell
  <1>2. Fresh("sweeper", b)'
    BY <1>0 DEF Fresh, Carries
  <1>3. CASE UNCHANGED <<row, skewed>>
    BY <1>0, <1>b, <1>n, <1>u, <1>1, <1>2, <1>3, StoreAside DEF Expiries
  <1>4. CASE updatePurchaseStatusIf /\ swapMatches(job["sweeper"].from)
    <2>1. /\ row' = [row EXCEPT !.status = "EXPIRED"]
          /\ skewed' = (skewed \/ row.exp > clock)
      BY <1>4 DEF updatePurchaseStatusIf
    <2>2. row'.status = "EXPIRED" /\ row'.exp = row.exp
      BY <1>0, <2>1 DEF RowFields
    <2>3. ASSUME newest' >= b, skewed' = FALSE PROVE Mirrors'
      <3>1. ~skewed /\ ~(row.exp > clock)
        BY <2>1, <2>3
      <3>2. skewed = FALSE
        BY <1>0, <3>1 DEF Typed
      <3>3. Mirrors
        BY <1>b, <1>u, <2>3, <3>2 DEF SinceChange
      <3> QED
        BY <1>u, <2>2, <3>1, <3>3 DEF Mirrors, AccessGranting
    <2>4. newest <= newest' /\ lost <= lost'
      BY <1>0, <1>u, Numbers DEF Typed
    <2>5. Owing(b)'
      BY <1>0, <1>b, <1>u, <2>4, OwingStays DEF SinceChange
    <2>6. store.state # "EXPIRED" =>
             row'.exp <= store.exp /\ \A i \in DOMAIN access' : access'[i].exp <= store.exp
      BY <1>0, <1>u, <2>2 DEF Expiries
    <2> QED
      BY <1>0, <1>b, <1>n, <1>u, <1>1, <1>2, <2>3, <2>5, <2>6, StoreKept
  <1> QED
    BY <1>3, <1>4 DEF SweepStep, SweepRead, updatePurchaseStatusIf, Tell

(* The reconciliation sweep fetches and writes under its claim. *)
LEMMA StoreRecon ==
    ASSUME IInv, ServedInv, ServedInv', StoreInv, ReconStep
    PROVE  StoreInv'
  <1>0. /\ "recon" \in Process /\ "recon" \notin Worker /\ RowFields \subseteq DOMAIN row
        /\ Typed /\ Typed' /\ Expiries
    BY Names DEF ServedInv, StoreInv, IInv, Shape
  <1>b. PICK b \in 1 .. store.n : SinceChange(b)
    BY DEF StoreInv
  <1>n. store.exp \in Time /\ Null <= store.exp /\ store.exp <= store.exp
    BY <1>0, NullDate
  <1>u. UNCHANGED <<clock, store, inbox, access, lost>>
    BY DEF ReconStep, ReconClaim, ReconError, ReconWrite
  <1>i. Idle.at = "idle" /\ Idle.exp = Null /\ Idle.want = Null
    BY DEF Idle
  <1>1. ASSUME NEW j, job' = [job EXCEPT !["recon"] = j], j.exp \in {Null, store.exp},
               j.want = Null, Fresh("recon", b)', UNCHANGED <<newest, skewed>>,
               row'.exp = row.exp, row'.status = row.status
        PROVE  StoreInv'
    BY <1>0, <1>b, <1>n, <1>u, <1>1, StoreAside DEF Expiries
  <1>2. CASE ReconClaim
    <2>1. PICK to : to = mapSubscriptionStateToStatus(store.state)
      OBVIOUS
    <2>2. PICK now \in 0 .. clock :
            job' = [job EXCEPT !["recon"] = [Idle EXCEPT
                      !.at = "held", !.time = now, !.from = row.status,
                      !.to = to, !.exp = store.exp, !.n = store.n]]
      BY <1>2, <2>1 DEF ReconClaim
    <2>3. PICK j : j = [Idle EXCEPT
                      !.at = "held", !.time = now, !.from = row.status,
                      !.to = to, !.exp = store.exp, !.n = store.n]
      OBVIOUS
    <2>4. j.to = to /\ j.exp = store.exp /\ j.want = Null
      BY <2>3 DEF Idle
    <2>5. job' = [job EXCEPT !["recon"] = j] /\ UNCHANGED <<row, newest, skewed>>
      BY <1>2, <2>2, <2>3 DEF ReconClaim
    <2>6. job'["recon"] = j
      BY <1>0, <2>5, Replaced
    <2>7. Fresh("recon", b)'
      BY <1>u, <2>1, <2>4, <2>6 DEF Fresh, Latest
    <2> QED
      BY <1>1, <2>4, <2>5, <2>7
  <1>3. ASSUME job' = [job EXCEPT !["recon"] = Idle] PROVE Fresh("recon", b)'
    <2>1. job'["recon"] = Idle
      BY <1>0, <1>3, Replaced
    <2> QED
      BY <1>0, <1>i, <2>1 DEF Fresh, Carries, At
  <1>4. CASE ReconError
    <2>1. job' = [job EXCEPT !["recon"] = Idle] /\ UNCHANGED <<row, newest, skewed>>
      BY <1>4 DEF ReconError, Stop
    <2> QED
      BY <1>1, <1>3, <1>i, <2>1
  <1>5. CASE ReconWrite
    <2>1. PICK apply \in BOOLEAN : apply = (job["recon"].to # job["recon"].from
                                  /\ guardStatusWrite(job["recon"].to, job["recon"].time))
      OBVIOUS
    <2>2. CASE apply
      <3>1. PICK r : r = updateRow(job["recon"], TRUE, job["recon"].from)
        OBVIOUS
      <3>2. /\ row' = [r EXCEPT !.checked = job["recon"].time]
            /\ Given(job["recon"].n, FALSE) /\ Go("recon", "sync") /\ Carries("recon")
        BY <1>5, <2>1, <2>2, <3>1 DEF ReconWrite, Carries
      <3>3. /\ r.exp = job["recon"].exp /\ RowFields \subseteq DOMAIN r
            /\ r.status = caseGuarded(row.status, job["recon"].to)
        BY <1>0, <3>1, UpdateFields DEF updateRow
      <3>4. /\ row'.exp = job["recon"].exp
            /\ row'.status = caseGuarded(row.status, job["recon"].to)
        BY <3>2, <3>3 DEF RowFields
      <3>5. PICK j : /\ job' = [job EXCEPT !["recon"] = j] /\ j.at = "sync"
                     /\ j.exp = Null /\ j.want = Null
        BY <1>0, <3>2, GoFields
      <3> QED
        BY <1>0, <1>u, <3>2, <3>4, <3>5, StoreWrite
    <2>3. CASE ~apply
      <3>1. /\ row' = [row EXCEPT !.checked = job["recon"].time]
            /\ job' = [job EXCEPT !["recon"] = Idle] /\ UNCHANGED <<newest, skewed>>
        BY <1>5, <2>1, <2>3 DEF ReconWrite, Stop
      <3>2. row'.status = row.status /\ row'.exp = row.exp
        BY <1>0, <3>1 DEF RowFields
      <3> QED
        BY <1>1, <1>3, <1>i, <3>1, <3>2
    <2> QED
      BY <2>2, <2>3
  <1> QED
    BY <1>2, <1>4, <1>5 DEF ReconStep

(* Expiries under a change at Google that cuts nothing short unless it     *)
(* ends the subscription.                                                  *)
LEMMA MoveExpiries ==
    ASSUME ServedInv, Expiries, NEW state \in StoreState, NEW exp \in Time, NEW kind,
           StoreMove(state, exp, kind), exp <= clock + Period,
           state \in {"ON_HOLD", "PAUSED"} => exp <= clock,
           kind = "REVOKED" => state = "EXPIRED",
           store.state = "EXPIRED" => state = "EXPIRED",
           state # "EXPIRED" => store.exp <= exp
    PROVE  Expiries'
  <1>0. /\ Typed /\ store'.state = state /\ store'.exp = exp
        /\ UNCHANGED <<clock, row, access, job>>
    BY DEF ServedInv, StoreMove
  <1>1. PICK x \in Nat, y \in Nat : x = exp /\ y = store.exp
    BY <1>0, NullDate, Numbers
  <1>2. (\E m \in inbox' : m.kind = "REVOKED") => state = "EXPIRED"
    <2>1. PICK m : m = [n |-> store.n + 1, kind |-> kind]
      OBVIOUS
    <2>2. m.kind = kind /\ inbox' \subseteq inbox \cup {m}
      BY <2>1 DEF StoreMove
    <2> QED
      BY <2>2 DEF Expiries
  <1>3. ASSUME NEW e \in Int, e <= store.exp, state # "EXPIRED" PROVE e <= exp
    BY <1>1, <1>3
  <1>4. \A e \in Time \cup {Null} : e \in Int
    BY Numbers
  <1>5. row.exp \in Int /\ \A i \in DOMAIN access : access[i].exp \in Int
    <2>1. ASSUME NEW a \in Access PROVE a.exp \in Time \cup {Null}
      BY DEF Access
    <2>2. \A i \in DOMAIN access : access[i] \in Access
      BY <1>0 DEF Typed
    <2> QED
      BY <1>0, <1>4, <2>1, <2>2, RowType
  <1>6. ASSUME state # "EXPIRED"
        PROVE  row.exp <= exp /\ \A i \in DOMAIN access : access[i].exp <= exp
    BY <1>3, <1>5, <1>6 DEF Expiries
  <1>7. ASSUME NEW p \in Process PROVE Dated(p)'
    <2>1. Dated(p)
      BY DEF Expiries
    <2>2. job[p].exp \in Int /\ job[p].want \in Int
      BY <1>4, <2>1 DEF Dated
    <2> QED
      BY <1>0, <1>3, <2>1, <2>2 DEF Dated
  <1> QED
    BY <1>0, <1>2, <1>6, <1>7 DEF Expiries

(* A change of the store's state or expiry: nobody carries it yet and the  *)
(* row was not given it, so it is owed or lost.                            *)
LEMMA MoveChanges ==
    ASSUME ServedInv, NEW state, NEW exp, NEW kind \in {"STATE", "REVOKED"},
           StoreMove(state, exp, kind)
    PROVE  \E b \in 1 .. store'.n : SinceChange(b)'
  <1>0. /\ Typed /\ UNCHANGED <<job, newest>>
        /\ \A p \in Process : Sound(p)
    BY DEF ServedInv, StoreMove
  <1>1. PICK b \in Nat : b = store.n + 1
    BY <1>0, Numbers DEF Typed
  <1>2. store'.n = b /\ b \in 1 .. store'.n
    BY <1>0, <1>1, Numbers DEF StoreMove, Typed
  <1>3. ASSUME NEW p \in Process PROVE Fresh(p, b)'
    <2>1. Carries(p)' => Carries(p)
      BY <1>0 DEF Carries, At
    <2>2. Carries(p) => job[p].n \in 1 .. store.n
      BY <1>0 DEF Sound
    <2>3. store.n \in Nat
      BY <1>0, Numbers DEF Typed
    <2>4. Carries(p)' => ~(job[p].n >= b)
      BY <1>1, <2>1, <2>2, <2>3
    <2> QED
      BY <1>0, <2>4 DEF Fresh
  <1>4. ~(newest' >= b)
    BY <1>0, <1>1, Numbers DEF Typed
  <1>5. Owing(b)'
    <2>1. PICK m : m = [n |-> b, kind |-> kind]
      OBVIOUS
    <2>2. m.kind # "VOIDED" /\ m.n >= b
      BY <2>1
    <2>3. m \in inbox' \/ lost' > 0
      BY <1>0, <1>1, <2>1, Numbers DEF StoreMove, Typed
    <2> QED
      BY <2>2, <2>3 DEF Owing
  <1>6. SinceChange(b)'
    BY <1>3, <1>4, <1>5 DEF SinceChange
  <1> QED
    BY <1>2, <1>6

(* Time and Google. *)
LEMMA StoreWorld ==
    ASSUME IInv, ServedInv, ServedInv', StoreInv, Tick \/ StoreStep
    PROVE  StoreInv'
  <1>0. /\ Typed /\ Typed' /\ Expiries
    BY DEF ServedInv, StoreInv
  <1>b. PICK b \in 1 .. store.n : SinceChange(b)
    BY DEF StoreInv
  <1>n. store.exp \in Time /\ store.exp \in Nat /\ store.exp <= store.exp
    BY <1>0, NullDate
  <1>c. clock \in Nat /\ clock \in Time /\ clock + Period \in Time /\ Period \in Nat
    BY <1>0, Numbers DEF Typed, Time
  <1>s. store.state \in StoreState
    BY <1>0 DEF Typed
  <1>1. CASE Tick
    <2>1. /\ clock' = clock + 1
          /\ UNCHANGED <<store, inbox, row, access, job, rowLock, syncLock, lost,
                         fails, newest, skewed, unsynced, untold>>
      BY <1>1 DEF Tick
    <2>2. Expiries'
      <3>1. store.exp <= clock' + Period /\ (store.exp <= clock => store.exp <= clock')
        BY <1>0, <1>n, <1>c, <2>1 DEF Expiries
      <3>2. \A p \in Process : Dated(p)'
        BY <1>0, <2>1 DEF Expiries, Dated
      <3> QED
        BY <1>0, <2>1, <3>1, <3>2 DEF Expiries
    <2>3. Mirrors => Mirrors'
      <3>1. store.exp > clock' => store.exp > clock
        BY <1>n, <1>c, <2>1
      <3> QED
        BY <2>1, <3>1 DEF Mirrors
    <2>4. SinceChange(b)'
      BY <1>b, <2>1, <2>3 DEF SinceChange, Fresh, Carries, Latest, Owing, At
    <2> QED
      BY <2>1, <2>2, <2>4 DEF StoreInv
  <1>2. CASE Charge
    <2>1. StoreMove("ACTIVE", clock + Period, "STATE") /\ store.state # "EXPIRED"
      BY <1>2 DEF Charge
    <2>2. clock + Period <= clock + Period /\ store.exp <= clock + Period
      BY <1>0, <1>c DEF Expiries
    <2>3. Expiries'
      BY <1>0, <1>c, <2>1, <2>2, MoveExpiries DEF StoreState
    <2> QED
      BY <2>1, <2>3, MoveChanges DEF StoreInv
  <1>3. CASE Lapse
    <2>1. PICK next \in StoreState : StoreMove(next, store.exp, "STATE")
      BY <1>3 DEF Lapse, StoreState
    <2>2. store.exp <= clock /\ store.state # "EXPIRED" /\ store.exp <= clock + Period
      BY <1>0, <1>3 DEF Lapse, Expiries
    <2>3. Expiries'
      BY <1>0, <1>n, <2>1, <2>2, MoveExpiries
    <2> QED
      BY <2>1, <2>3, MoveChanges DEF StoreInv
  <1>4. CASE Revoke
    <2>1. StoreMove("EXPIRED", clock, "REVOKED")
      BY <1>4 DEF Revoke
    <2>2. clock <= clock + Period
      BY <1>c
    <2>3. Expiries'
      BY <1>0, <1>c, <2>1, <2>2, MoveExpiries DEF StoreState
    <2> QED
      BY <2>1, <2>3, MoveChanges DEF StoreInv
  <1>5. CASE Void
    <2>1. StoreMove(store.state, store.exp, "VOIDED")
      BY <1>5 DEF Void
    <2>2. Expiries'
      BY <1>0, <1>n, <1>s, <2>1, MoveExpiries DEF Expiries
    <2>3. /\ store'.state = store.state /\ store'.exp = store.exp /\ store'.n = store.n + 1
          /\ UNCHANGED <<clock, row, access, job, newest, skewed>> /\ inbox \subseteq inbox'
      BY <2>1 DEF StoreMove
    <2>4. lost <= lost' /\ newest <= newest' /\ b \in 1 .. store'.n
      BY <1>0, <2>1, <2>3, Numbers DEF StoreMove, Typed
    <2>5. Owing(b)'
      BY <1>0, <1>b, <2>3, <2>4, OwingStays DEF SinceChange
    <2>6. SinceChange(b)'
      BY <1>b, <2>3, <2>5 DEF SinceChange, Fresh, Carries, Latest, Mirrors, At
    <2> QED
      BY <2>2, <2>4, <2>6 DEF StoreInv
  <1> QED
    BY <1>1, <1>2, <1>3, <1>4, <1>5 DEF StoreStep

(* Every step keeps the third invariant. *)
LEMMA StoreNext ==
    ASSUME IInv, ServedInv, ServedInv', StoreInv, [Next]_vars
    PROVE  StoreInv'
  <1>1. CASE UNCHANGED vars
    <2>1. PICK b \in 1 .. store.n : SinceChange(b)
      BY DEF StoreInv
    <2>2. SinceChange(b)' /\ b \in 1 .. store'.n
      BY <1>1, <2>1 DEF vars, SinceChange, Fresh, Carries, Latest, Mirrors, Owing, At
    <2>3. Expiries'
      BY <1>1 DEF vars, StoreInv, Expiries, Dated
    <2> QED
      BY <2>2, <2>3 DEF StoreInv
  <1>2. CASE Tick \/ StoreStep
    BY <1>2, StoreWorld
  <1>3. ASSUME NEW w \in Worker, WorkerStep(w) PROVE StoreInv'
    BY <1>3, StoreFetch, StoreStamp, StoreWorkerWrites, StoreGrants DEF WorkerStep
  <1>4. CASE SweepStep
    BY <1>4, StoreSweep
  <1>5. CASE ReconStep
    BY <1>5, StoreRecon
  <1>6. CASE Heal
    BY <1>6, Names, StoreSyncRead DEF Heal
  <1>7. ASSUME NEW p \in Process,
               SyncRead(p) \/ SyncApply(p) \/ SyncFail(p) \/ Crash(p)
        PROVE  StoreInv'
    BY <1>7, StoreSyncRead, StoreSyncApply, StoreDropped DEF SyncRead
  <1> QED
    BY <1>1, <1>2, <1>3, <1>4, <1>5, <1>6, <1>7 DEF Next

(* The initial state: the first notification is owed. *)
LEMMA InitStore == Init => StoreInv
  <1> SUFFICES ASSUME Init PROVE StoreInv
    OBVIOUS
  <1>1. \A p \in Process : job[p] = Idle
    BY DEF Init
  <1>2. Idle.at = "idle" /\ Idle.exp = Null /\ Idle.want = Null
    BY DEF Idle
  <1>3. /\ store.state = "ACTIVE" /\ store.exp = Period /\ store.n = 1 /\ clock = 0
        /\ row.exp = Null /\ DOMAIN access = {} /\ newest = 0
        /\ inbox = {[n |-> 1, kind |-> "STATE"]}
    BY DEF Init, NoRow
  <1>4. Period \in Nat /\ Null <= Period /\ Period <= 0 + Period
    BY Numbers
  <1>5. \A p \in Process : Dated(p)
    BY <1>1, <1>2, <1>3, <1>4 DEF Dated
  <1>6. Expiries
    BY <1>3, <1>4, <1>5 DEF Expiries
  <1>7. \A p \in Process : Fresh(p, 1)
    BY <1>1, <1>2 DEF Fresh, Carries, At
  <1>8. Owing(1)
    BY <1>3 DEF Owing
  <1>9. SinceChange(1)
    BY <1>3, <1>7, <1>8 DEF SinceChange
  <1> QED
    BY <1>3, <1>6, <1>9 DEF StoreInv

(* The third invariant: the row follows the store. *)
THEOREM EntitlementStoreInvariant == Spec => []StoreInv
  <1>1. Init => StoreInv
    BY InitStore
  <1>2. IInv /\ ServedInv /\ (IInv /\ ServedInv)' /\ StoreInv /\ [Next]_vars => StoreInv'
    BY StoreNext
  <1> QED
    BY <1>1, <1>2, EntitlementServedInvariant, PTL DEF Spec

(* Every notification processed, none lost, and no write that overtook a   *)
(* newer one the last: what Google reports as paid is served, and what it  *)
(* holds, pauses or ended is not, whatever the order of deliveries, the    *)
(* retries, the crashes and the sweeps in between (handlers that refetch   *)
(* the live state, and the transition guard).                              *)
THEOREM EntitlementServedFollowsStore == Spec => []ServedFollowsStore
  <1>1. IInv /\ ServedInv /\ StoreInv /\ ServedFollowsRow => ServedFollowsStore
    <2> SUFFICES ASSUME IInv, ServedInv, StoreInv, ServedFollowsRow, Settled, lost = 0,
                        ~skewed, row.status \notin Terminal
                 PROVE  /\ store.state = "ACTIVE" /\ store.exp > clock => Served
                        /\ store.state \in {"ON_HOLD", "PAUSED", "EXPIRED"} => ~Served
      BY DEF ServedFollowsStore
    <2>0. Typed /\ inbox = {} /\ skewed = FALSE
      BY DEF ServedInv, Settled, Typed
    <2>1. PICK b \in 1 .. store.n : SinceChange(b)
      BY DEF StoreInv
    <2>2. newest >= b
      BY <2>0, <2>1 DEF SinceChange, Owing
    <2>3. Mirrors
      BY <2>0, <2>1, <2>2 DEF SinceChange
    <2>4. store.state = "ACTIVE" /\ store.exp > clock => Served
      BY <2>3 DEF Mirrors, ServedFollowsRow
    <2>5. store.state = "EXPIRED" => ~Served
      BY <2>3 DEF Mirrors, ServedFollowsRow
    <2>6. ASSUME store.state \in {"ON_HOLD", "PAUSED"} PROVE ~Served
      <3>1. store.exp <= clock /\ \A i \in DOMAIN access : access[i].exp <= store.exp
        BY <2>6 DEF StoreInv, Expiries
      <3>2. clock \in Int /\ store.exp \in Int /\ \A i \in DOMAIN access : access[i].exp \in Int
        <4>1. ASSUME NEW a \in Access PROVE a.exp \in Time \cup {Null}
          BY DEF Access
        <4>2. \A i \in DOMAIN access : access[i] \in Access
          BY <2>0 DEF Typed
        <4>3. \A e \in Time \cup {Null} : e \in Int
          BY Numbers
        <4>4. clock \in Int /\ store.exp \in Int
          BY <2>0, NullDate, Numbers DEF Typed
        <4> QED
          BY <4>1, <4>2, <4>3, <4>4
      <3>3. \A i \in DOMAIN access : ~(access[i].exp > clock)
        BY <3>1, <3>2
      <3> QED
        BY <3>3 DEF Served, findActiveAccess
    <2> QED
      BY <2>4, <2>5, <2>6
  <1> QED
    BY <1>1, EntitlementServedInvariant, EntitlementStoreInvariant,
       EntitlementServedFollowsRow, PTL

================================================================================
