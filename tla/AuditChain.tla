----------------------------- MODULE AuditChain -----------------------------
(***************************************************************************)
(* The audit hash chain of one project (lib/audit.ts) and the retention    *)
(* that cuts its head off at a checkpoint                                  *)
(* (services/audit-retention/checkpoint.ts).  A row's hash is its place    *)
(* among the committed rows: hashes of different rows differ.  Rows from   *)
(* before the chain, which have no hash, are left out.                     *)
(***************************************************************************)
EXTENDS Integers, FiniteSets, FiniteSetsExt, Sequences

CONSTANTS
  Writer,                        \* transactions that write an audit row
  Autocommit,                    \* those that pass audit() a plain connection as callerTx
  Sweeper,                       \* runs of the retention sweep, more than one when a job stalls
  Days,                          \* the retention window
  AUDIT_PROOF_MAX_ENTRIES,
  CHECKPOINT_DELETE_BATCH_SIZE,
  MaxRows, MaxTime               \* bounds: committed rows, the clock

ChainAssumption ==
  /\ Writer \cap Sweeper = {} /\ Autocommit \subseteq Writer
  /\ AUDIT_PROOF_MAX_ENTRIES \in Nat \ {0}
  /\ CHECKPOINT_DELETE_BATCH_SIZE \in Nat \ {0}
  /\ Days \in Nat \ {0} /\ MaxRows \in Nat /\ MaxTime \in Nat

VARIABLES
  written,   \* every row ever committed: [prevHash, createdAt]
  live,      \* audit_logs
  stored,    \* the proof bundles in object storage
  tx,        \* transactions that wrote or will write an audit row
  sweep,     \* checkpointAndTruncate
  now

vars == <<written, live, stored, tx, sweep, now>>

Null == 0

NoTx == [pc |-> "none", prevHash |-> Null, createdAt |-> 0]

Idle == [pc |-> "idle", cutoff |-> 0, entries |-> {}]

TypeOK ==
  LET Id == 1..MaxRows
      Time == 0..(MaxTime + MaxRows) IN
  /\ written \in Seq([prevHash : Id \cup {Null}, createdAt : Time]) /\ Len(written) <= MaxRows
  /\ live \subseteq DOMAIN written
  /\ stored \subseteq SUBSET DOMAIN written
  /\ tx \in [Writer \cup Sweeper ->
               [pc : {"none", "tip", "inserted"}, prevHash : Id \cup {Null}, createdAt : Time]]
  /\ sweep \in [Sweeper -> [pc : {"idle", "export", "put", "delete", "checkpoint"},
                            cutoff : 0..MaxTime, entries : SUBSET Id]]
  /\ now \in 0..MaxTime

Init ==
  /\ written = <<>> /\ live = {} /\ stored = {}
  /\ tx = [p \in Writer \cup Sweeper |-> NoTx]
  /\ sweep = [s \in Sweeper |-> Idle]
  /\ now = 0

At(r) == written[r].createdAt

\* ORDER BY createdAt, LIMIT n: rows of equal time come in any order.
Oldest(S, n, E) ==
  /\ E \subseteq S /\ Cardinality(E) = Min({n, Cardinality(S)})
  /\ \A r \in E, q \in S \ E : At(r) <= At(q)
-----------------------------------------------------------------------------
(* audit() *)

\* The advisory lock is held to the end of the transaction, which on a plain
\* connection is the locking statement itself.
LockIsFree == \A p \in DOMAIN tx \ Autocommit : tx[p].pc = "none"

\* The newest row, or none.
Tip == IF live = {} THEN {Null} ELSE {r \in live : \A q \in live : At(q) <= At(r)}

\* The lock is taken and the tip read.
Lock(p) ==
  /\ tx[p].pc = "none" /\ LockIsFree
  /\ p \in Sweeper => sweep[p].pc = "checkpoint"
  /\ Len(written) < MaxRows
  /\ \E r \in Tip :
       tx' = [tx EXCEPT ![p] = [pc |-> "tip", prevHash |-> r,
                                createdAt |-> IF r = Null THEN 0 ELSE At(r) + 1]]
  /\ UNCHANGED <<written, live, stored, sweep, now>>

\* "never stamp a time at or before the current tip's"
Insert(p) ==
  /\ tx[p].pc = "tip"
  /\ tx' = [tx EXCEPT ![p].pc = "inserted", ![p].createdAt = Max({now, @})]
  /\ UNCHANGED <<written, live, stored, sweep, now>>

\* The transaction may have been the caller's, and may have done more since.
\* The checkpoint's row is the last thing a sweep does.
Commit(p) ==
  /\ tx[p].pc = "inserted"
  /\ written' = Append(written, [prevHash |-> tx[p].prevHash, createdAt |-> tx[p].createdAt])
  /\ live' = live \cup {Len(written')}
  /\ tx' = [tx EXCEPT ![p] = NoTx]
  /\ sweep' = [s \in Sweeper |-> IF s = p THEN Idle ELSE sweep[s]]
  /\ UNCHANGED <<stored, now>>

Rollback(p) ==
  /\ p \in Writer /\ tx[p].pc # "none"
  /\ tx' = [tx EXCEPT ![p] = NoTx]
  /\ UNCHANGED <<written, live, stored, sweep, now>>

audit(p) == Lock(p) \/ Insert(p) \/ Commit(p)
-----------------------------------------------------------------------------
(* checkpointAndTruncate *)

Goto(s, pc) == sweep' = [sweep EXCEPT ![s].pc = pc]

\* The cutoff is the sweep's own time, and other projects may come first.
Start(s) ==
  /\ sweep[s].pc = "idle" /\ now >= Days
  /\ sweep' = [sweep EXCEPT ![s] = [Idle EXCEPT !.pc = "export", !.cutoff = now - Days]]
  /\ UNCHANGED <<written, live, stored, tx, now>>

Aged(s) == {r \in live : At(r) <= sweep[s].cutoff}

\* Nothing to checkpoint, or the oldest rows up to the cutoff as a bundle.
listAuditProofRows(s) ==
  /\ sweep[s].pc = "export"
  /\ \E E \in SUBSET live :
       /\ Oldest(Aged(s), AUDIT_PROOF_MAX_ENTRIES, E)
       /\ sweep' = [sweep EXCEPT ![s] =
                      IF E = {} THEN Idle ELSE [@ EXCEPT !.pc = "put", !.entries = E]]
  /\ UNCHANGED <<written, live, stored, tx, now>>

putObject(s) ==
  /\ sweep[s].pc = "put"
  /\ stored' = stored \cup {sweep[s].entries}
  /\ Goto(s, "delete")
  /\ UNCHANGED <<written, live, tx, now>>

\* (Mutant first: the rows that match the cutoff when the delete runs.)
ToDeleteByCutoff(s) == Aged(s)

\* "by the EXACT ids just exported and stored"
ToDelete(s) == sweep[s].entries

\* One batch, in the order of the export; the row another run deleted is no
\* loss.
deleteAuditLogRowsByIds(s) ==
  /\ sweep[s].pc = "delete"
  /\ \E E \in SUBSET ToDelete(s) :
       /\ Oldest(ToDelete(s), CHECKPOINT_DELETE_BATCH_SIZE, E)
       /\ live' = live \ E
       /\ sweep' = [sweep EXCEPT ![s].entries = @ \ E,
                                 ![s].pc = IF ToDelete(s) \ E = {} THEN "checkpoint" ELSE @]
  /\ UNCHANGED <<written, stored, tx, now>>

\* A call throws, or the process dies: its transaction is rolled back, what
\* was stored and deleted stays so, and the next sweep starts anew.
SweepFails(s) ==
  /\ sweep[s].pc \in {"put", "delete", "checkpoint"}
  /\ sweep' = [sweep EXCEPT ![s] = Idle]
  /\ tx' = [tx EXCEPT ![s] = NoTx]
  /\ UNCHANGED <<written, live, stored, now>>

checkpointAndTruncate(s) ==
  \/ Start(s) \/ listAuditProofRows(s) \/ putObject(s)
  \/ deleteAuditLogRowsByIds(s) \/ SweepFails(s)

Tick == now < MaxTime /\ now' = now + 1 /\ UNCHANGED <<written, live, stored, tx, sweep>>

Next ==
  \/ \E p \in Writer \cup Sweeper : audit(p)
  \/ \E p \in Writer : Rollback(p)
  \/ \E s \in Sweeper : checkpointAndTruncate(s)
  \/ Tick

Spec == Init /\ [][Next]_vars
-----------------------------------------------------------------------------
(* Properties *)

\* verifyAuditBundle: in order of time, each row names the one before it.
Verifies(S) ==
  \A r, q \in S :
    /\ r # q => At(r) # At(q)
    /\ (At(r) < At(q) /\ \A x \in S : At(x) <= At(r) \/ At(x) >= At(q))
         => written[q].prevHash = r

\* "what gets deleted is provably identical to what was just exported and
\* stored" (checkpointAndTruncate): every row ever committed is in the table or
\* in a stored bundle; the table and every bundle verify, however writers,
\* overlapping sweeps, partial deletes and failures interleave; and a link of the
\* whole history is missing only where a checkpoint had emptied the table.
HistoryIsProvable ==
  /\ DOMAIN written = live \cup UNION stored
  /\ Verifies(live) /\ \A b \in stored : Verifies(b)
  /\ \A r \in DOMAIN written :
       \/ written[r].prevHash = r - 1
       \/ written[r].prevHash = Null /\ live \cap 1..(r - 1) = {}
=============================================================================
