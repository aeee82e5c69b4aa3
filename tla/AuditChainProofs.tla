--------------------------- MODULE AuditChainProofs ---------------------------
(***************************************************************************)
(* The audit history stays provable, for every number of writers and of    *)
(* overlapping sweeps, every retention window, bundle and batch size, as   *)
(* long as every callerTx is a transaction.                                *)
(***************************************************************************)
EXTENDS AuditChain, TLAPS

Bound(n) == MaxTime + n

RowRec == [prevHash : Nat, createdAt : Nat]

TxRec == [pc : {"none", "tip", "inserted"}, prevHash : 0..MaxRows,
          createdAt : 0..(MaxTime + MaxRows)]

SweepRec == [pc : {"idle", "export", "put", "delete", "checkpoint"}, cutoff : 0..MaxTime,
             entries : SUBSET (1..MaxRows)]

Shape ==
  /\ written \in Seq(RowRec)
  /\ Len(written) <= MaxRows
  /\ live \subseteq DOMAIN written
  /\ stored \subseteq SUBSET DOMAIN written
  /\ tx \in [Writer \cup Sweeper -> TxRec]
  /\ sweep \in [Sweeper -> SweepRec]
  /\ now \in 0..MaxTime

\* Time and place among the committed rows agree, and no clock runs ahead of
\* the rows written.
RowsInOrder ==
  \A q \in DOMAIN written :
    /\ At(q) <= Bound(q - 1) /\ written[q].prevHash < q
    /\ \A r \in DOMAIN written : r < q => At(r) < At(q)

\* What a transaction knows is the newest row ever written, unless the table
\* was emptied before it looked, and the time it will stamp is later than any.
KnowsTip(t) ==
  /\ t.prevHash = Len(written) \/ (t.prevHash = Null /\ live = {})
  /\ Len(written) < MaxRows
  /\ t.createdAt <= Bound(Len(written))
  /\ \/ t.prevHash = Null /\ t.pc = "tip"
     \/ \A r \in DOMAIN written : At(r) < t.createdAt

\* The advisory lock has one holder.
HolderHasTip ==
  \A p \in Writer \cup Sweeper : tx[p].pc # "none" =>
    /\ \A o \in Writer \cup Sweeper : tx[o].pc # "none" => o = p
    /\ KnowsTip(tx[p])

\* The table is what is left of the history after its head was cut off.
LiveIsTail == \A r \in live : \A q \in DOMAIN written : r < q => q \in live

\* The head is older than the retention window, and stored.
HeadIsStored ==
  \A r \in DOMAIN written : r \in live \/ (At(r) + Days <= now /\ r \in UNION stored)

\* A link is missing only where a checkpoint had emptied the table.
LinksHold ==
  \A r \in DOMAIN written :
    \/ written[r].prevHash = r - 1
    \/ written[r].prevHash = Null /\ live \cap 1..(r - 1) = {}

\* A stretch of the history whose links are whole.
Stretch(S) ==
  /\ \A r, q \in S : \A x \in r..q : x \in S
  /\ \A r \in S : r + 1 \in S => written[r + 1].prevHash = r

BundlesAreStretches == \A b \in stored : Stretch(b)

\* What a sweep is about to store or delete is a head of the table: no row
\* that is older than one of its entries is left behind.
HeadEntries(x) ==
  /\ x.pc \in {"export", "put", "delete"} => x.cutoff + Days <= now
  /\ x.pc \in {"put", "delete"} =>
       /\ x.entries \subseteq DOMAIN written
       /\ \A e \in x.entries :
            At(e) <= x.cutoff /\ \A q \in live : q < e => q \in x.entries
  /\ x.pc = "put" => Stretch(x.entries)
  /\ x.pc = "delete" => x.entries \subseteq UNION stored

EntriesAreHead == \A s \in Sweeper : HeadEntries(sweep[s])

Inv ==
  /\ Shape /\ RowsInOrder /\ HolderHasTip /\ LiveIsTail /\ HeadIsStored /\ LinksHold
  /\ BundlesAreStretches /\ EntriesAreHead
-----------------------------------------------------------------------------
\* The greater of two times is one of them, and not before either.
LEMMA MaxOfTwo ==
  ASSUME NEW a \in Nat, NEW b \in Nat
  PROVE  Max({a, b}) \in {a, b} /\ a <= Max({a, b}) /\ b <= Max({a, b})
<1>1. \E x \in {a, b} : \A y \in {a, b} : x >= y
  <2>1. CASE a >= b
    BY <2>1
  <2>2. CASE b >= a
    BY <2>2
  <2> QED BY <2>1, <2>2
<1> QED BY <1>1 DEF Max

\* Nobody is at work at the start.
LEMMA IdleRecs ==
  ASSUME ChainAssumption
  PROVE  NoTx \in TxRec /\ NoTx.pc = "none" /\ Idle \in SweepRec /\ HeadEntries(Idle)
BY DEF NoTx, TxRec, Idle, SweepRec, HeadEntries, Null, ChainAssumption

\* The empty table with its empty store is a provable history.
LEMMA InitInv == ASSUME ChainAssumption, Init PROVE Inv
<1>1. Shape
  BY IdleRecs DEF Init, Shape, ChainAssumption
<1>2. RowsInOrder /\ HolderHasTip /\ LiveIsTail /\ HeadIsStored /\ LinksHold /\ BundlesAreStretches
  BY IdleRecs DEF Init, RowsInOrder, HolderHasTip, LiveIsTail, HeadIsStored, LinksHold,
                  BundlesAreStretches
<1>3. EntriesAreHead
  BY IdleRecs DEF Init, EntriesAreHead
<1> QED BY <1>1, <1>2, <1>3 DEF Inv

\* The rows, the table and the bundles do not change.
Rest == RowsInOrder /\ LiveIsTail /\ HeadIsStored /\ LinksHold /\ BundlesAreStretches

\* What is said of the table, the chain and the bundles needs only them and the
\* clock.
LEMMA RestUnchanged ==
  ASSUME Inv, UNCHANGED <<written, live, stored, now>>
  PROVE  /\ Rest' /\ (\A t : KnowsTip(t)' <=> KnowsTip(t))
         /\ \A x : HeadEntries(x)' <=> HeadEntries(x)
<1> USE DEF Inv, At, Stretch
<1>1. RowsInOrder' /\ LiveIsTail' /\ HeadIsStored'
  BY DEF RowsInOrder, LiveIsTail, HeadIsStored
<1>2. LinksHold' /\ BundlesAreStretches'
  BY DEF LinksHold, BundlesAreStretches
<1>3. \A t : KnowsTip(t)' <=> KnowsTip(t)
  BY DEF KnowsTip
<1>4. \A x : HeadEntries(x)' <=> HeadEntries(x)
  BY DEF HeadEntries
<1> QED BY <1>1, <1>2, <1>3, <1>4 DEF Rest

\* Transactions move, and sweeps too.
LEMMA QuietStep ==
  ASSUME Inv, UNCHANGED <<written, live, stored, now>>,
         tx' \in [Writer \cup Sweeper -> TxRec], HolderHasTip',
         sweep' \in [Sweeper -> SweepRec], \A s \in Sweeper : HeadEntries(sweep'[s])
  PROVE  Inv'
<1>1. Shape'
  BY DEF Inv, Shape
<1>2. EntriesAreHead'
  BY RestUnchanged DEF EntriesAreHead
<1> QED BY <1>1, <1>2, RestUnchanged DEF Inv, Rest

\* A transaction that ends leaves the lock.
LEMMA EndTx ==
  ASSUME ChainAssumption, Inv, NEW p \in Writer \cup Sweeper, tx' = [tx EXCEPT ![p] = NoTx],
         UNCHANGED <<written, live, stored, now>>
  PROVE  tx' \in [Writer \cup Sweeper -> TxRec] /\ HolderHasTip'
<1>1. tx' \in [Writer \cup Sweeper -> TxRec]
  BY IdleRecs DEF Inv, Shape
<1>2. \A o \in Writer \cup Sweeper : tx'[o].pc # "none" => tx'[o] = tx[o] /\ tx[o].pc # "none"
  BY IdleRecs DEF Inv, Shape
<1>3. HolderHasTip'
  BY <1>2, RestUnchanged DEF HolderHasTip, Inv
<1> QED BY <1>1, <1>3

\* The holder of the lock learns the tip, or stamps its row.
LEMMA HolderStep ==
  ASSUME Inv, NEW p \in Writer \cup Sweeper, NEW t \in TxRec, tx' = [tx EXCEPT ![p] = t],
         UNCHANGED <<written, live, stored, now>>, KnowsTip(t),
         \A o \in Writer \cup Sweeper : tx[o].pc # "none" => o = p
  PROVE  tx' \in [Writer \cup Sweeper -> TxRec] /\ HolderHasTip'
<1>1. /\ tx' \in [Writer \cup Sweeper -> TxRec] /\ tx'[p] = t
      /\ \A o \in (Writer \cup Sweeper) \ {p} : tx'[o] = tx[o]
  BY DEF Inv, Shape
<1>2. KnowsTip(t)'
  BY RestUnchanged
<1> QED BY <1>1, <1>2 DEF HolderHasTip

\* Rows are counted from 1, and have a time and a predecessor.
LEMMA Rows ==
  ASSUME Shape
  PROVE  /\ DOMAIN written = 1..Len(written) /\ Len(written) \in Nat
         /\ \A q \in DOMAIN written : At(q) \in Nat /\ written[q].prevHash \in Nat
<1>1. \A q \in DOMAIN written : written[q] \in RowRec
  BY DEF Shape
<1> QED BY <1>1 DEF Shape, At, RowRec

\* The newest row of the table is the newest of the history.
LEMMA TipIsNewest ==
  ASSUME Inv, NEW r \in Tip
  PROVE  \/ r = Null /\ live = {}
         \/ r # Null /\ r = Len(written) /\ r \in DOMAIN written
<1>1. CASE live = {}
  BY <1>1 DEF Tip
<1>2. CASE live # {}
  <2>1. r \in live /\ \A q \in live : At(q) <= At(r)
    BY <1>2 DEF Tip
  <2>2. /\ DOMAIN written = 1..Len(written) /\ Len(written) \in Nat /\ r \in DOMAIN written
        /\ \A q \in DOMAIN written : At(q) \in Nat
    BY <2>1, Rows DEF Inv, Shape
  <2>3. r < Len(written) => Len(written) \in live /\ At(r) < At(Len(written))
    BY <2>1, <2>2 DEF Inv, LiveIsTail, RowsInOrder
  <2> QED BY <2>1, <2>2, <2>3 DEF Null
<1> QED BY <1>1, <1>2

\* A transaction that takes the advisory lock reads the tip no other can append
\* to.
LEMMA LockInv ==
  ASSUME ChainAssumption, Autocommit = {}, Inv, NEW p \in Writer \cup Sweeper, Lock(p)
  PROVE  Inv'
<1>1. PICK r \in Tip : tx' = [tx EXCEPT ![p] = [pc |-> "tip", prevHash |-> r,
                                    createdAt |-> IF r = Null THEN 0 ELSE At(r) + 1]]
  BY DEF Lock
<1> DEFINE c == IF r = Null THEN 0 ELSE At(r) + 1
           t == [pc |-> "tip", prevHash |-> r, createdAt |-> c]
<1>2. UNCHANGED <<written, live, stored, sweep, now>> /\ Len(written) < MaxRows
  BY DEF Lock
<1>3. /\ DOMAIN written = 1..Len(written) /\ Len(written) \in Nat
      /\ \A q \in DOMAIN written : At(q) \in Nat
  BY Rows DEF Inv
<1>4. r \in Nat /\ c \in Nat /\ c <= Bound(Len(written))
  <2>1. CASE r = Null
    BY <1>3, <2>1 DEF Null, Bound, ChainAssumption
  <2>2. CASE r # Null
    BY <1>3, <2>2, TipIsNewest DEF Bound, ChainAssumption, Inv, RowsInOrder
  <2> QED BY <2>1, <2>2
<1>5. r = Null \/ \A q \in DOMAIN written : At(q) < c
  <2> SUFFICES ASSUME r # Null, NEW q \in DOMAIN written PROVE At(q) < c
    OBVIOUS
  <2>1. r = Len(written) /\ r \in DOMAIN written
    BY TipIsNewest
  <2>2. At(q) <= At(r)
    BY <1>3, <2>1 DEF Inv, RowsInOrder
  <2> QED BY <1>3, <2>1, <2>2
<1>6. t \in TxRec /\ t.pc = "tip" /\ t.prevHash = r /\ t.createdAt = c
  <2>1. r \in 0..MaxRows /\ c \in 0..(MaxTime + MaxRows)
    <3> HIDE DEF c
    <3>1. r = 0 \/ r = Len(written)
      BY TipIsNewest DEF Null
    <3>2. MaxTime \in Nat /\ MaxRows \in Nat /\ Len(written) \in Nat /\ Len(written) < MaxRows
      BY <1>2, <1>3 DEF ChainAssumption
    <3>3. c \in Nat /\ c <= MaxTime + Len(written)
      BY <1>4 DEF Bound
    <3>4. r \in 0..MaxRows
      BY <3>1, <3>2
    <3> QED BY <3>2, <3>3, <3>4
  <2> HIDE DEF c
  <2> QED BY <2>1 DEF TxRec
<1>7. tx' = [tx EXCEPT ![p] = t]
  BY <1>1
<1> HIDE DEF t, c
<1>8. KnowsTip(t)
  BY <1>2, <1>4, <1>5, <1>6, TipIsNewest DEF KnowsTip
<1>9. tx' \in [Writer \cup Sweeper -> TxRec] /\ HolderHasTip'
  <2>1. \A o \in Writer \cup Sweeper : tx[o].pc = "none"
    BY DEF Lock, LockIsFree, Inv, Shape
  <2> QED BY <1>2, <1>6, <1>7, <1>8, <2>1, HolderStep
<1> QED BY <1>2, <1>9, QuietStep DEF Inv, Shape, EntriesAreHead

\* The INSERT takes its time: not before the tip's.
LEMMA InsertInv ==
  ASSUME ChainAssumption, Inv, NEW p \in Writer \cup Sweeper, Insert(p)
  PROVE  Inv'
<1> DEFINE c == Max({now, tx[p].createdAt})
           t == [tx[p] EXCEPT !.pc = "inserted", !.createdAt = c]
<1>1. /\ tx' = [tx EXCEPT ![p] = t] /\ tx[p].pc = "tip"
      /\ UNCHANGED <<written, live, stored, sweep, now>>
  BY DEF Insert
<1>2. /\ tx[p] \in TxRec /\ KnowsTip(tx[p])
      /\ \A o \in Writer \cup Sweeper : tx[o].pc # "none" => o = p
  BY <1>1 DEF Inv, Shape, HolderHasTip
<1>3. /\ DOMAIN written = 1..Len(written) /\ Len(written) \in Nat
      /\ \A q \in DOMAIN written : At(q) \in Nat
  BY Rows DEF Inv
<1>4. now \in Nat /\ now <= MaxTime /\ tx[p].createdAt \in Nat
  BY <1>2 DEF Inv, Shape, TxRec, ChainAssumption
<1>5. c \in Nat /\ now <= c /\ tx[p].createdAt <= c /\ c \in {now, tx[p].createdAt}
  BY <1>4, MaxOfTwo
<1> HIDE DEF c
<1>6. c <= Bound(Len(written)) /\ c \in 0..(MaxTime + MaxRows)
  BY <1>2, <1>3, <1>4, <1>5 DEF KnowsTip, Bound, ChainAssumption
<1>7. t \in TxRec /\ t.pc = "inserted" /\ t.prevHash = tx[p].prevHash /\ t.createdAt = c
  BY <1>2, <1>6 DEF TxRec
<1> HIDE DEF t
<1>8. \A q \in DOMAIN written : At(q) < c
  <2> SUFFICES ASSUME NEW q \in DOMAIN written PROVE At(q) < c
    OBVIOUS
  <2>1. CASE At(q) < tx[p].createdAt
    BY <1>3, <1>4, <1>5, <2>1
  <2>2. CASE ~(At(q) < tx[p].createdAt)
    <3>1. tx[p].prevHash = Null
      BY <2>2, <1>2 DEF KnowsTip
    <3>2. live = {}
      BY <1>2, <1>3, <3>1 DEF KnowsTip, Inv, Shape, Null
    <3>3. At(q) + Days <= now
      BY <3>2 DEF Inv, HeadIsStored
    <3> QED BY <1>3, <1>4, <1>5, <3>3 DEF ChainAssumption
  <2> QED BY <2>1, <2>2
<1>9. KnowsTip(t)
  BY <1>2, <1>6, <1>7, <1>8 DEF KnowsTip
<1>10. tx' \in [Writer \cup Sweeper -> TxRec] /\ HolderHasTip'
  BY <1>1, <1>2, <1>7, <1>9, HolderStep
<1> QED BY <1>1, <1>10, QuietStep DEF Inv, Shape, EntriesAreHead

\* A stretch is one whatever is committed later.
LEMMA StretchGrows ==
  ASSUME NEW S, S \subseteq DOMAIN written, Stretch(S),
         \A q \in DOMAIN written : written'[q] = written[q]
  PROVE  Stretch(S)'
BY DEF Stretch

\* The chain grows by the row whose predecessor is still its end.
LEMMA CommitInv ==
  ASSUME ChainAssumption, Inv, NEW p \in Writer \cup Sweeper, Commit(p)
  PROVE  Inv'
<1> DEFINE n == Len(written) + 1
           t == tx[p]
<1>1. /\ DOMAIN written = 1..Len(written) /\ Len(written) \in Nat
      /\ \A q \in DOMAIN written : At(q) \in Nat /\ written[q].prevHash \in Nat
  BY Rows DEF Inv
<1>2. /\ t \in TxRec /\ t.pc = "inserted" /\ KnowsTip(t)
      /\ \A o \in Writer \cup Sweeper : tx[o].pc # "none" => o = p
  BY DEF Commit, Inv, Shape, HolderHasTip
<1>3. /\ t.prevHash \in Nat /\ t.createdAt \in Nat
      /\ [prevHash |-> t.prevHash, createdAt |-> t.createdAt] \in RowRec
  BY <1>2 DEF TxRec, RowRec
<1>4. /\ written' \in Seq(RowRec) /\ Len(written') = n /\ DOMAIN written' = 1..n
      /\ \A q \in DOMAIN written : written'[q] = written[q]
      /\ written'[n] = [prevHash |-> t.prevHash, createdAt |-> t.createdAt]
  BY <1>1, <1>3 DEF Commit, Inv, Shape
<1>5. /\ written'[n].prevHash = t.prevHash /\ written'[n].createdAt = t.createdAt
      /\ \A q \in DOMAIN written : At(q)' = At(q)
  BY <1>4 DEF At
<1>6. live' = live \cup {n} /\ UNCHANGED <<stored, now>>
  BY <1>4 DEF Commit
<1>7. /\ n <= MaxRows /\ t.createdAt <= Bound(n - 1)
      /\ \A q \in DOMAIN written : At(q) < t.createdAt
      /\ t.prevHash = n - 1 \/ (t.prevHash = Null /\ live = {})
  BY <1>1, <1>2 DEF KnowsTip, ChainAssumption
<1> HIDE DEF n, t
<1>8. n \in Nat /\ n = Len(written) + 1 /\ DOMAIN written' = DOMAIN written \cup {n}
      /\ \A q \in DOMAIN written : q \in Nat /\ q < n
  BY <1>1, <1>4 DEF n
<1>9. /\ tx' \in [Writer \cup Sweeper -> TxRec]
      /\ \A o \in Writer \cup Sweeper : tx'[o].pc = "none"
  <2>1. tx' = [tx EXCEPT ![p] = NoTx]
    BY DEF Commit
  <2> QED BY <1>2, <2>1, IdleRecs DEF Inv, Shape
<1>10. /\ sweep' \in [Sweeper -> SweepRec]
       /\ \A s \in Sweeper : sweep'[s] = Idle \/ sweep'[s] = sweep[s]
  BY IdleRecs DEF Commit, Inv, Shape
<1>11. Shape'
  BY <1>4, <1>6, <1>7, <1>8, <1>9, <1>10 DEF Inv, Shape
<1>12. RowsInOrder'
  <2> SUFFICES ASSUME NEW q \in DOMAIN written'
               PROVE  /\ At(q)' <= Bound(q - 1) /\ written'[q].prevHash < q
                      /\ \A r \in DOMAIN written' : r < q => At(r)' < At(q)'
    BY DEF RowsInOrder, Bound
  <2>1. CASE q \in DOMAIN written
    BY <1>1, <1>4, <1>5, <1>8, <2>1 DEF Inv, RowsInOrder
  <2>2. CASE q = n
    BY <1>1, <1>3, <1>5, <1>7, <1>8, <2>2 DEF Null, At
  <2> QED BY <1>8, <2>1, <2>2
<1>13. HolderHasTip'
  BY <1>9 DEF HolderHasTip
<1>14. LiveIsTail' /\ HeadIsStored'
  BY <1>5, <1>6, <1>8 DEF Inv, Shape, LiveIsTail, HeadIsStored
<1>15. LinksHold'
  <2> SUFFICES ASSUME NEW r \in DOMAIN written'
               PROVE  \/ written'[r].prevHash = r - 1
                      \/ written'[r].prevHash = Null /\ live' \cap 1..(r - 1) = {}
    BY DEF LinksHold
  <2>1. CASE r \in DOMAIN written
    BY <1>4, <1>6, <1>8, <2>1 DEF Inv, LinksHold
  <2>2. CASE r = n
    BY <1>5, <1>6, <1>7, <1>8, <2>2
  <2> QED BY <1>8, <2>1, <2>2
<1>16. BundlesAreStretches'
  BY <1>4, <1>6, StretchGrows DEF Inv, Shape, BundlesAreStretches
<1>17. EntriesAreHead'
  <2> SUFFICES ASSUME NEW s \in Sweeper PROVE HeadEntries(sweep[s])'
    BY DEF EntriesAreHead
  <2>1. CASE sweep'[s] = Idle
    BY <2>1 DEF HeadEntries, Idle
  <2>2. CASE sweep'[s] = sweep[s]
    <3>1. HeadEntries(sweep[s])
      BY DEF Inv, EntriesAreHead
    <3>2. sweep[s].pc = "put" => Stretch(sweep[s].entries)
                                 /\ sweep[s].entries \subseteq DOMAIN written
      BY <3>1 DEF HeadEntries
    <3>3. sweep'[s].pc = "put" => Stretch(sweep[s].entries)'
      BY <1>4, <2>2, <3>2 DEF Stretch
    <3>4. sweep'[s].pc \in {"put", "delete"} =>
            /\ sweep'[s].entries \subseteq DOMAIN written'
            /\ \A e \in sweep'[s].entries :
                 At(e)' <= sweep'[s].cutoff /\ \A q \in live' : q < e => q \in sweep'[s].entries
      BY <1>5, <1>6, <1>8, <2>2, <3>1 DEF HeadEntries
    <3> QED BY <1>6, <2>2, <3>1, <3>3, <3>4 DEF HeadEntries
  <2> QED BY <1>10, <2>1, <2>2
<1> QED
  BY <1>11, <1>12, <1>13, <1>14, <1>15, <1>16, <1>17 DEF Inv
-----------------------------------------------------------------------------
(* The sweeps *)

\* A transaction that is rolled back leaves nothing.
LEMMA RollbackInv ==
  ASSUME ChainAssumption, Inv, NEW p \in Writer, Rollback(p)
  PROVE  Inv'
BY EndTx, QuietStep DEF Rollback, Inv, Shape, EntriesAreHead

\* A sweep moves while the table and the transactions rest.
LEMMA SweepStep ==
  ASSUME Inv, NEW s \in Sweeper, NEW x \in SweepRec, sweep' = [sweep EXCEPT ![s] = x],
         HeadEntries(x), UNCHANGED <<written, live, stored, tx, now>>
  PROVE  Inv'
<1>1. sweep' \in [Sweeper -> SweepRec] /\ \A o \in Sweeper : HeadEntries(sweep'[o])
  BY DEF Inv, Shape, EntriesAreHead
<1>2. HolderHasTip'
  BY RestUnchanged DEF Inv, HolderHasTip
<1> QED BY <1>1, <1>2, QuietStep DEF Inv, Shape

\* A sweep begins with nothing listed and its cutoff in the past.
LEMMA StartInv ==
  ASSUME ChainAssumption, Inv, NEW s \in Sweeper, Start(s)
  PROVE  Inv'
<1> DEFINE c == now - Days
           x == [Idle EXCEPT !.pc = "export", !.cutoff = c]
<1>1. c \in 0..MaxTime /\ c + Days <= now /\ sweep' = [sweep EXCEPT ![s] = x]
  BY DEF Start, ChainAssumption, Inv, Shape
<1> HIDE DEF c
<1>2. x \in SweepRec /\ x.pc = "export" /\ x.cutoff = c
  BY <1>1, IdleRecs DEF SweepRec
<1> HIDE DEF x
<1>3. HeadEntries(x)
  BY <1>1, <1>2 DEF HeadEntries
<1> QED BY <1>1, <1>2, <1>3, SweepStep DEF Start

\* The oldest rows of the table up to a time are a head of it, and a stretch.
LEMMA OldestIsHead ==
  ASSUME Inv, NEW s \in Sweeper, NEW n, NEW E, Oldest(Aged(s), n, E)
  PROVE  /\ E \subseteq live /\ Stretch(E)
         /\ \A e \in E : At(e) <= sweep[s].cutoff /\ \A q \in live : q < e => q \in E
<1>1. /\ DOMAIN written = 1..Len(written) /\ Len(written) \in Nat
      /\ \A q \in DOMAIN written : At(q) \in Nat /\ written[q].prevHash \in Nat
  BY Rows DEF Inv
<1>2. E \subseteq live /\ live \subseteq DOMAIN written /\ \A e \in E : At(e) <= sweep[s].cutoff
  BY DEF Oldest, Aged, Inv, Shape
<1>3. sweep[s].cutoff \in Nat
  BY DEF Inv, Shape, SweepRec
<1>4. ASSUME NEW e \in E, NEW q \in live, q < e
      PROVE  q \in E
  <2>1. At(q) < At(e)
    BY <1>2, <1>4 DEF Inv, RowsInOrder
  <2>2. q \in Aged(s)
    BY <1>1, <1>2, <1>3, <1>4, <2>1 DEF Aged
  <2> QED BY <1>1, <1>2, <2>1, <2>2 DEF Oldest
<1>5. \A r, q \in E : \A x \in r..q : x \in E
  <2> SUFFICES ASSUME NEW r \in E, NEW q \in E, NEW x \in r..q PROVE x \in E
    OBVIOUS
  <2>1. x \in live
    BY <1>1, <1>2 DEF Inv, LiveIsTail
  <2> QED BY <1>1, <1>2, <1>4, <2>1
<1>6. \A r \in E : r + 1 \in E => written[r + 1].prevHash = r
  <2> SUFFICES ASSUME NEW r \in E, r + 1 \in E PROVE written[r + 1].prevHash = r
    OBVIOUS
  <2>1. r \in live /\ r \in 1..((r + 1) - 1) /\ r + 1 \in DOMAIN written
    BY <1>1, <1>2
  <2> QED BY <1>1, <2>1 DEF Inv, LinksHold
<1> QED BY <1>2, <1>4, <1>5, <1>6 DEF Stretch

\* What a sweep lists is the oldest part of the table.
LEMMA ListInv ==
  ASSUME ChainAssumption, Inv, NEW s \in Sweeper, listAuditProofRows(s)
  PROVE  Inv'
<1>1. PICK E \in SUBSET live :
        /\ Oldest(Aged(s), AUDIT_PROOF_MAX_ENTRIES, E)
        /\ sweep' = [sweep EXCEPT ![s] =
                       IF E = {} THEN Idle ELSE [sweep[s] EXCEPT !.pc = "put", !.entries = E]]
  BY DEF listAuditProofRows
<1>2. sweep[s] \in SweepRec /\ sweep[s].pc = "export" /\ sweep[s].cutoff + Days <= now
  BY DEF listAuditProofRows, Inv, Shape, EntriesAreHead, HeadEntries
<1>3. CASE E = {}
  BY <1>1, <1>3, IdleRecs, SweepStep DEF listAuditProofRows
<1>4. CASE E # {}
  <2> DEFINE x == [sweep[s] EXCEPT !.pc = "put", !.entries = E]
  <2>1. E \subseteq 1..MaxRows /\ E \subseteq DOMAIN written
    BY Rows DEF Inv, Shape, ChainAssumption
  <2>2. x \in SweepRec /\ x.pc = "put" /\ x.entries = E /\ x.cutoff = sweep[s].cutoff
    BY <1>2, <2>1 DEF SweepRec
  <2> HIDE DEF x
  <2>3. HeadEntries(x)
    BY <1>1, <1>2, <2>1, <2>2, OldestIsHead DEF HeadEntries
  <2>4. sweep' = [sweep EXCEPT ![s] = x]
    BY <1>1, <1>4 DEF x
  <2> QED BY <2>2, <2>3, <2>4, SweepStep DEF listAuditProofRows
<1> QED BY <1>3, <1>4

\* What is put before it is deleted covers what is deleted.
LEMMA PutInv ==
  ASSUME ChainAssumption, Inv, NEW s \in Sweeper, putObject(s)
  PROVE  Inv'
<1> DEFINE x == [sweep[s] EXCEPT !.pc = "delete"]
           E == sweep[s].entries
<1>1. /\ stored' = stored \cup {E} /\ sweep' = [sweep EXCEPT ![s] = x]
      /\ UNCHANGED <<written, live, tx, now>>
  BY DEF putObject, Goto
<1>2. sweep[s] \in SweepRec /\ sweep[s].pc = "put" /\ HeadEntries(sweep[s])
  BY DEF putObject, Inv, Shape, EntriesAreHead
<1>3. E \subseteq DOMAIN written /\ Stretch(E)
  BY <1>2 DEF HeadEntries
<1>4. x \in SweepRec /\ x.pc = "delete" /\ x.entries = E /\ x.cutoff = sweep[s].cutoff
  BY <1>2 DEF SweepRec
<1> HIDE DEF x
<1>5. Shape'
  BY <1>1, <1>3, <1>4 DEF Inv, Shape
<1>6. RowsInOrder' /\ HolderHasTip' /\ LiveIsTail' /\ LinksHold'
  BY <1>1 DEF Inv, RowsInOrder, HolderHasTip, KnowsTip, LiveIsTail, LinksHold, At
<1>7. HeadIsStored'
  BY <1>1 DEF Inv, HeadIsStored, At
<1>8. BundlesAreStretches'
  BY <1>1, <1>3 DEF Inv, BundlesAreStretches, Stretch
<1>9. EntriesAreHead'
  <2> SUFFICES ASSUME NEW o \in Sweeper PROVE HeadEntries(sweep[o])'
    BY DEF EntriesAreHead
  <2>1. CASE o = s
    <3>1. sweep'[o] = x
      BY <1>1, <2>1 DEF Inv, Shape
    <3> QED BY <1>1, <1>2, <1>4, <3>1 DEF HeadEntries, At
  <2>2. CASE o # s
    <3>1. sweep'[o] = sweep[o] /\ HeadEntries(sweep[o])
      BY <1>1, <2>2 DEF Inv, Shape, EntriesAreHead
    <3> QED BY <1>1, <3>1 DEF HeadEntries, At, Stretch
  <2> QED BY <2>1, <2>2
<1> QED BY <1>5, <1>6, <1>7, <1>8, <1>9 DEF Inv

\* A batch takes the oldest entries, which are the oldest rows of the table.
LEMMA DeleteInv ==
  ASSUME ChainAssumption, Inv, NEW s \in Sweeper, deleteAuditLogRowsByIds(s)
  PROVE  Inv'
<1> DEFINE D == sweep[s].entries
<1>1. PICK E \in SUBSET D :
        /\ Oldest(D, CHECKPOINT_DELETE_BATCH_SIZE, E)
        /\ live' = live \ E
        /\ sweep' = [sweep EXCEPT ![s].entries = @ \ E,
                                  ![s].pc = IF D \ E = {} THEN "checkpoint" ELSE @]
  BY DEF deleteAuditLogRowsByIds, ToDelete
<1>2. UNCHANGED <<written, stored, tx, now>>
  BY DEF deleteAuditLogRowsByIds
<1>3. sweep[s] \in SweepRec /\ sweep[s].pc = "delete" /\ HeadEntries(sweep[s])
  BY DEF deleteAuditLogRowsByIds, Inv, Shape, EntriesAreHead
<1>4. /\ D \subseteq DOMAIN written /\ D \subseteq UNION stored /\ sweep[s].cutoff + Days <= now
      /\ \A e \in D : At(e) <= sweep[s].cutoff /\ \A q \in live : q < e => q \in D
  BY <1>3 DEF HeadEntries
<1>5. /\ DOMAIN written = 1..Len(written) /\ Len(written) \in Nat
      /\ \A q \in DOMAIN written : At(q) \in Nat
      /\ sweep[s].cutoff \in Nat /\ now \in Nat /\ live \subseteq DOMAIN written
  BY <1>3, Rows DEF Inv, Shape, SweepRec
<1>6. ASSUME NEW q \in E, NEW r \in live, r < q
      PROVE  r \in E
  <2>1. r \in D /\ At(r) < At(q)
    BY <1>4, <1>5, <1>6 DEF Inv, RowsInOrder
  <2> QED BY <1>1, <1>4, <1>5, <2>1 DEF Oldest
<1> DEFINE x == [sweep[s] EXCEPT !.entries = D \ E,
                                 !.pc = IF D \ E = {} THEN "checkpoint" ELSE "delete"]
<1>7. sweep' = [sweep EXCEPT ![s] = x]
  BY <1>1, <1>3 DEF Inv, Shape
<1>8. /\ x \in SweepRec /\ x.entries = D \ E /\ x.pc \in {"checkpoint", "delete"}
      /\ x.cutoff = sweep[s].cutoff
  BY <1>3 DEF SweepRec
<1> HIDE DEF x
<1>9. Shape'
  BY <1>1, <1>2, <1>7, <1>8 DEF Inv, Shape
<1>10. RowsInOrder' /\ BundlesAreStretches'
  BY <1>2 DEF Inv, RowsInOrder, BundlesAreStretches, Stretch, At
<1>11. HolderHasTip'
  BY <1>1, <1>2 DEF Inv, HolderHasTip, KnowsTip, At
<1>12. LiveIsTail'
  BY <1>1, <1>2, <1>6 DEF Inv, LiveIsTail
<1>13. HeadIsStored'
  <2> SUFFICES ASSUME NEW r \in DOMAIN written
               PROVE  r \in live \ E \/ (At(r) + Days <= now /\ r \in UNION stored)
    BY <1>1, <1>2 DEF HeadIsStored, At
  <2>1. CASE r \notin live
    BY <2>1 DEF Inv, HeadIsStored
  <2>2. CASE r \in E
    <3>1. r \in D
      BY <2>2
    <3>2. r \in UNION stored /\ At(r) <= sweep[s].cutoff /\ sweep[s].cutoff + Days <= now
      BY <3>1, <1>4
    <3>3. At(r) \in Nat /\ Days \in Nat
      BY <1>5 DEF ChainAssumption
    <3> QED BY <3>2, <3>3, <1>5
  <2> QED BY <2>1, <2>2
<1>14. LinksHold'
  BY <1>1, <1>2 DEF Inv, LinksHold
<1>15. EntriesAreHead'
  <2> SUFFICES ASSUME NEW o \in Sweeper PROVE HeadEntries(sweep[o])'
    BY DEF EntriesAreHead
  <2>1. CASE o = s
    <3>1. sweep'[o] = x
      BY <1>7, <2>1 DEF Inv, Shape
    <3> QED BY <1>1, <1>2, <1>4, <1>8, <3>1 DEF HeadEntries, At
  <2>2. CASE o # s
    <3>1. sweep'[o] = sweep[o] /\ HeadEntries(sweep[o])
      BY <1>7, <2>2 DEF Inv, Shape, EntriesAreHead
    <3> QED BY <1>1, <1>2, <3>1 DEF HeadEntries, At, Stretch
  <2> QED BY <2>1, <2>2
<1> QED
  BY <1>9, <1>10, <1>11, <1>12, <1>13, <1>14, <1>15 DEF Inv

\* A sweep that fails, at any step, only forgets.
LEMMA FailInv ==
  ASSUME ChainAssumption, Inv, NEW s \in Sweeper, SweepFails(s)
  PROVE  Inv'
<1>1. /\ UNCHANGED <<written, live, stored, now>> /\ sweep' = [sweep EXCEPT ![s] = Idle]
      /\ tx' = [tx EXCEPT ![s] = NoTx]
  BY DEF SweepFails
<1>2. tx' \in [Writer \cup Sweeper -> TxRec] /\ HolderHasTip'
  BY <1>1, EndTx
<1>3. sweep' \in [Sweeper -> SweepRec] /\ \A o \in Sweeper : HeadEntries(sweep'[o])
  BY <1>1, IdleRecs DEF Inv, Shape, EntriesAreHead
<1> QED BY <1>1, <1>2, <1>3, QuietStep

\* Time makes rows older and changes nothing else.
LEMMA TickInv ==
  ASSUME ChainAssumption, Inv, Tick
  PROVE  Inv'
<1>1. now \in Nat /\ now' = now + 1 /\ now < MaxTime /\ UNCHANGED <<written, live, stored, tx, sweep>>
  BY DEF Tick, Inv, Shape
<1>2. Shape'
  BY <1>1 DEF Inv, Shape, ChainAssumption
<1>3. RowsInOrder' /\ HolderHasTip' /\ LiveIsTail' /\ LinksHold' /\ BundlesAreStretches'
  BY <1>1 DEF Inv, RowsInOrder, HolderHasTip, KnowsTip, LiveIsTail, LinksHold,
              BundlesAreStretches, Stretch, At
<1>4. HeadIsStored'
  <2>1. \A r \in DOMAIN written : At(r) \in Nat
    BY Rows DEF Inv
  <2> QED BY <1>1, <2>1 DEF Inv, HeadIsStored, At, ChainAssumption
<1>5. EntriesAreHead'
  <2> SUFFICES ASSUME NEW s \in Sweeper PROVE HeadEntries(sweep[s])'
    BY DEF EntriesAreHead
  <2>1. sweep'[s] = sweep[s] /\ HeadEntries(sweep[s]) /\ sweep[s].cutoff \in Nat
    BY <1>1 DEF Inv, Shape, EntriesAreHead, SweepRec
  <2> QED BY <1>1, <2>1 DEF HeadEntries, At, Stretch, ChainAssumption
<1> QED BY <1>2, <1>3, <1>4, <1>5 DEF Inv
-----------------------------------------------------------------------------
\* Every step keeps the invariant.
LEMMA NextInv ==
  ASSUME ChainAssumption, Autocommit = {}, Inv, [Next]_vars
  PROVE  Inv'
<1>1. CASE \E p \in Writer \cup Sweeper : audit(p)
  BY <1>1, LockInv, InsertInv, CommitInv DEF audit
<1>2. CASE \E p \in Writer : Rollback(p)
  BY <1>2, RollbackInv
<1>3. CASE \E s \in Sweeper : checkpointAndTruncate(s)
  BY <1>3, StartInv, ListInv, PutInv, DeleteInv, FailInv DEF checkpointAndTruncate
<1>4. CASE Tick
  BY <1>4, TickInv
<1>5. CASE UNCHANGED vars
  <2>1. HolderHasTip'
    BY <1>5, RestUnchanged DEF vars, Inv, HolderHasTip
  <2> QED BY <1>5, <2>1, QuietStep DEF vars, Inv, Shape, EntriesAreHead
<1> QED BY <1>1, <1>2, <1>3, <1>4, <1>5 DEF Next

\* With callers that pass a transaction, the invariant always holds.
LEMMA Invariance == ChainAssumption /\ Autocommit = {} => (Spec => []Inv)
<1> SUFFICES ASSUME ChainAssumption, Autocommit = {} PROVE Spec => []Inv
  OBVIOUS
<1>1. Init => Inv
  BY InitInv
<1>2. Inv /\ [Next]_vars => Inv'
  BY NextInv
<1> QED BY <1>1, <1>2, PTL DEF Spec

\* A stretch passes verifyAuditBundle.
LEMMA StretchVerifies ==
  ASSUME Inv, NEW S, S \subseteq DOMAIN written, Stretch(S)
  PROVE  Verifies(S)
<1>1. /\ DOMAIN written = 1..Len(written) /\ Len(written) \in Nat
      /\ \A q \in DOMAIN written : At(q) \in Nat
  BY Rows DEF Inv
<1> SUFFICES ASSUME NEW r \in S, NEW q \in S
             PROVE  /\ r # q => At(r) # At(q)
                    /\ (At(r) < At(q) /\ \A x \in S : At(x) <= At(r) \/ At(x) >= At(q))
                         => written[q].prevHash = r
  BY DEF Verifies
<1>2. \A x, y \in S : x < y => At(x) < At(y)
  BY DEF Inv, RowsInOrder
<1>3. r \in Nat /\ q \in Nat /\ At(r) \in Nat /\ At(q) \in Nat
  BY <1>1
<1>4. r # q => At(r) # At(q)
  BY <1>2, <1>3
<1>5. ASSUME At(r) < At(q), \A x \in S : At(x) <= At(r) \/ At(x) >= At(q)
      PROVE  written[q].prevHash = r
  <2>1. r < q
    BY <1>2, <1>3, <1>5
  <2>2. r + 1 \in r..q
    BY <1>3, <2>1
  <2>3. r + 1 \in S
    BY <2>2 DEF Stretch
  <2>4. At(r) < At(r + 1) /\ At(r + 1) \in Nat
    BY <1>1, <1>2, <1>3, <2>3
  <2>5. r + 1 = q
    BY <1>2, <1>3, <1>5, <2>1, <2>3, <2>4
  <2> QED BY <2>3, <2>5 DEF Stretch
<1> QED BY <1>4, <1>5

\* The table is a stretch too.
LEMMA LiveIsStretch == ASSUME Inv PROVE Stretch(live)
<1>1. /\ DOMAIN written = 1..Len(written) /\ Len(written) \in Nat /\ live \subseteq DOMAIN written
  BY Rows DEF Inv, Shape
<1>2. \A r, q \in live : \A x \in r..q : x \in live
  BY <1>1 DEF Inv, LiveIsTail
<1>3. \A r \in live : r + 1 \in live => written[r + 1].prevHash = r
  <2> SUFFICES ASSUME NEW r \in live, r + 1 \in live PROVE written[r + 1].prevHash = r
    OBVIOUS
  <2>1. r \in 1..((r + 1) - 1) /\ r + 1 \in DOMAIN written
    BY <1>1
  <2> QED BY <1>1, <2>1 DEF Inv, LinksHold
<1> QED BY <1>2, <1>3 DEF Stretch

\* "what gets deleted is provably identical to what was just exported and
\* stored" (checkpointAndTruncate, writeChained): with writers, overlapping
\* sweeps, partial deletes and failures in any order, every audit row ever
\* committed is in the table or in a stored bundle, both verify, and a link is
\* missing only where a checkpoint had emptied the table.
THEOREM HistoryProvable ==
  ChainAssumption /\ Autocommit = {} => (Spec => []HistoryIsProvable)
<1> SUFFICES ASSUME ChainAssumption, Autocommit = {} PROVE Spec => []HistoryIsProvable
  OBVIOUS
<1>1. Inv => HistoryIsProvable
  <2> SUFFICES ASSUME Inv PROVE HistoryIsProvable
    OBVIOUS
  <2>1. DOMAIN written = live \cup UNION stored
    BY DEF Inv, Shape, HeadIsStored
  <2>2. Verifies(live)
    BY LiveIsStretch, StretchVerifies DEF Inv, Shape
  <2>3. \A b \in stored : Verifies(b)
    BY StretchVerifies DEF Inv, Shape, BundlesAreStretches
  <2> QED BY <2>1, <2>2, <2>3 DEF HistoryIsProvable, Inv, LinksHold
<1> QED BY <1>1, Invariance, PTL

\* Type correctness of the chain and its sweeps: no transaction and no bundle
\* names a row that was not committed, and no row's time runs ahead of the
\* clock by more than the rows before it (audit, checkpointAndTruncate).
THEOREM TypeCorrect == ChainAssumption /\ Autocommit = {} => (Spec => []TypeOK)
<1> SUFFICES ASSUME ChainAssumption, Autocommit = {} PROVE Spec => []TypeOK
  OBVIOUS
<1>1. Inv => TypeOK
  <2> SUFFICES ASSUME Inv PROVE TypeOK
    OBVIOUS
  <2> DEFINE R == [prevHash : 1..MaxRows \cup {Null}, createdAt : 0..(MaxTime + MaxRows)]
  <2>1. MaxRows \in Nat /\ MaxTime \in Nat /\ 0..MaxRows = 1..MaxRows \cup {Null}
    BY DEF ChainAssumption, Null
  <2>2. \A q \in DOMAIN written : written[q] \in R
    <3> SUFFICES ASSUME NEW q \in DOMAIN written PROVE written[q] \in R
      OBVIOUS
    <3>1. written[q] \in RowRec /\ q \in 1..MaxRows
      BY <2>1, Rows DEF Inv, Shape
    <3>2. written[q].prevHash < q /\ written[q].createdAt <= MaxTime + (q - 1)
      BY DEF Inv, RowsInOrder, At, Bound
    <3>3. written[q].prevHash \in 0..MaxRows /\ written[q].createdAt \in 0..(MaxTime + MaxRows)
      BY <2>1, <3>1, <3>2 DEF RowRec
    <3> QED BY <2>1, <3>1, <3>3 DEF RowRec
  <2>3. written \in Seq(R) /\ Len(written) <= MaxRows
    <3>1. written \in Seq(RowRec) /\ Len(written) <= MaxRows
      BY DEF Inv, Shape
    <3> HIDE DEF R
    <3> QED BY <2>2, <3>1
  <2>4. tx \in [Writer \cup Sweeper -> [pc : {"none", "tip", "inserted"},
                  prevHash : 1..MaxRows \cup {Null}, createdAt : 0..(MaxTime + MaxRows)]]
    BY <2>1 DEF Inv, Shape, TxRec
  <2> QED BY <2>3, <2>4 DEF Inv, Shape, SweepRec, TypeOK
<1> QED BY <1>1, Invariance, PTL
=============================================================================
