------------------------ MODULE PositionLedgerProofs ------------------------
(***************************************************************************)
(* Proofs about PositionLedger, for every entry size, every set of exit    *)
(* ids and every number of fills and crashes.                              *)
(*                                                                         *)
(* First the operators of UnitStore: sums of quantities, what each         *)
(* transaction does to the type and to the quantities of a row, and that   *)
(* recording an allocation keeps the row balanced.  Then the machine: its  *)
(* types, conservation, attribution, statuses and finality, and that it    *)
(* implements LogicalUnit.                                                 *)
(***************************************************************************)
EXTENDS PositionLedger, FiniteSetTheorems, WellFoundedInduction,
        SequenceTheorems, TLAPS

Table == [Fill -> AllocType]

-----------------------------------------------------------------------------
(***************************************************************************)
(* Sums of quantities.                                                     *)
(***************************************************************************)

\* Quantities of the allocation table are naturals of at most EntrySize.
LEMMA QuantityBound ==
    ASSUME NEW t \in Table, NEW f \in Fill
    PROVE  t[f].qty \in 0..EntrySize /\ t[f].qty \in Nat
<1>1. t[f].qty \in 0..EntrySize
  BY DEF Table, AllocType
<1>2. EntrySize \in Nat
  BY SizeAssumption
<1> QED BY <1>1, <1>2

\* The contracts of a set of allocations are finitely many, so that its sum
\* is a natural number.
LEMMA SumFinite ==
    ASSUME NEW t \in Table, NEW S \in SUBSET Fill
    PROVE  IsFiniteSet(Lots(t, S)) /\ Sum(t, S) \in Nat
<1>1. IsFiniteSet(Fill)
  <2>1. 1 \in Int /\ MaxFills \in Int
    BY FillAssumption
  <2> QED BY <2>1, FS_Interval DEF Fill
<1>2. IsFiniteSet(1..EntrySize)
  <2>1. 1 \in Int /\ EntrySize \in Int
    BY SizeAssumption
  <2> QED BY <2>1, FS_Interval
<1>3. IsFiniteSet(Fill \X (1..EntrySize))
  BY <1>1, <1>2, FS_Product
<1>4. Lots(t, S) \subseteq Fill \X (1..EntrySize)
  <2>1. \A f \in S : t[f].qty \in 0..EntrySize /\ f \in Fill
    BY QuantityBound
  <2>2. \A f \in S : 1..t[f].qty \subseteq 1..EntrySize
    BY <2>1, SizeAssumption
  <2>3. \A f \in S : {f} \X (1..t[f].qty) \subseteq Fill \X (1..EntrySize)
    BY <2>1, <2>2
  <2> QED BY <2>3 DEF Lots
<1>5. IsFiniteSet(Lots(t, S))
  BY <1>3, <1>4, FS_Subset
<1> QED BY <1>5, FS_CardinalityType DEF Sum

\* Disjoint sets of allocations add up.
LEMMA SumDisjoint ==
    ASSUME NEW t \in Table, NEW S \in SUBSET Fill, NEW T \in SUBSET Fill,
           S \cap T = {}
    PROVE  Sum(t, S \cup T) = Sum(t, S) + Sum(t, T)
<1>1. Lots(t, S \cup T) = Lots(t, S) \cup Lots(t, T)
  BY DEF Lots
<1>2. Lots(t, S) \cap Lots(t, T) = {}
  BY DEF Lots
<1>3. IsFiniteSet(Lots(t, S)) /\ IsFiniteSet(Lots(t, T))
  BY SumFinite
<1>4. Cardinality(Lots(t, S) \cup Lots(t, T))
        = Cardinality(Lots(t, S)) + Cardinality(Lots(t, T))
            - Cardinality(Lots(t, S) \cap Lots(t, T))
  BY <1>3, FS_Union
<1>5. Cardinality(Lots(t, S) \cap Lots(t, T)) = 0
  BY <1>2, FS_EmptySet, Zenon
<1>6. Sum(t, S \cup T) = Sum(t, S) + Sum(t, T) - 0
  BY <1>1, <1>4, <1>5 DEF Sum
<1>7. Sum(t, S) \in Nat /\ Sum(t, T) \in Nat
  BY SumFinite
<1> QED BY <1>6, <1>7

\* No allocation contributes nothing.
LEMMA SumEmpty ==
    ASSUME NEW t PROVE Sum(t, {}) = 0
<1>1. Lots(t, {}) = {}
  BY DEF Lots
<1> QED BY <1>1, FS_EmptySet, Zenon DEF Sum

\* One allocation contributes its quantity.
LEMMA SumSingle ==
    ASSUME NEW t \in Table, NEW f \in Fill
    PROVE  Sum(t, {f}) = t[f].qty
<1> DEFINE q == t[f].qty
<1>1. Lots(t, {f}) = {f} \X (1..q)
  BY DEF Lots
<1>2. q \in Nat
  BY QuantityBound
<1>3. IsFiniteSet({f}) /\ Cardinality({f}) = 1
  BY FS_Singleton, Zenon
<1> HIDE DEF q
<1>4. IsFiniteSet(1..q) /\ Cardinality(1..q) = IF 1 > q THEN 0 ELSE q - 1 + 1
  <2>1. 1 \in Int /\ q \in Int
    BY <1>2
  <2> QED BY <2>1, FS_Interval
<1>5. Cardinality(1..q) = q
  BY <1>2, <1>4
<1>6. Cardinality({f} \X (1..q)) = Cardinality({f}) * Cardinality(1..q)
  BY <1>3, <1>4, FS_Product
<1>7. Sum(t, {f}) = 1 * q
  BY <1>1, <1>3, <1>5, <1>6 DEF Sum
<1>8. Sum(t, {f}) = q
  BY <1>2, <1>7
<1> QED BY <1>8 DEF q

\* A sum looks at nothing but the quantities.
LEMMA SumSame ==
    ASSUME NEW t, NEW u, NEW S, \A f \in S : t[f].qty = u[f].qty
    PROVE  Sum(t, S) = Sum(u, S)
<1>1. Lots(t, S) = Lots(u, S)
  BY DEF Lots
<1> QED BY <1>1 DEF Sum

LessThan == {p \in Nat \X Nat : p[1] < p[2]}

\* The naturals are well-founded: the form in which the greatest of a set of
\* fills is found.
LEMMA LessThanWellFounded == IsWellFoundedOn(LessThan, Nat)
  BY NatLessThanWellFounded DEF OpToRel, LessThan

\* A non-empty set of fills has a last element.
LEMMA LastFill ==
    ASSUME NEW K \in SUBSET Fill, K # {}
    PROVE  \E k \in K : \A j \in K : j <= k
<1> DEFINE T == {MaxFills - k : k \in K}
<1>1. \A k \in K : k \in Nat /\ k <= MaxFills /\ MaxFills \in Nat
  BY FillAssumption DEF Fill
<1>2. T \subseteq Nat
  BY <1>1
<1>3. T # {}
  OBVIOUS
<1>4. PICK n \in T : \A m \in T : ~(<<m, n>> \in LessThan)
  <2> HIDE DEF T
  <2> QED BY <1>2, <1>3, LessThanWellFounded, WFMin
<1>5. ASSUME NEW m \in T PROVE ~(m < n)
  <2>1. <<m, n>> \in Nat \X Nat
    BY <1>2
  <2> QED BY <1>4, <2>1 DEF LessThan
<1>6. PICK k \in K : n = MaxFills - k
  BY <1>4
<1>7. ASSUME NEW j \in K PROVE j <= k
  <2>1. MaxFills - j \in T
    OBVIOUS
  <2>2. ~(MaxFills - j < n)
    BY <1>5, <2>1
  <2> QED BY <1>1, <1>6, <2>2
<1> QED BY <1>7

-----------------------------------------------------------------------------
(***************************************************************************)
(* apply_deferred_allocations.                                             *)
(***************************************************************************)

\* What it applies is deferred, and is never more than what remains.
LEMMA BatchFits ==
    ASSUME NEW t \in Table, NEW r \in RowType
    PROVE  /\ DeferredBatch(r, t) \subseteq Deferred(t)
           /\ Sum(t, DeferredBatch(r, t)) <= r.remaining
<1> DEFINE Prefix(k) == {g \in Deferred(t) : g <= k}
           K == {k \in Fill : Sum(t, Prefix(k)) <= r.remaining}
<1>1. DeferredBatch(r, t) = UNION {Prefix(k) : k \in K}
  BY DEF DeferredBatch
<1>2. r.remaining \in Nat
  BY DEF RowType
<1>3. CASE K = {}
  <2>1. DeferredBatch(r, t) = {}
    BY <1>1, <1>3
  <2> QED BY <1>2, <2>1, SumEmpty
<1>4. CASE K # {}
  <2>1. K \subseteq Fill
    OBVIOUS
  <2>2. PICK k \in K : \A j \in K : j <= k
    <3> HIDE DEF K
    <3> QED BY <1>4, <2>1, LastFill
  <2>3. \A j \in K : Prefix(j) \subseteq Prefix(k)
    <3> SUFFICES ASSUME NEW j \in K, NEW g \in Prefix(j) PROVE g <= k
      OBVIOUS
    <3>1. j \in Int /\ k \in Int /\ g \in Int /\ j <= k /\ g <= j
      BY <2>2, FillAssumption DEF Fill, Deferred
    <3> QED BY <3>1
  <2>4. UNION {Prefix(j) : j \in K} = Prefix(k)
    <3> HIDE DEF Prefix, K
    <3> QED BY <2>2, <2>3
  <2>5. DeferredBatch(r, t) = Prefix(k)
    BY <1>1, <2>4
  <2> QED BY <2>5
<1> QED BY <1>3, <1>4

\* Marking a set of allocations applied leaves the rest of the table alone.
LEMMA MarkAppliedTable ==
    ASSUME NEW t \in Table, NEW B \in SUBSET Fill
    PROVE  /\ MarkApplied(t, B) \in Table
           /\ \A f \in Fill : /\ MarkApplied(t, B)[f].act = t[f].act
                              /\ MarkApplied(t, B)[f].qty = t[f].qty
                              /\ MarkApplied(t, B)[f].ord = t[f].ord
                              /\ MarkApplied(t, B)[f].applied <=>
                                    (t[f].applied \/ f \in B)
<1> DEFINE u == MarkApplied(t, B)
<1>1. ASSUME NEW f \in Fill
      PROVE  /\ u[f] \in AllocType
             /\ u[f].act = t[f].act /\ u[f].qty = t[f].qty /\ u[f].ord = t[f].ord
             /\ u[f].applied <=> (t[f].applied \/ f \in B)
  <2>1. t[f] \in AllocType
    BY DEF Table
  <2>2. u[f] = [t[f] EXCEPT !.applied = @ \/ f \in B]
    BY DEF MarkApplied
  <2>3. (t[f].applied \/ f \in B) \in BOOLEAN
    OBVIOUS
  <2> QED BY <2>1, <2>2, <2>3 DEF AllocType
<1>2. u = [f \in Fill |-> u[f]]
  BY DEF MarkApplied
<1>3. u \in Table
  BY <1>1, <1>2 DEF Table
<1> QED BY <1>1, <1>3

-----------------------------------------------------------------------------
(***************************************************************************)
(* The transactions that leave the quantities of the row alone.            *)
(***************************************************************************)

SameQuantity(r, s) == s.opened = r.opened /\ s.remaining = r.remaining

\* Balance is a matter of the two quantities only.
LEMMA SameQuantityBalanced ==
    ASSUME NEW r, NEW s, NEW t, SameQuantity(r, s), Balanced(r, t)
    PROVE  Balanced(s, t)
  BY DEF SameQuantity, Balanced

\* Where the order ids belong.
LEMMA OrderFacts ==
    /\ Entry \in Order /\ Exits \subseteq Order /\ NoOrder \in OrderOrNone
    /\ Order \subseteq OrderOrNone
  BY DEF Order, OrderOrNone

\* claim_pending_execution, and what its callers write with it.
LEMMA ClaimRow ==
    ASSUME NEW r \in RowType, NEW st \in Status, NEW o \in Order, NEW act \in ExitAct,
           NEW corr \in Order, NEW prev \in OrderOrNone
    PROVE  /\ ClaimPendingExecution(r, st, o, act, corr, prev) \in RowType
           /\ SameQuantity(r, ClaimPendingExecution(r, st, o, act, corr, prev))
<1>1. NoOrder \in OrderOrNone /\ o \in OrderOrNone /\ act \in Actions \ {"none"}
  BY OrderFacts DEF ExitAct, Actions
<1> QED BY <1>1 DEF ClaimPendingExecution, RowType, SameQuantity

\* release_pending_execution.
LEMMA ReleaseRow ==
    ASSUME NEW r \in RowType, NEW o
    PROVE  /\ ReleasePendingExecution(r, o) \in RowType
           /\ SameQuantity(r, ReleasePendingExecution(r, o))
<1>1. NoOrder \in OrderOrNone /\ "open" \in Status
  BY OrderFacts DEF Status
<1> QED BY <1>1 DEF ReleasePendingExecution, RowType, SameQuantity

\* mark_pending_execution.
LEMMA MarkRow ==
    ASSUME NEW r \in RowType, NEW st \in Status, NEW o \in Order
    PROVE  /\ MarkPendingExecution(r, st, o) \in RowType
           /\ SameQuantity(r, MarkPendingExecution(r, st, o))
<1>1. o \in OrderOrNone
  BY OrderFacts
<1> QED BY <1>1 DEF MarkPendingExecution, RowType, SameQuantity

\* link_exchange_order.
LEMMA LinkRow ==
    ASSUME NEW r \in RowType, NEW o \in Order
    PROVE  /\ LinkExchangeOrder(r, o) \in RowType
           /\ SameQuantity(r, LinkExchangeOrder(r, o))
<1>1. o \in OrderOrNone
  BY OrderFacts
<1> QED BY <1>1 DEF LinkExchangeOrder, RowType, SameQuantity

\* link_execution_order.
LEMMA LinkTable ==
    ASSUME NEW l \in [Order -> Actions], NEW o \in Order, NEW act \in Actions
    PROVE  LinkExecutionOrder(l, o, act) \in [Order -> Actions]
  BY DEF LinkExecutionOrder

\* recover_client_order_intent.
LEMMA RecoverIntentRow ==
    ASSUME NEW r \in RowType, NEW o
    PROVE  /\ RecoverClientOrderIntent(r, o) \in RowType
           /\ SameQuantity(r, RecoverClientOrderIntent(r, o))
<1>1. NoOrder \in OrderOrNone /\ {"open", "failed"} \subseteq Status
  BY OrderFacts DEF Status
<1> QED BY <1>1 DEF RecoverClientOrderIntent, RowType, SameQuantity

\* recover_terminal_order.
LEMMA RecoverTerminalRow ==
    ASSUME NEW r \in RowType, NEW o
    PROVE  /\ RecoverTerminalOrder(r, o) \in RowType
           /\ SameQuantity(r, RecoverTerminalOrder(r, o))
<1>1. NoOrder \in OrderOrNone
  BY OrderFacts
<1>2. r.status \in Status
  BY DEF RowType
<1>3. TerminalStatus(r) \in Status
  BY <1>2 DEF TerminalStatus, Status
<1> QED BY <1>1, <1>3 DEF RecoverTerminalOrder, RowType, SameQuantity

\* update_execution_tracking.
LEMMA TrackingRow ==
    ASSUME NEW r \in RowType, NEW o, NEW completed
    PROVE  /\ UpdateExecutionTracking(r, o, completed) \in RowType
           /\ SameQuantity(r, UpdateExecutionTracking(r, o, completed))
<1>1. NoOrder \in OrderOrNone
  BY OrderFacts
<1> QED BY <1>1 DEF UpdateExecutionTracking, RowType, SameQuantity

\* _update_trade_and_status.
LEMMA AfterRecordRow ==
    ASSUME NEW r \in RowType, NEW t, NEW f
    PROVE  AfterRecord(r, t, f) \in RowType /\ SameQuantity(r, AfterRecord(r, t, f))
<1> DEFINE s == IF PartiallyReduced(r, t, f) THEN [r EXCEPT !.status = "reducing"]
                ELSE r
<1>1. s \in RowType /\ SameQuantity(r, s)
  BY DEF RowType, SameQuantity, Status
<1> HIDE DEF s
<1>2. /\ UpdateExecutionTracking(s, t[f].ord, OrderCompleted(r, t, f)) \in RowType
      /\ SameQuantity(s, UpdateExecutionTracking(s, t[f].ord, OrderCompleted(r, t, f)))
  BY <1>1, TrackingRow
<1>3. AfterRecord(r, t, f)
        = UpdateExecutionTracking(s, t[f].ord, OrderCompleted(r, t, f))
  BY DEF AfterRecord, s
<1> QED BY <1>1, <1>2, <1>3 DEF SameQuantity

-----------------------------------------------------------------------------
(***************************************************************************)
(* The transactions that move quantities keep the row balanced.            *)
(***************************************************************************)

\* What a table with one more row is.
LEMMA ExtendedTable ==
    ASSUME NEW t \in Table, NEW f \in Fill, NEW a \in AllocType
    PROVE  /\ [t EXCEPT ![f] = a] \in Table
           /\ [t EXCEPT ![f] = a][f] = a
           /\ \A g \in Fill : g # f => [t EXCEPT ![f] = a][g] = t[g]
  BY DEF Table

\* A new allocation that is not applied yet changes no balance.
LEMMA DeferKeepsBalance ==
    ASSUME NEW r \in RowType, NEW t \in Table, NEW f \in Fill, NEW a \in AllocType,
           t[f].act = "none", ~a.applied, Balanced(r, t)
    PROVE  Balanced(r, [t EXCEPT ![f] = a])
<1> DEFINE u == [t EXCEPT ![f] = a]
<1>1. /\ u \in Table /\ u[f] = a
      /\ \A g \in Fill : g # f => u[g] = t[g]
  BY ExtendedTable
<1> HIDE DEF u
<1>2. Opens(u) = Opens(t) /\ Closes(u) = Closes(t)
  BY <1>1 DEF Opens, Closes, ExitAct
<1>3. \A g \in Opens(t) \cup Closes(t) : u[g].qty = t[g].qty
  BY <1>1 DEF Opens, Closes, ExitAct
<1>4. Sum(u, Opens(t)) = Sum(t, Opens(t)) /\ Sum(u, Closes(t)) = Sum(t, Closes(t))
  BY <1>3, SumSame
<1>5. Balanced(r, u)
  BY <1>2, <1>4 DEF Balanced
<1> QED BY <1>5 DEF u

\* record_allocation, as far as the row goes: an open adds the fill to both
\* quantities, an exit takes it off the remainder, which stays a natural.
LEMMA RecordType ==
    ASSUME NEW r \in RowType, NEW a \in AllocType, a.act # "none",
           ValidAllocation(r, a.act, a.qty)
    PROVE  LET s == ApplyAllocationFields(r, a.act, a.qty)
           IN  /\ s \in RowType
               /\ a.act = "open" => /\ s.opened = r.opened + a.qty
                                    /\ s.remaining = r.remaining + a.qty
               /\ a.act # "open" => /\ s.opened = r.opened
                                    /\ s.remaining = r.remaining - a.qty
<1> DEFINE s == ApplyAllocationFields(r, a.act, a.qty)
<1>1. r.opened \in Nat /\ r.remaining \in Nat /\ r.status \in Status /\ a.qty \in Nat
  <2>1. a.qty \in 0..EntrySize
    BY DEF AllocType
  <2> QED BY <2>1, SizeAssumption DEF RowType
<1>2. CASE a.act = "open"
  <2> DEFINE st == IF r.status \in {"planned", "pending_open"} THEN "open" ELSE r.status
             opened == r.opened + a.qty
             remaining == r.remaining + a.qty
  <2>1. s = [r EXCEPT !.opened = opened, !.remaining = remaining, !.status = st]
    BY <1>2 DEF ApplyAllocationFields
  <2>2. st \in Status /\ opened \in Nat /\ remaining \in Nat
    BY <1>1 DEF Status
  <2>3. s \in RowType /\ s.opened = opened /\ s.remaining = remaining
    <3> HIDE DEF s, st, opened, remaining
    <3> QED BY <2>1, <2>2 DEF RowType
  <2> QED BY <1>2, <2>3
<1>3. CASE a.act # "open"
  <2> DEFINE left == r.remaining - a.qty
             st == StatusAfterExit(a.act, left)
  <2>1. s = [r EXCEPT !.remaining = left, !.status = st]
    BY <1>3 DEF ApplyAllocationFields
  <2>2. st \in Status
    BY DEF StatusAfterExit, Status
  <2>3. left \in Nat
    BY <1>1, <1>3 DEF ValidAllocation
  <2>4. s \in RowType /\ s.opened = r.opened /\ s.remaining = left
    <3> HIDE DEF s, st, left
    <3> QED BY <2>1, <2>2, <2>3 DEF RowType
  <2> QED BY <1>3, <2>4
<1> QED BY <1>2, <1>3

\* record_allocation adds the fill to the row's quantities and to the table in
\* one transaction, and never takes more than what remains.
LEMMA RecordKeepsBalance ==
    ASSUME NEW r \in RowType, NEW t \in Table, NEW f \in Fill, NEW a \in AllocType,
           t[f].act = "none", a.applied, a.act # "none",
           ValidAllocation(r, a.act, a.qty), Balanced(r, t)
    PROVE  Balanced(ApplyAllocationFields(r, a.act, a.qty), [t EXCEPT ![f] = a])
<1> DEFINE u == [t EXCEPT ![f] = a]
           s == ApplyAllocationFields(r, a.act, a.qty)
<1>1. /\ u \in Table /\ u[f] = a
      /\ \A g \in Fill : g # f => u[g] = t[g]
  BY ExtendedTable
<1> HIDE DEF u
<1>2. /\ r.opened \in Nat /\ r.remaining \in Nat
      /\ a.qty \in Nat /\ a.act \in {"open", "reduce", "close"}
  <2>1. a.qty \in 0..EntrySize /\ a.act \in Actions
    BY DEF AllocType
  <2> QED BY <2>1, SizeAssumption DEF RowType, Actions
<1>3. /\ a.act = "open" => s.opened = r.opened + a.qty /\ s.remaining = r.remaining + a.qty
      /\ a.act # "open" => s.opened = r.opened /\ s.remaining = r.remaining - a.qty
  BY RecordType
<1> HIDE DEF s
<1>4. /\ f \notin Opens(t) /\ f \notin Closes(t)
      /\ Opens(t) \subseteq Fill /\ Closes(t) \subseteq Fill
  BY DEF Opens, Closes, ExitAct
<1>5. \A g \in Opens(t) \cup Closes(t) : u[g].qty = t[g].qty
  BY <1>1, <1>4
<1>6. Sum(u, Opens(t)) = Sum(t, Opens(t)) /\ Sum(u, Closes(t)) = Sum(t, Closes(t))
  BY <1>5, SumSame
<1>7. Sum(u, {f}) = a.qty
  BY <1>1, SumSingle
<1>8. Sum(t, Opens(t)) \in Nat /\ Sum(t, Closes(t)) \in Nat
  BY <1>4, SumFinite
<1>9. \A S \in SUBSET Fill : f \notin S => Sum(u, S \cup {f}) = Sum(u, S) + a.qty
  <2> SUFFICES ASSUME NEW S \in SUBSET Fill, f \notin S
               PROVE  Sum(u, S \cup {f}) = Sum(u, S) + a.qty
    OBVIOUS
  <2>1. S \cap {f} = {} /\ {f} \in SUBSET Fill
    OBVIOUS
  <2>2. Sum(u, S \cup {f}) = Sum(u, S) + Sum(u, {f})
    BY <1>1, <2>1, SumDisjoint
  <2> QED BY <1>7, <2>2
<1>10. CASE a.act = "open"
  <2>1. Opens(u) = Opens(t) \cup {f} /\ Closes(u) = Closes(t)
    BY <1>1, <1>10 DEF Opens, Closes, ExitAct
  <2>2. Sum(u, Opens(u)) = Sum(t, Opens(t)) + a.qty
    BY <1>4, <1>6, <1>9, <2>1
  <2>3. Balanced(s, u)
    BY <1>2, <1>3, <1>6, <1>8, <1>10, <2>1, <2>2 DEF Balanced
  <2> QED BY <2>3 DEF s, u
<1>11. CASE a.act \in ExitAct
  <2>1. Opens(u) = Opens(t) /\ Closes(u) = Closes(t) \cup {f}
    BY <1>1, <1>11 DEF Opens, Closes, ExitAct
  <2>2. Sum(u, Closes(u)) = Sum(t, Closes(t)) + a.qty
    BY <1>4, <1>6, <1>9, <2>1
  <2>3. a.act # "open"
    BY <1>11 DEF ExitAct
  <2>4. Balanced(s, u)
    BY <1>2, <1>3, <1>6, <1>8, <2>1, <2>2, <2>3 DEF Balanced
  <2> QED BY <2>4 DEF s, u
<1> QED BY <1>2, <1>10, <1>11 DEF ExitAct

\* apply_deferred_allocations keeps the types, and takes exactly the contracts
\* of its batch off the row.
LEMMA DrainType ==
    ASSUME NEW r \in RowType, NEW t \in Table
    PROVE  /\ ApplyDeferredAllocations(r, t) \in RowType
           /\ MarkApplied(t, DeferredBatch(r, t)) \in Table
           /\ ApplyDeferredAllocations(r, t).opened = r.opened
           /\ ApplyDeferredAllocations(r, t).remaining
                = r.remaining - Sum(t, DeferredBatch(r, t))
<1> DEFINE B == DeferredBatch(r, t)
           s == ApplyDeferredAllocations(r, t)
           left == r.remaining - Sum(t, B)
<1>1. B \subseteq Deferred(t) /\ Sum(t, B) <= r.remaining
  BY BatchFits
<1>2. B \in SUBSET Fill
  BY <1>1 DEF Deferred
<1> HIDE DEF B
<1>3. MarkApplied(t, B) \in Table
  BY <1>2, MarkAppliedTable
<1>4. r.opened \in Nat /\ r.remaining \in Nat /\ Sum(t, B) \in Nat /\ left \in Nat
  <2>1. r.opened \in Nat /\ r.remaining \in Nat
    BY DEF RowType
  <2>2. Sum(t, B) \in Nat
    BY <1>2, SumFinite
  <2> QED BY <1>1, <2>1, <2>2
<1>5. s \in RowType /\ s.opened = r.opened /\ s.remaining = left
  <2>1. CASE B = {}
    <3>1. s = r
      BY <2>1 DEF ApplyDeferredAllocations, B
    <3>2. Sum(t, B) = 0
      BY <2>1, SumEmpty
    <3> QED BY <1>4, <3>1, <3>2
  <2>2. CASE B # {}
    <3> DEFINE last == CHOOSE f \in B : \A g \in B : g <= f
               st == StatusAfterExit(t[last].act, left)
               v == [r EXCEPT !.remaining = left, !.unknown = FALSE, !.status = st]
    <3>1. st \in Status
      BY DEF StatusAfterExit, Status
    <3> HIDE DEF st, left
    <3>2. v \in RowType /\ v.opened = r.opened /\ v.remaining = left
      BY <1>4, <3>1 DEF RowType
    <3>3. s = IF \E f \in B : PartiallyReduced(v, t, f)
              THEN [v EXCEPT !.status = "reducing"] ELSE v
      BY <2>2 DEF ApplyDeferredAllocations, B, st, left
    <3> HIDE DEF v
    <3>4. /\ [v EXCEPT !.status = "reducing"] \in RowType
          /\ [v EXCEPT !.status = "reducing"].opened = r.opened
          /\ [v EXCEPT !.status = "reducing"].remaining = left
      BY <3>2 DEF RowType, Status
    <3> HIDE DEF s
    <3> QED BY <3>2, <3>3, <3>4
  <2> QED BY <2>1, <2>2
<1> QED BY <1>3, <1>5 DEF s, left, B

\* It moves the batch from deferred to applied, so the row stays balanced.
LEMMA DrainKeepsBalance ==
    ASSUME NEW r \in RowType, NEW t \in Table, Balanced(r, t),
           \A f \in Deferred(t) : t[f].act \in ExitAct
    PROVE  Balanced(ApplyDeferredAllocations(r, t), MarkApplied(t, DeferredBatch(r, t)))
<1> DEFINE B == DeferredBatch(r, t)
           u == MarkApplied(t, B)
           s == ApplyDeferredAllocations(r, t)
           left == r.remaining - Sum(t, B)
<1>1. B \subseteq Deferred(t) /\ Sum(t, B) <= r.remaining
  BY BatchFits
<1>2. B \in SUBSET Fill
  BY <1>1 DEF Deferred
<1> HIDE DEF B
<1>3. /\ u \in Table
      /\ \A f \in Fill : /\ u[f].act = t[f].act /\ u[f].qty = t[f].qty
                         /\ u[f].applied <=> (t[f].applied \/ f \in B)
  BY <1>2, MarkAppliedTable
<1> HIDE DEF u
<1>4. r.opened \in Nat /\ r.remaining \in Nat /\ Sum(t, B) \in Nat /\ left \in Nat
  <2>1. r.opened \in Nat /\ r.remaining \in Nat
    BY DEF RowType
  <2>2. Sum(t, B) \in Nat
    BY <1>2, SumFinite
  <2> QED BY <1>1, <2>1, <2>2
<1>5. s \in RowType /\ s.opened = r.opened /\ s.remaining = left
  BY DrainType DEF B
<1> HIDE DEF s
<1>6. Opens(u) = Opens(t) /\ Closes(u) = Closes(t) \cup B
  <2>1. \A f \in B : t[f].act \in ExitAct /\ t[f].act # "open"
    BY <1>1 DEF ExitAct
  <2> QED BY <1>2, <1>3, <2>1 DEF Opens, Closes
<1>7. Opens(t) \in SUBSET Fill /\ Closes(t) \in SUBSET Fill /\ Closes(t) \cap B = {}
  BY <1>1 DEF Opens, Closes, Deferred
<1>8. Sum(u, Opens(u)) = Sum(t, Opens(t))
  <2>1. \A f \in Opens(t) : u[f].qty = t[f].qty
    BY <1>3, <1>7
  <2>2. Sum(u, Opens(t)) = Sum(t, Opens(t))
    BY <2>1, SumSame
  <2> QED BY <1>6, <2>2
<1>9. Sum(u, Closes(u)) = Sum(t, Closes(t)) + Sum(t, B)
  <2>1. \A f \in Closes(t) \cup B : u[f].qty = t[f].qty
    BY <1>2, <1>3, <1>7
  <2>2. Sum(u, Closes(t) \cup B) = Sum(t, Closes(t) \cup B)
    BY <2>1, SumSame
  <2>3. Sum(t, Closes(t) \cup B) = Sum(t, Closes(t)) + Sum(t, B)
    BY <1>2, <1>7, SumDisjoint
  <2> QED BY <1>6, <2>2, <2>3
<1>10. Sum(t, Closes(t)) \in Nat
  BY <1>7, SumFinite
<1>11. Balanced(s, u)
  <2>1. r.opened = Sum(t, Opens(t)) /\ r.opened = r.remaining + Sum(t, Closes(t))
    BY DEF Balanced
  <2> QED BY <1>4, <1>5, <1>8, <1>9, <1>10, <2>1 DEF Balanced
<1> QED BY <1>11 DEF s, u, B

-----------------------------------------------------------------------------
(***************************************************************************)
(* What each transaction does to the identifiers of a row, and when links  *)
(* and identifiers tell the truth about an order.                          *)
(***************************************************************************)

\* What order attribution rests on: a link says open exactly for the entry; the
\* identifiers of the row are linked; the action in the metadata is that of the
\* client id.
LinksTrue(l) == \A o \in Order : l[o] # "none" => (l[o] = "open" <=> o = Entry)
Linked(l, o) == o # NoOrder => l[o] # "none"
ActionTrue(r) == r.cl # NoOrder => (r.action = "open" <=> r.cl = Entry)
RowTrue(r, l) == Linked(l, r.ord) /\ Linked(l, r.prev) /\ ActionTrue(r)

\* Links are only added.
LinksGrow(l, m) == \A o \in Order : l[o] # "none" => m[o] = l[o]

\* link_execution_order writes the action of an order once.
LEMMA LinkKeepsTrue ==
    ASSUME NEW l \in [Order -> Actions], LinksTrue(l), NEW o \in Order,
           NEW act \in Actions \ {"none"}, act = "open" <=> o = Entry
    PROVE  /\ LinksTrue(LinkExecutionOrder(l, o, act))
           /\ LinksGrow(l, LinkExecutionOrder(l, o, act))
           /\ LinkExecutionOrder(l, o, act)[o] # "none"
  BY DEF LinkExecutionOrder, LinksTrue, LinksGrow

\* What is linked stays linked.
LEMMA LinkedStays ==
    ASSUME NEW l, NEW m, LinksGrow(l, m), NEW o \in OrderOrNone, Linked(l, o)
    PROVE  Linked(m, o)
  BY DEF Linked, LinksGrow, OrderOrNone

\* A row that is true stays so while links are only added.
LEMMA RowStaysTrue ==
    ASSUME NEW l, NEW m, LinksGrow(l, m), NEW r \in RowType, RowTrue(r, l)
    PROVE  RowTrue(r, m)
  BY LinkedStays DEF RowTrue, RowType

\* The same identifiers: what the tracking of an order may do to a row.
Tracks(r, s) ==
    /\ s.ord \in {r.ord, NoOrder} /\ s.cl \in {r.cl, NoOrder}
    /\ s.action = r.action /\ s.prev = r.prev

\* Tracking keeps a row true.
LEMMA TracksTrue ==
    ASSUME NEW r \in RowType, NEW s \in RowType, Tracks(r, s), NEW l, RowTrue(r, l)
    PROVE  RowTrue(s, l) /\ s.action = r.action
  BY DEF Tracks, RowTrue, Linked, ActionTrue, RowType

\* update_execution_tracking keeps or clears identifiers.
LEMMA TrackingTracks ==
    ASSUME NEW r \in RowType, NEW o, NEW completed
    PROVE  Tracks(r, UpdateExecutionTracking(r, o, completed))
  BY DEF UpdateExecutionTracking, Tracks, RowType

\* _update_trade_and_status.
LEMMA AfterRecordTracks ==
    ASSUME NEW r \in RowType, NEW t, NEW f
    PROVE  Tracks(r, AfterRecord(r, t, f))
<1> DEFINE s == IF PartiallyReduced(r, t, f) THEN [r EXCEPT !.status = "reducing"]
                ELSE r
<1>1. s \in RowType /\ s.ord = r.ord /\ s.cl = r.cl /\ s.action = r.action /\ s.prev = r.prev
  BY DEF RowType, Status
<1> HIDE DEF s
<1>2. Tracks(s, UpdateExecutionTracking(s, t[f].ord, OrderCompleted(r, t, f)))
  BY <1>1, TrackingTracks
<1>3. AfterRecord(r, t, f)
        = UpdateExecutionTracking(s, t[f].ord, OrderCompleted(r, t, f))
  BY DEF AfterRecord, s
<1> QED BY <1>1, <1>2, <1>3 DEF Tracks

\* _apply_allocation_fields.
LEMMA RecordTracks ==
    ASSUME NEW r \in RowType, NEW act, NEW q
    PROVE  Tracks(r, ApplyAllocationFields(r, act, q))
  BY DEF ApplyAllocationFields, Tracks, RowType

\* apply_deferred_allocations.
LEMMA DrainTracks ==
    ASSUME NEW r \in RowType, NEW t
    PROVE  Tracks(r, ApplyDeferredAllocations(r, t))
  BY DEF ApplyDeferredAllocations, Tracks, RowType

\* recover_client_order_intent.
LEMMA RecoverIntentTracks ==
    ASSUME NEW r \in RowType, NEW o
    PROVE  Tracks(r, RecoverClientOrderIntent(r, o))
  BY DEF RecoverClientOrderIntent, Tracks, RowType

\* recover_terminal_order.
LEMMA RecoverTerminalTracks ==
    ASSUME NEW r \in RowType, NEW o
    PROVE  Tracks(r, RecoverTerminalOrder(r, o))
  BY DEF RecoverTerminalOrder, Tracks, RowType

\* release_pending_execution gives back the order it replaced.
LEMMA ReleaseTrue ==
    ASSUME NEW r \in RowType, NEW o, NEW l, RowTrue(r, l)
    PROVE  /\ RowTrue(ReleasePendingExecution(r, o), l)
           /\ ReleasePendingExecution(r, o).action = r.action
  BY DEF ReleasePendingExecution, RowTrue, Linked, ActionTrue, RowType

\* link_exchange_order with its link: the row's order is linked.
LEMMA LinkTrue ==
    ASSUME NEW r \in RowType, NEW o \in Order, NEW l, RowTrue(r, l), l[o] # "none"
    PROVE  RowTrue(LinkExchangeOrder(r, o), l) /\ LinkExchangeOrder(r, o).action = r.action
  BY DEF LinkExchangeOrder, RowTrue, Linked, ActionTrue, RowType

-----------------------------------------------------------------------------
(***************************************************************************)
(* What each transaction does to the status of a row.                      *)
(***************************************************************************)

\* A set with an allocation of at least one contract has a positive sum.
LEMMA SumPositive ==
    ASSUME NEW t \in Table, NEW S \in SUBSET Fill, NEW f \in S, t[f].qty >= 1
    PROVE  Sum(t, S) >= 1
<1>1. S = (S \ {f}) \cup {f} /\ (S \ {f}) \cap {f} = {} /\ f \in Fill
  OBVIOUS
<1>2. Sum(t, S) = Sum(t, S \ {f}) + Sum(t, {f})
  <2>1. Sum(t, (S \ {f}) \cup {f}) = Sum(t, S \ {f}) + Sum(t, {f})
    BY <1>1, SumDisjoint
  <2> QED BY <1>1, <2>1
<1>3. Sum(t, S \ {f}) \in Nat
  BY SumFinite
<1>4. Sum(t, {f}) = t[f].qty /\ t[f].qty \in Nat
  BY <1>1, SumSingle, QuantityBound
<1> QED BY <1>2, <1>3, <1>4

\* The unit has ended.
Over(r) == r.status \in {"closed", "failed"}

\* The status is backed by the quantities; closing with nothing left is only
\* the emergency close of an entry whose fills were not ingested yet.
StatusTrue(r) ==
    /\ r.status \in {"pending_open", "failed"} => r.opened = 0
    /\ r.status = "closed" => r.remaining = 0
    /\ r.status \in {"open", "reducing"} => r.remaining > 0
    /\ r.status = "closing" =>
          r.remaining > 0 \/ (r.opened = 0 /\ r.emergency /\ r.action = "close")

\* A balanced row holds no more than it opened.
LEMMA BalancedBound ==
    ASSUME NEW r \in RowType, NEW t \in Table, Balanced(r, t)
    PROVE  r.remaining <= r.opened
<1>1. Closes(t) \in SUBSET Fill /\ r.remaining \in Nat /\ r.opened \in Nat
  BY DEF Closes, RowType
<1>2. Sum(t, Closes(t)) \in Nat
  BY <1>1, SumFinite
<1>3. r.opened = r.remaining + Sum(t, Closes(t))
  BY DEF Balanced
<1> QED BY <1>1, <1>2, <1>3

\* A unit with an applied fill has opened something.
LEMMA AppliedMeansOpened ==
    ASSUME NEW r \in RowType, NEW t \in Table, Balanced(r, t), NEW f \in Fill,
           t[f].applied, t[f].act # "none", t[f].qty >= 1
    PROVE  r.opened > 0
<1>1. /\ Opens(t) \in SUBSET Fill /\ Closes(t) \in SUBSET Fill
      /\ r.remaining \in Nat /\ r.opened \in Nat
  BY DEF Opens, Closes, RowType
<1>2. f \in Opens(t) \/ f \in Closes(t)
  <2>1. t[f].act \in Actions
    BY DEF Table, AllocType
  <2> QED BY <2>1 DEF Opens, Closes, ExitAct, Actions
<1>3. Sum(t, Opens(t)) >= 1 \/ Sum(t, Closes(t)) >= 1
  BY <1>1, <1>2, SumPositive
<1>4. Sum(t, Opens(t)) \in Nat /\ Sum(t, Closes(t)) \in Nat
  BY <1>1, SumFinite
<1>5. r.opened = Sum(t, Opens(t)) /\ r.opened = r.remaining + Sum(t, Closes(t))
  BY DEF Balanced
<1> QED BY <1>1, <1>3, <1>4, <1>5

\* record_allocation of at least one contract: an admitted fill finds a unit
\* that is not over, and leaves a status that its quantities back.
LEMMA RecordStatus ==
    ASSUME NEW r \in RowType, NEW a \in AllocType, a.act # "none", a.qty >= 1,
           ValidAllocation(r, a.act, a.qty), StatusTrue(r), r.remaining <= r.opened
    PROVE  /\ StatusTrue(ApplyAllocationFields(r, a.act, a.qty))
           /\ ~Over(r)
<1> DEFINE s == ApplyAllocationFields(r, a.act, a.qty)
<1>1. r.opened \in Nat /\ r.remaining \in Nat /\ r.status \in Status /\ a.qty \in Nat
  <2>1. a.qty \in 0..EntrySize
    BY DEF AllocType
  <2> QED BY <2>1, SizeAssumption DEF RowType
<1>2. CASE a.act = "open"
  <2> DEFINE st == IF r.status \in {"planned", "pending_open"} THEN "open" ELSE r.status
             opened == r.opened + a.qty
             remaining == r.remaining + a.qty
  <2>1. s = [r EXCEPT !.opened = opened, !.remaining = remaining, !.status = st]
    BY <1>2 DEF ApplyAllocationFields
  <2>2. r.status \in {"planned", "pending_open", "open", "reducing", "closing"}
    BY <1>2 DEF ValidAllocation
  <2>3. remaining > 0 /\ st \in {"open", "reducing", "closing"}
    BY <1>1, <2>2
  <2>4. s.remaining = remaining /\ s.status = st
    <3> HIDE DEF s, st, opened, remaining
    <3> QED BY <2>1 DEF RowType
  <2>5. StatusTrue(s)
    BY <2>3, <2>4 DEF StatusTrue
  <2> QED BY <2>2, <2>5 DEF Over
<1>3. CASE a.act # "open"
  <2> DEFINE left == r.remaining - a.qty
             st == StatusAfterExit(a.act, left)
  <2>1. s = [r EXCEPT !.remaining = left, !.status = st]
    BY <1>3 DEF ApplyAllocationFields
  <2>2. a.qty <= r.remaining
    BY <1>3 DEF ValidAllocation
  <2>3. left \in Nat /\ r.remaining > 0 /\ r.opened > 0
    BY <1>1, <2>2
  <2>4. ~Over(r)
    BY <1>1, <2>3 DEF StatusTrue, Over
  <2>5. \/ st = "closed" /\ left = 0
        \/ st \in {"closing", "open"} /\ left > 0
    BY <2>3 DEF StatusAfterExit
  <2>6. s.remaining = left /\ s.status = st
    <3> HIDE DEF s, st, left
    <3> QED BY <2>1 DEF RowType
  <2>7. StatusTrue(s)
    BY <2>5, <2>6 DEF StatusTrue
  <2> QED BY <2>4, <2>7
<1> QED BY <1>2, <1>3

\* _update_trade_and_status, when the fill of a reduce left the unit closed or
\* with something to manage.
LEMMA AfterRecordStatus ==
    ASSUME NEW r \in RowType, NEW t, NEW f, StatusTrue(r),
           t[f].act = "reduce" => r.status = "closed" \/ (r.remaining > 0 /\ ~Over(r))
    PROVE  /\ StatusTrue(AfterRecord(r, t, f))
           /\ Over(r) => AfterRecord(r, t, f).status = r.status
<1> DEFINE s == IF PartiallyReduced(r, t, f) THEN [r EXCEPT !.status = "reducing"]
                ELSE r
           u == UpdateExecutionTracking(s, t[f].ord, OrderCompleted(r, t, f))
<1>1. /\ s \in RowType /\ s.opened = r.opened /\ s.remaining = r.remaining
      /\ s.emergency = r.emergency /\ s.action = r.action
      /\ s.status = IF PartiallyReduced(r, t, f) THEN "reducing" ELSE r.status
  BY DEF RowType, Status
<1>2. AfterRecord(r, t, f) = u
  BY DEF AfterRecord
<1>3. PartiallyReduced(r, t, f) => r.remaining > 0 /\ ~Over(r)
  BY DEF PartiallyReduced
<1> HIDE DEF s
<1>4. /\ u.opened = s.opened /\ u.remaining = s.remaining /\ u.status = s.status
      /\ u.emergency = s.emergency /\ u.action = s.action
  BY <1>1 DEF UpdateExecutionTracking, RowType
<1> HIDE DEF u
<1> QED BY <1>1, <1>2, <1>3, <1>4 DEF StatusTrue, Over

\* apply_deferred_allocations drains nothing from a unit with nothing left.
LEMMA NothingLeftNothingDrained ==
    ASSUME NEW r \in RowType, NEW t \in Table, \A g \in Deferred(t) : t[g].qty >= 1,
           DeferredBatch(r, t) # {}
    PROVE  r.remaining > 0
<1> DEFINE B == DeferredBatch(r, t)
<1>1. B \subseteq Deferred(t) /\ Sum(t, B) <= r.remaining /\ r.remaining \in Nat
  BY BatchFits DEF RowType
<1>2. B \in SUBSET Fill
  BY <1>1 DEF Deferred
<1>3. PICK f \in B : t[f].qty >= 1
  BY <1>1
<1> HIDE DEF B
<1>4. Sum(t, B) >= 1 /\ Sum(t, B) \in Nat
  BY <1>2, <1>3, SumPositive, SumFinite
<1> QED BY <1>1, <1>4

\* ... and leaves a status that the quantities back.
LEMMA DrainStatus ==
    ASSUME NEW r \in RowType, NEW t \in Table, StatusTrue(r), r.remaining <= r.opened,
           \A g \in Deferred(t) : t[g].qty >= 1
    PROVE  /\ StatusTrue(ApplyDeferredAllocations(r, t))
           /\ Over(r) => /\ DeferredBatch(r, t) = {}
                         /\ ApplyDeferredAllocations(r, t) = r
<1> DEFINE B == DeferredBatch(r, t)
           s == ApplyDeferredAllocations(r, t)
           left == r.remaining - Sum(t, B)
<1>1. r.opened \in Nat /\ r.remaining \in Nat
  BY DEF RowType
<1>2. Over(r) => r.remaining = 0
  BY <1>1 DEF Over, StatusTrue
<1>3. Over(r) => B = {}
  BY <1>1, <1>2, NothingLeftNothingDrained
<1>4. CASE B = {}
  <2>1. s = r
    BY <1>4 DEF ApplyDeferredAllocations
  <2> QED BY <1>4, <2>1
<1>5. CASE B # {}
  <2>1. B \subseteq Deferred(t) /\ Sum(t, B) <= r.remaining
    BY BatchFits
  <2>2. B \in SUBSET Fill
    BY <2>1 DEF Deferred
  <2> HIDE DEF B
  <2>3. Sum(t, B) \in Nat
    BY <2>2, SumFinite
  <2>4. left \in Nat
    BY <1>1, <2>1, <2>3
  <2> DEFINE last == CHOOSE f \in B : \A g \in B : g <= f
             st == StatusAfterExit(t[last].act, left)
             v == [r EXCEPT !.remaining = left, !.unknown = FALSE, !.status = st]
  <2>5. \/ st = "closed" /\ left = 0
        \/ st \in {"closing", "open"} /\ left > 0
    BY <2>4 DEF StatusAfterExit
  <2>6. s = IF \E f \in B : PartiallyReduced(v, t, f)
            THEN [v EXCEPT !.status = "reducing"] ELSE v
    BY <1>5 DEF ApplyDeferredAllocations, B
  <2> HIDE DEF st, left
  <2>7. st \in Status
    BY <2>5 DEF Status
  <2>8. v \in RowType /\ v.remaining = left /\ v.status = st
    BY <2>4, <2>7 DEF RowType
  <2> HIDE DEF v
  <2>9. (\E f \in B : PartiallyReduced(v, t, f)) => st # "closed"
    BY <2>8 DEF PartiallyReduced
  <2>10. \/ s.status = "closed" /\ s.remaining = 0
         \/ s.status \in {"closing", "open", "reducing"} /\ s.remaining > 0
    <3>1. /\ [v EXCEPT !.status = "reducing"].status = "reducing"
          /\ [v EXCEPT !.status = "reducing"].remaining = left
      BY <2>8 DEF RowType
    <3> HIDE DEF s
    <3> QED BY <2>5, <2>6, <2>8, <2>9, <3>1
  <2> HIDE DEF s
  <2>11. StatusTrue(s)
    BY <2>10 DEF StatusTrue
  <2> QED BY <1>3, <1>5, <2>11 DEF s, B
<1> QED BY <1>4, <1>5

\* The fills that are applied.
AppliedSet(t) == {f \in Fill : t[f].applied}

\* Linking and tracking an order leave the status and the quantities alone.
SameStatus(r, s) ==
    /\ s.status = r.status /\ s.opened = r.opened /\ s.remaining = r.remaining
    /\ s.emergency = r.emergency /\ s.action = r.action

\* What leaves them alone keeps the status backed.
LEMMA SameStatusTrue ==
    ASSUME NEW r, NEW s, SameStatus(r, s), StatusTrue(r)
    PROVE  StatusTrue(s) /\ (Over(r) => s.status = r.status)
  BY DEF SameStatus, StatusTrue

\* link_exchange_order.
LEMMA LinkStatus ==
    ASSUME NEW r \in RowType, NEW o
    PROVE  SameStatus(r, LinkExchangeOrder(r, o))
  BY DEF LinkExchangeOrder, SameStatus, RowType

\* update_execution_tracking.
LEMMA TrackingStatus ==
    ASSUME NEW r \in RowType, NEW o, NEW completed
    PROVE  SameStatus(r, UpdateExecutionTracking(r, o, completed))
  BY DEF UpdateExecutionTracking, SameStatus, RowType

\* recover_client_order_intent fails only a unit that holds nothing.
LEMMA RecoverIntentStatus ==
    ASSUME NEW r \in RowType, NEW o, StatusTrue(r)
    PROVE  /\ StatusTrue(RecoverClientOrderIntent(r, o))
           /\ Over(r) => RecoverClientOrderIntent(r, o).status = r.status
  BY DEF RecoverClientOrderIntent, StatusTrue, Over, RowType

\* recover_terminal_order gives a unit back as open only with something left,
\* and closes it when nothing is.
LEMMA RecoverTerminalStatus ==
    ASSUME NEW r \in RowType, NEW o, StatusTrue(r)
    PROVE  /\ StatusTrue(RecoverTerminalOrder(r, o))
           /\ Over(r) => RecoverTerminalOrder(r, o).status = r.status
<1>1. r.opened \in Nat /\ r.remaining \in Nat
  BY DEF RowType
<1> DEFINE st == TerminalStatus(r)
           s == [r EXCEPT !.status = st, !.ord = NoOrder, !.cl = NoOrder, !.unknown = FALSE]
<1>2. CASE r.ord # o \/ r.status \notin {"pending_open", "closing", "reducing", "open"}
  BY <1>2 DEF RecoverTerminalOrder
<1>3. CASE ~(r.ord # o \/ r.status \notin {"pending_open", "closing", "reducing", "open"})
  <2>1. RecoverTerminalOrder(r, o) = s
    BY <1>3 DEF RecoverTerminalOrder
  <2>2. /\ r.status = "pending_open" => st = "failed" /\ r.opened = 0
        /\ r.status \in {"closing", "reducing"} =>
              st = IF r.remaining = 0 THEN "closed" ELSE "open"
        /\ r.status = "open" => st = "open" /\ r.remaining > 0
    BY <1>1 DEF TerminalStatus, StatusTrue
  <2> HIDE DEF st
  <2>3. s.status = st /\ s.opened = r.opened /\ s.remaining = r.remaining
    BY DEF RowType
  <2> HIDE DEF s
  <2> QED BY <1>1, <1>3, <2>1, <2>2, <2>3 DEF StatusTrue, Over
<1> QED BY <1>2, <1>3

-----------------------------------------------------------------------------
(***************************************************************************)
(* Type correctness.                                                       *)
(***************************************************************************)
\* The prepared unit is a row.
LEMMA PreparedRowType == PreparedRow \in RowType
  BY OrderFacts DEF PreparedRow, RowType, Status, Actions

\* Every request starts from, and ends in, the idle request.
LEMMA NoFlowType == NoFlow \in FlowType
  BY OrderFacts, PreparedRowType DEF NoFlow, FlowType, ExitAct

\* What a delivery of an executed, matched fill finds.
LEMMA IngestType ==
    ASSUME TypeOK, NEW f \in Fill, f \in Executed
    PROVE  /\ tape[f] \in ExecType /\ tape[f].ord \in Order
           /\ ResolvedRow(tape[f].ord) \in RowType
           /\ SameQuantity(row, ResolvedRow(tape[f].ord))
           /\ ResolvedLinks(tape[f].ord) \in [Order -> Actions]
           /\ ResolveAction(tape[f].ord) \in Actions \ {"none"}
           /\ \A b \in BOOLEAN : AllocationOf(f, b) \in AllocType
<1> DEFINE o == tape[f].ord
<1>1. tape[f] \in ExecType
  BY DEF TypeOK, Executed
<1>2. o \in Order /\ tape[f].qty \in 1..EntrySize
  BY <1>1 DEF ExecType
<1>3. row \in RowType /\ links \in [Order -> Actions]
  BY DEF TypeOK
<1>4. row.action \in Actions \ {"none"}
  BY <1>3 DEF RowType
<1>5. ResolvedRow(o) \in RowType /\ SameQuantity(row, ResolvedRow(o))
  <2>1. LinkExchangeOrder(row, o) \in RowType /\ SameQuantity(row, LinkExchangeOrder(row, o))
    BY <1>2, <1>3, LinkRow
  <2> QED BY <1>3, <2>1 DEF ResolvedRow, SameQuantity
<1>6. ResolvedLinks(o) \in [Order -> Actions]
  <2>1. LinkExecutionOrder(links, o, row.action) \in [Order -> Actions]
    BY <1>2, <1>3, <1>4, LinkTable
  <2> QED BY <1>3, <2>1 DEF ResolvedLinks
<1>7. ResolveAction(o) \in Actions \ {"none"}
  BY <1>2, <1>3, <1>4 DEF ResolveAction
<1>8. ASSUME NEW b \in BOOLEAN PROVE AllocationOf(f, b) \in AllocType
  <2>1. tape[f].qty \in 0..EntrySize /\ o \in OrderOrNone
    BY <1>2, OrderFacts, SizeAssumption
  <2> QED BY <1>7, <2>1 DEF AllocationOf, AllocType
<1> QED BY <1>1, <1>2, <1>5, <1>6, <1>7, <1>8

\* The rest of ingest after the commit keeps the types and the balance.
LEMMA FinishIngestKeeps ==
    ASSUME NEW r \in RowType, NEW t \in Table, NEW f \in Fill,
           \A g \in Deferred(t) : t[g].act \in ExitAct,
           FinishIngest(r, t, f)
    PROVE  /\ row' \in RowType /\ alloc' \in Table
           /\ \A g \in Deferred(alloc') : alloc'[g].act \in ExitAct
           /\ Balanced(r, t) => Balanced(row', alloc')
<1> DEFINE s == AfterRecord(r, t, f)
<1>1. s \in RowType /\ SameQuantity(r, s)
  BY AfterRecordRow
<1>2. Balanced(r, t) => Balanced(s, t)
  BY <1>1, SameQuantityBalanced
<1>3. CASE t[f].act = "open"
  <2> HIDE DEF s
  <2>1. /\ row' = ApplyDeferredAllocations(s, t)
        /\ alloc' = MarkApplied(t, DeferredBatch(s, t))
    BY <1>3 DEF FinishIngest, s
  <2>2. row' \in RowType /\ alloc' \in Table
    BY <1>1, <2>1, DrainType
  <2>3. Balanced(s, t) => Balanced(row', alloc')
    BY <1>1, <2>1, DrainKeepsBalance
  <2>4. \A g \in Deferred(alloc') : alloc'[g].act \in ExitAct
    <3>1. DeferredBatch(s, t) \in SUBSET Fill
      BY <1>1, BatchFits DEF Deferred
    <3>2. \A g \in Fill : /\ alloc'[g].act = t[g].act
                          /\ alloc'[g].applied <=> (t[g].applied \/ g \in DeferredBatch(s, t))
      BY <2>1, <3>1, MarkAppliedTable
    <3> QED BY <3>2 DEF Deferred
  <2> QED BY <1>2, <2>2, <2>3, <2>4
<1>4. CASE t[f].act # "open"
  <2>1. row' = s /\ alloc' = t
    BY <1>4 DEF FinishIngest
  <2> QED BY <1>1, <1>2, <2>1
<1> QED BY <1>3, <1>4

\* A delivery that is admitted records a row of the table.
LEMMA NewFillType ==
    ASSUME TypeOK, NEW f \in Fill, NewFill(f), ~Defers(f), Accepts(f)
    PROVE  /\ RecordedRow(f) \in RowType /\ RecordedAlloc(f) \in Table
           /\ RecordedAlloc(f)[f].applied
           /\ \A g \in Fill : g # f => RecordedAlloc(f)[g] = alloc[g]
           /\ Balanced(row, alloc) => Balanced(RecordedRow(f), RecordedAlloc(f))
<1> DEFINE o == tape[f].ord
           r == ResolvedRow(o)
           a == AllocationOf(f, TRUE)
<1>1. /\ f \in Executed /\ alloc[f].act = "none" /\ alloc \in Table
  BY DEF NewFill, TypeOK, Table
<1>2. /\ r \in RowType /\ SameQuantity(row, r) /\ a \in AllocType
      /\ ResolveAction(o) \in Actions \ {"none"}
  BY <1>1, IngestType
<1>3. a.applied /\ a.act = ResolveAction(o) /\ a.qty = tape[f].qty /\ a.act # "none"
  BY <1>2 DEF AllocationOf
<1>4. ValidAllocation(r, a.act, a.qty)
  BY <1>3 DEF Accepts
<1>5. RecordedRow(f) = ApplyAllocationFields(r, a.act, a.qty)
  BY <1>3 DEF RecordedRow
<1>6. RecordedAlloc(f) = [alloc EXCEPT ![f] = a]
  BY DEF RecordedAlloc
<1> HIDE DEF r, a
<1>7. RecordedRow(f) \in RowType
  BY <1>2, <1>3, <1>4, <1>5, RecordType
<1>8. Balanced(row, alloc) => Balanced(RecordedRow(f), RecordedAlloc(f))
  <2> SUFFICES ASSUME Balanced(row, alloc)
               PROVE  Balanced(RecordedRow(f), RecordedAlloc(f))
    OBVIOUS
  <2>1. Balanced(r, alloc)
    BY <1>2, SameQuantityBalanced
  <2>2. Balanced(ApplyAllocationFields(r, a.act, a.qty), [alloc EXCEPT ![f] = a])
    BY <1>1, <1>2, <1>3, <1>4, <2>1, RecordKeepsBalance
  <2> QED BY <1>5, <1>6, <2>2
<1>9. /\ RecordedAlloc(f) \in Table /\ RecordedAlloc(f)[f] = a
      /\ \A g \in Fill : g # f => RecordedAlloc(f)[g] = alloc[g]
  BY <1>1, <1>2, <1>6 DEF Table
<1> QED BY <1>3, <1>7, <1>8, <1>9

\* Only exits are ever deferred (ingest defers a fill whose action is reduce
\* or close): what apply_deferred_allocations drains only ever closes.
DeferredAreExits == \A f \in Deferred(alloc) : alloc[f].act \in ExitAct

\* Types and the shape of the deferred rows are inductive together: draining
\* the deferred rows must leave a natural number.
TypeInv == TypeOK /\ DeferredAreExits

\* Ingestion keeps the types: every delivery, and a crash inside one.
LEMMA IngestKeepsTypes ==
    ASSUME TypeInv, IngestNext
    PROVE  TypeInv'
<1> USE DEF TypeInv
<1>0. PICK f \in Fill : \/ ApplyFill(f) \/ DeferFill(f) \/ RejectFill(f)
                        \/ RedeliverFill(f) \/ CrashInIngest(f)
  BY DEF IngestNext
<1>1. alloc \in Table /\ row \in RowType
  BY DEF TypeOK, Table
<1>2. ASSUME NewFill(f) PROVE links' \in [Order -> Actions]
  BY <1>2, IngestType DEF NewFill
<1>3. ASSUME NewFill(f), ~Defers(f), Accepts(f)
      PROVE  \A g \in Deferred(RecordedAlloc(f)) : RecordedAlloc(f)[g].act \in ExitAct
  BY <1>3, NewFillType DEF DeferredAreExits, Deferred
<1>4. ASSUME UNCHANGED exchange, UNCHANGED threads, rejected' \in SUBSET Fill,
             row' \in RowType, links' \in [Order -> Actions], alloc' \in Table
      PROVE  TypeOK'
  BY <1>4 DEF TypeOK, exchange, threads, Table
<1>5. CASE ApplyFill(f)
  <2>1. /\ NewFill(f) /\ ~Defers(f) /\ Accepts(f)
        /\ FinishIngest(RecordedRow(f), RecordedAlloc(f), f)
        /\ UNCHANGED <<rejected, exchange, threads>>
    BY <1>5 DEF ApplyFill
  <2>2. RecordedRow(f) \in RowType /\ RecordedAlloc(f) \in Table
    BY <2>1, NewFillType
  <2>3. /\ row' \in RowType /\ alloc' \in Table
        /\ \A g \in Deferred(alloc') : alloc'[g].act \in ExitAct
    BY <1>3, <2>1, <2>2, FinishIngestKeeps
  <2>4. TypeOK'
    BY <1>2, <1>4, <2>1, <2>3 DEF TypeOK
  <2> QED BY <2>3, <2>4 DEF DeferredAreExits
<1>6. CASE DeferFill(f)
  <2>1. /\ NewFill(f) /\ Defers(f) /\ f \in Executed /\ alloc[f].act = "none"
        /\ alloc' = [alloc EXCEPT ![f] = AllocationOf(f, FALSE)]
        /\ row' = UpdateExecutionTracking(ResolvedRow(tape[f].ord), tape[f].ord, TRUE)
        /\ UNCHANGED <<rejected, exchange, threads>>
    BY <1>6 DEF DeferFill, NewFill
  <2>2. row' \in RowType
    BY <2>1, IngestType, TrackingRow
  <2>3. AllocationOf(f, FALSE) \in AllocType
    BY <2>1, IngestType
  <2>4. /\ alloc' \in Table /\ alloc'[f] = AllocationOf(f, FALSE)
        /\ \A g \in Fill : g # f => alloc'[g] = alloc[g]
    BY <1>1, <2>1, <2>3 DEF Table
  <2>5. alloc'[f].act \in ExitAct
    BY <2>1, <2>4 DEF Defers, DeferClose, AllocationOf
  <2>6. DeferredAreExits'
    BY <2>4, <2>5 DEF DeferredAreExits, Deferred
  <2>7. TypeOK'
    BY <1>2, <1>4, <2>1, <2>2, <2>4 DEF TypeOK
  <2> QED BY <2>6, <2>7
<1>7. CASE RejectFill(f)
  <2>1. /\ NewFill(f) /\ f \in Executed /\ rejected' = rejected \cup {f}
        /\ row' = ResolvedRow(tape[f].ord) /\ alloc' = alloc
        /\ UNCHANGED <<exchange, threads>>
    BY <1>7 DEF RejectFill, NewFill
  <2>2. row' \in RowType
    BY <2>1, IngestType
  <2>3. rejected' \in SUBSET Fill
    BY <2>1 DEF TypeOK
  <2>4. TypeOK'
    BY <1>1, <1>2, <1>4, <2>1, <2>2, <2>3
  <2> QED BY <2>1, <2>4 DEF DeferredAreExits
<1>8. CASE RedeliverFill(f)
  <2>1. FinishIngest(row, alloc, f) /\ UNCHANGED <<links, rejected, exchange, threads>>
    BY <1>8 DEF RedeliverFill
  <2>2. /\ row' \in RowType /\ alloc' \in Table
        /\ \A g \in Deferred(alloc') : alloc'[g].act \in ExitAct
    BY <1>1, <2>1, FinishIngestKeeps DEF DeferredAreExits
  <2>3. TypeOK'
    BY <1>4, <2>1, <2>2 DEF TypeOK
  <2> QED BY <2>2, <2>3 DEF DeferredAreExits
<1>9. CASE CrashInIngest(f)
  <2>1. /\ NewFill(f) /\ ~Defers(f) /\ Accepts(f)
        /\ row' = RecordedRow(f) /\ alloc' = RecordedAlloc(f)
        /\ crashes < MaxCrash /\ Restart /\ UNCHANGED <<rejected, exchange>>
    BY <1>9 DEF CrashInIngest
  <2>2. row' \in RowType /\ alloc' \in Table /\ links' \in [Order -> Actions]
    BY <1>2, <2>1, NewFillType
  <2>3. entryPc' = "done" /\ flow' \in FlowType /\ crashes' \in 0..MaxCrash
    BY <2>1, NoFlowType, CrashAssumption DEF Restart, TypeOK
  <2>4. TypeOK'
    BY <2>1, <2>2, <2>3 DEF TypeOK, exchange, Table
  <2> QED BY <1>3, <2>1, <2>4 DEF DeferredAreExits
<1> QED BY <1>0, <1>5, <1>6, <1>7, <1>8, <1>9

\* The table does not change, and neither do the quantities of the row.
Quiet == alloc' = alloc /\ SameQuantity(row, row')

\* Executions and cancels leave the store alone.
LEMMA ExchangeKeepsTypes ==
    ASSUME TypeOK, ExchangeNext
    PROVE  TypeOK' /\ Quiet /\ flow' = flow
<1>1. /\ book \in [Order -> BookType] /\ tape \in Seq(ExecType) /\ net \in Nat
      /\ Entry \in Order /\ Exits \subseteq Order /\ EntrySize \in Nat
  BY OrderFacts, SizeAssumption DEF TypeOK
<1>2. ASSUME UNCHANGED <<store, threads>>, book' \in [Order -> BookType],
             tape' \in Seq(ExecType), net' \in Nat
      PROVE  TypeOK' /\ Quiet /\ flow' = flow
  BY <1>2 DEF TypeOK, Quiet, SameQuantity, store, threads
<1>3. CASE FillEntry
  <2>1. PICK k \in 1..EntrySize :
           tape' = tape \o (IF k = EntrySize THEN <<[ord |-> Entry, qty |-> k]>>
                            ELSE <<[ord |-> Entry, qty |-> k],
                                   [ord |-> Entry, qty |-> EntrySize - k]>>)
    BY <1>3 DEF FillEntry
  <2>2. /\ [ord |-> Entry, qty |-> k] \in ExecType
        /\ k # EntrySize => [ord |-> Entry, qty |-> EntrySize - k] \in ExecType
    BY <1>1 DEF ExecType
  <2>3. tape' \in Seq(ExecType)
    <3>1. CASE k = EntrySize
      BY <1>1, <2>1, <2>2, <3>1
    <3>2. CASE k # EntrySize
      BY <1>1, <2>1, <2>2, <3>2
    <3> QED BY <3>1, <3>2
  <2>4. book' \in [Order -> BookType] /\ net' \in Nat
    <3>1. book' = [book EXCEPT ![Entry].st = "filled"] /\ net' = net + EntrySize
      BY <1>3 DEF FillEntry
    <3>2. book' \in [Order -> BookType]
      BY <1>1, <3>1 DEF BookType, OnExchange
    <3> QED BY <1>1, <3>1, <3>2
  <2> QED BY <1>2, <1>3, <2>3, <2>4 DEF FillEntry
<1>4. ASSUME NEW o \in Exits, FillExit(o)
      PROVE  TypeOK' /\ Quiet /\ flow' = flow
  <2>1. PICK q \in 1..EntrySize :
           /\ q <= book[o].left /\ q <= net
           /\ tape' = Append(tape, [ord |-> o, qty |-> q])
           /\ net' = net - q
           /\ book' = [book EXCEPT ![o].left = @ - q,
                                   ![o].st = IF book[o].left = q THEN "filled" ELSE @]
    BY <1>4 DEF FillExit
  <2>2. [ord |-> o, qty |-> q] \in ExecType
    BY <1>1 DEF ExecType
  <2>3. tape' \in Seq(ExecType)
    BY <1>1, <2>1, <2>2
  <2>4. net' \in Nat
    BY <1>1, <2>1
  <2>5. book[o] \in BookType
    BY <1>1
  <2>6. /\ book[o].left - q \in Nat
        /\ (IF book[o].left = q THEN "filled" ELSE book[o].st)
              \in {"unused", "intent"} \cup OnExchange
    BY <1>1, <2>1, <2>5 DEF BookType, OnExchange
  <2>7. book' \in [Order -> BookType]
    BY <1>1, <2>1, <2>5, <2>6 DEF BookType
  <2> QED BY <1>2, <1>4, <2>3, <2>4, <2>7 DEF FillExit
<1>5. ASSUME NEW o \in Order, CancelOrder(o)
      PROVE  TypeOK' /\ Quiet /\ flow' = flow
  <2>1. book' \in [Order -> BookType]
    BY <1>1, <1>5 DEF CancelOrder, BookType, OnExchange
  <2> QED BY <1>1, <1>2, <1>5, <2>1 DEF CancelOrder
<1> QED BY <1>3, <1>4, <1>5 DEF ExchangeNext

\* A crash leaves the store as the last transaction left it.
LEMMA CrashKeepsTypes ==
    ASSUME TypeOK, Crash
    PROVE  TypeOK' /\ Quiet /\ flow' = NoFlow
<1>1. entryPc' = "done" /\ flow' \in FlowType /\ crashes' \in 0..MaxCrash
  BY NoFlowType, CrashAssumption DEF Crash, Restart, TypeOK
<1> QED BY <1>1 DEF Crash, Restart, TypeOK, Quiet, SameQuantity, store, exchange

\* The exchange accepting an order keeps the book's type.
LEMMA AcceptType ==
    ASSUME TypeOK, NEW o \in Order
    PROVE  AcceptOrder(o) \in [Order -> BookType]
<1>1. book \in [Order -> BookType]
  BY DEF TypeOK
<1> QED BY <1>1 DEF AcceptOrder, BookType, OnExchange

\* The steps of an entry's submission.
LEMMA EntryKeepsTypes ==
    ASSUME TypeOK, EntryNext
    PROVE  TypeOK' /\ Quiet /\ (flow' = flow \/ flow'.pc = "submit")
<1>1. /\ row \in RowType /\ links \in [Order -> Actions] /\ flow \in FlowType
      /\ book \in [Order -> BookType] /\ Entry \in Order /\ Exits \subseteq Order
      /\ Entry \in OrderOrNone
  BY OrderFacts DEF TypeOK
<1>2. ASSUME row' \in RowType, SameQuantity(row, row'), links' \in [Order -> Actions],
             book' \in [Order -> BookType], flow' \in FlowType,
             entryPc' \in {"submit", "link", "emergency", "done"},
             UNCHANGED <<alloc, rejected, tape, net, crashes>>
      PROVE  TypeOK' /\ Quiet
  BY <1>2 DEF TypeOK, Quiet
<1>3. SameQuantity(row, row)
  BY DEF SameQuantity
<1>4. AcceptOrder(Entry) \in [Order -> BookType]
  BY <1>1, AcceptType
<1>5. CASE SubmitEntry
  <2>1. UNCHANGED <<row, links, alloc, rejected, tape, net, flow, crashes>>
    BY <1>5 DEF SubmitEntry, store
  <2> QED BY <1>1, <1>2, <1>3, <1>4, <1>5, <2>1 DEF SubmitEntry
<1>6. CASE EntryReplyEmpty
  <2>1. row' \in RowType /\ SameQuantity(row, row')
    BY <1>1, <1>6, RecoverIntentRow DEF EntryReplyEmpty
  <2> QED BY <1>1, <1>2, <1>4, <1>6, <2>1 DEF EntryReplyEmpty
<1>7. CASE RecordEntrySubmission
  <2>1. row' \in RowType /\ SameQuantity(row, row')
    BY <1>1, <1>7, LinkRow DEF RecordEntrySubmission
  <2>2. row.action \in Actions
    BY <1>1 DEF RowType
  <2>3. links' \in [Order -> Actions]
    BY <1>1, <1>7, <2>2, LinkTable DEF RecordEntrySubmission
  <2>4. entryPc' \in {"submit", "link", "emergency", "done"}
    BY <1>7 DEF RecordEntrySubmission
  <2>5. UNCHANGED <<alloc, rejected, book, tape, net, flow, crashes>>
    BY <1>7 DEF RecordEntrySubmission, exchange
  <2> QED BY <1>1, <1>2, <2>1, <2>3, <2>4, <2>5
<1>8. ASSUME NEW o \in Exits, SubmitEmergencyClose(o)
      PROVE  TypeOK' /\ Quiet /\ (flow' = flow \/ flow'.pc = "submit")
  <2>1. UNCHANGED <<links, alloc, rejected, tape, net, crashes>> /\ entryPc' = "done"
    BY <1>8 DEF SubmitEmergencyClose
  <2>2. CASE row.status # "pending_open"
    <3>1. UNCHANGED <<row, book, flow>>
      BY <1>8, <2>2 DEF SubmitEmergencyClose
    <3> QED BY <1>1, <1>2, <1>3, <2>1, <3>1
  <2>3. CASE row.status = "pending_open"
    <3> DEFINE c == ClaimPendingExecution(row, "closing", o, "close", Entry, Entry)
    <3>1. /\ row' = [c EXCEPT !.emergency = TRUE]
          /\ book' = [book EXCEPT ![o] = [st |-> "intent", left |-> EntrySize]]
          /\ flow' = [pc |-> "submit", ord |-> o, act |-> "close",
                      qty |-> EntrySize, onEmpty |-> "retry", snap |-> row]
      BY <1>8, <2>3 DEF SubmitEmergencyClose
    <3>2. o \in Order /\ "closing" \in Status /\ "close" \in ExitAct /\ EntrySize \in Nat
      BY <1>1, SizeAssumption DEF Status, ExitAct
    <3>3. c \in RowType /\ SameQuantity(row, c)
      BY <1>1, <3>2, ClaimRow
    <3> HIDE DEF c
    <3>4. row' \in RowType /\ SameQuantity(row, row')
      BY <3>1, <3>3 DEF RowType, SameQuantity
    <3>5. book' \in [Order -> BookType]
      BY <1>1, <3>1, <3>2 DEF BookType
    <3>6. flow' \in FlowType /\ flow'.pc = "submit"
      BY <1>1, <3>1, <3>2 DEF FlowType
    <3> QED BY <1>1, <1>2, <2>1, <3>4, <3>5, <3>6
  <2> QED BY <2>2, <2>3
<1> QED BY <1>5, <1>6, <1>7, <1>8 DEF EntryNext

\* The steps of an exit request.  Only the save() of mark_pending_execution
\* writes quantities: those it read before.
LEMMA ExitKeepsTypes ==
    ASSUME TypeOK, ExitNext
    PROVE  /\ TypeOK' /\ alloc' = alloc
           /\ flow.pc # "save" => SameQuantity(row, row')
           /\ flow.pc = "save" => SameQuantity(flow.snap, row')
           /\ flow'.pc = "save" => flow'.snap = row'
<1>1. /\ row \in RowType /\ links \in [Order -> Actions] /\ flow \in FlowType
      /\ book \in [Order -> BookType] /\ Exits \subseteq Order
  BY OrderFacts DEF TypeOK
<1>2. /\ flow.ord \in Order /\ flow.act \in ExitAct /\ flow.qty \in Nat
      /\ flow.snap \in RowType
  BY <1>1 DEF FlowType
<1>3. ASSUME row' \in RowType, links' \in [Order -> Actions],
             book' \in [Order -> BookType], flow' \in FlowType,
             UNCHANGED <<alloc, rejected, tape, net, entryPc, crashes>>
      PROVE  TypeOK' /\ alloc' = alloc
  BY <1>3 DEF TypeOK
<1>4. SameQuantity(row, row) /\ NoFlow \in FlowType /\ NoFlow.pc = "idle"
  BY NoFlowType DEF SameQuantity, NoFlow
<1>5. PendingStatus(flow.act) \in Status
  BY DEF PendingStatus, Status
<1>6. ASSUME NEW o \in Exits, NEW act \in ExitAct, RequestExit(o, act)
      PROVE  /\ TypeOK' /\ alloc' = alloc /\ row' = row
             /\ flow.pc = "idle" /\ flow'.pc = "read"
  <2>1. /\ flow.pc = "idle"
        /\ UNCHANGED <<row, links, alloc, rejected, tape, net, entryPc, crashes>>
    BY <1>6 DEF RequestExit, store
  <2>2. PICK q \in 1..EntrySize :
          /\ flow' = [pc |-> "read", ord |-> o, act |-> act, qty |-> q,
                      onEmpty |-> "release", snap |-> row]
          /\ book' = [book EXCEPT ![o] = [st |-> "intent", left |-> q]]
    BY <1>6 DEF RequestExit
  <2>3. q \in Nat /\ o \in Order
    BY <1>1, SizeAssumption
  <2>4. flow' \in FlowType /\ flow'.pc = "read"
    BY <1>1, <2>2, <2>3 DEF FlowType
  <2>5. book' \in [Order -> BookType]
    BY <1>1, <2>2, <2>3 DEF BookType
  <2> QED BY <1>1, <1>3, <2>1, <2>4, <2>5
<1>7. CASE ClaimExit
  <2>1. flow.pc = "read"
        /\ UNCHANGED <<links, alloc, rejected, book, tape, net, entryPc, crashes>>
    BY <1>7 DEF ClaimExit, exchange
  <2>2. CASE row.status # "open"
    <3>1. row' = row /\ flow' = NoFlow
      BY <1>7, <2>2 DEF ClaimExit
    <3> QED BY <1>1, <1>3, <1>4, <2>1, <3>1
  <2>3. CASE row.status = "open"
    <3> DEFINE c == ClaimPendingExecution(row, PendingStatus(flow.act), flow.ord,
                                          flow.act, flow.ord, flow.snap.ord)
    <3>1. row' = [c EXCEPT !.execQty = flow.qty] /\ flow' = [flow EXCEPT !.pc = "stop"]
      BY <1>7, <2>3 DEF ClaimExit
    <3>2. flow.snap.ord \in OrderOrNone
      BY <1>2 DEF RowType
    <3>3. c \in RowType /\ SameQuantity(row, c)
      BY <1>1, <1>2, <1>5, <3>2, ClaimRow
    <3> HIDE DEF c
    <3>4. row' \in RowType /\ SameQuantity(row, row')
      BY <1>2, <3>1, <3>3 DEF RowType, SameQuantity
    <3>5. flow' \in FlowType /\ flow'.pc = "stop"
      BY <1>1, <3>1 DEF FlowType
    <3> QED BY <1>1, <1>3, <2>1, <3>4, <3>5
  <2> QED BY <2>2, <2>3
<1>8. CASE CancelStopForExit
  <2>1. /\ flow.pc = "stop"
        /\ UNCHANGED <<links, alloc, rejected, book, tape, net, entryPc, crashes>>
    BY <1>8 DEF CancelStopForExit, exchange
  <2>2. \/ row' = row /\ flow' = [flow EXCEPT !.pc = "submit", !.onEmpty = "unknown"]
        \/ row' = row /\ flow' = [flow EXCEPT !.pc = "submit"]
        \/ row' = ReleasePendingExecution(row, flow.ord) /\ flow' = NoFlow
    BY <1>8 DEF CancelStopForExit
  <2>3. row' \in RowType /\ SameQuantity(row, row')
    BY <1>1, <1>4, <2>2, ReleaseRow
  <2>4. flow' \in FlowType /\ flow'.pc # "save"
    BY <1>1, <1>4, <2>2 DEF FlowType
  <2> QED BY <1>1, <1>3, <2>1, <2>3, <2>4
<1>9. CASE SubmitExit
  <2>1. /\ flow.pc = "submit" /\ book' = AcceptOrder(flow.ord)
        /\ flow' = [flow EXCEPT !.pc = "mark"]
        /\ UNCHANGED <<row, links, alloc, rejected, tape, net, entryPc, crashes>>
    BY <1>9 DEF SubmitExit, store
  <2>2. flow' \in FlowType /\ flow'.pc = "mark"
    BY <1>1, <2>1 DEF FlowType
  <2>3. book' \in [Order -> BookType]
    BY <1>2, <2>1, AcceptType
  <2> QED BY <1>1, <1>3, <1>4, <2>1, <2>2, <2>3
<1>10. CASE ExitReplyEmpty
  <2>1. /\ flow.pc = "submit" /\ book' \in {book, AcceptOrder(flow.ord)}
        /\ row' = RowAfterEmptyReply /\ flow' = NoFlow
        /\ UNCHANGED <<links, alloc, rejected, tape, net, entryPc, crashes>>
    BY <1>10 DEF ExitReplyEmpty
  <2>2. book' \in [Order -> BookType]
    BY <1>1, <1>2, <2>1, AcceptType
  <2>3. row' \in RowType /\ SameQuantity(row, row')
    <3>1. /\ ReleasePendingExecution(row, flow.ord) \in RowType
          /\ SameQuantity(row, ReleasePendingExecution(row, flow.ord))
      BY <1>1, ReleaseRow
    <3>2. /\ [row EXCEPT !.unknown = TRUE, !.attempts = 1] \in RowType
          /\ SameQuantity(row, [row EXCEPT !.unknown = TRUE, !.attempts = 1])
          /\ [row EXCEPT !.unknown = FALSE] \in RowType
          /\ SameQuantity(row, [row EXCEPT !.unknown = FALSE])
      BY <1>1 DEF RowType, SameQuantity
    <3>3. row' \in {ReleasePendingExecution(row, flow.ord),
                    [row EXCEPT !.unknown = TRUE, !.attempts = 1],
                    [row EXCEPT !.unknown = FALSE]}
      BY <2>1 DEF RowAfterEmptyReply
    <3> QED BY <3>1, <3>2, <3>3
  <2> QED BY <1>1, <1>3, <1>4, <2>1, <2>2, <2>3
<1>11. CASE MarkRead
  <2>1. /\ flow.pc = "mark" /\ flow' = [flow EXCEPT !.pc = "save", !.snap = row]
        /\ UNCHANGED <<row, links, alloc, rejected, book, tape, net, entryPc, crashes>>
    BY <1>11 DEF MarkRead, store, exchange
  <2>2. flow' \in FlowType /\ flow'.snap = row'
    BY <1>1, <2>1 DEF FlowType
  <2> QED BY <1>1, <1>3, <1>4, <2>1, <2>2
<1>12. CASE MarkSave
  <2>1. /\ flow.pc = "save" /\ row' = MarkedRow /\ flow' = NoFlow
        /\ links' = LinkExecutionOrder(links, flow.ord, MarkedRow.action)
        /\ UNCHANGED <<alloc, rejected, book, tape, net, entryPc, crashes>>
    BY <1>12 DEF MarkSave, exchange
  <2>2. MarkedRow \in RowType /\ SameQuantity(flow.snap, MarkedRow)
    <3> DEFINE r == MarkPendingExecution(flow.snap, PendingStatus(flow.act), flow.ord)
    <3>1. r \in RowType /\ SameQuantity(flow.snap, r)
      BY <1>2, <1>5, MarkRow
    <3>2. MarkedRow = IF flow.onEmpty = "retry" THEN [r EXCEPT !.cl = flow.ord]
                      ELSE [r EXCEPT !.action = flow.act, !.corr = flow.ord,
                                     !.execQty = flow.qty]
      BY DEF MarkedRow
    <3>3. flow.ord \in OrderOrNone /\ flow.act \in Actions \ {"none"}
      BY <1>2, OrderFacts DEF ExitAct, Actions
    <3> HIDE DEF r
    <3> QED BY <1>2, <3>1, <3>2, <3>3 DEF RowType, SameQuantity
  <2>3. MarkedRow.action \in Actions
    BY <2>2 DEF RowType
  <2>4. links' \in [Order -> Actions]
    BY <1>1, <1>2, <2>1, <2>3, LinkTable
  <2> QED BY <1>1, <1>3, <1>4, <2>1, <2>2, <2>4
<1> QED
  BY <1>4, <1>6, <1>7, <1>8, <1>9, <1>10, <1>11, <1>12 DEF ExitNext

\* The daemon's retries and its reconciliation of pending orders.
LEMMA DaemonKeepsTypes ==
    ASSUME TypeOK, DaemonNext
    PROVE  TypeOK' /\ Quiet /\ flow' = flow
<1>1. /\ row \in RowType /\ links \in [Order -> Actions] /\ book \in [Order -> BookType]
      /\ row.cl \in OrderOrNone /\ row.ord \in OrderOrNone /\ row.action \in Actions
      /\ row.status \in Status /\ row.attempts \in Nat
  BY DEF TypeOK, RowType
<1>2. ASSUME row' \in RowType, SameQuantity(row, row'), links' \in [Order -> Actions],
             book' \in [Order -> BookType],
             UNCHANGED <<alloc, rejected, tape, net, threads>>
      PROVE  TypeOK' /\ Quiet /\ flow' = flow
  BY <1>2 DEF TypeOK, Quiet, threads
<1>3. AwaitsRetry => row.cl \in Order
  BY <1>1 DEF AwaitsRetry, OrderOrNone
<1>4. ASSUME NEW o \in Order
      PROVE  /\ AcceptOrder(o) \in [Order -> BookType]
             /\ LinkExecutionOrder(links, o, row.action) \in [Order -> Actions]
  BY <1>1, AcceptType, LinkTable
<1>5. ASSUME NEW o \in Order, MarkInDaemon(o)
      PROVE  row' \in RowType /\ SameQuantity(row, row') /\ links' \in [Order -> Actions]
  <2> DEFINE m == MarkPendingExecution(row, row.status, o)
  <2>1. row' = [m EXCEPT !.cl = o] /\ links' = LinkExecutionOrder(links, o, row.action)
    BY <1>5 DEF MarkInDaemon
  <2>2. m \in RowType /\ SameQuantity(row, m)
    BY <1>1, MarkRow
  <2>3. o \in OrderOrNone
    BY OrderFacts
  <2> HIDE DEF m
  <2>4. row' \in RowType /\ SameQuantity(row, row')
    BY <2>1, <2>2, <2>3 DEF RowType, SameQuantity
  <2> QED BY <1>4, <2>1, <2>4
<1>6. CASE RetryUnknownExit
  <2>1. /\ row.cl \in Order /\ UNCHANGED <<alloc, rejected, tape, net, threads>>
    BY <1>3, <1>6 DEF RetryUnknownExit
  <2>2. CASE /\ book' = AcceptOrder(row.cl)
             /\ row' = [MarkPendingExecution(row, PendingStatus(row.action), row.cl)
                            EXCEPT !.attempts = @ + 1]
             /\ links' = LinkExecutionOrder(links, row.cl, row.action)
    <3> DEFINE m == MarkPendingExecution(row, PendingStatus(row.action), row.cl)
    <3>1. PendingStatus(row.action) \in Status
      BY DEF PendingStatus, Status
    <3>2. m \in RowType /\ SameQuantity(row, m)
      BY <1>1, <2>1, <3>1, MarkRow
    <3>3. row' = [m EXCEPT !.attempts = m.attempts + 1]
      BY <2>2
    <3> HIDE DEF m
    <3>4. row' \in RowType /\ SameQuantity(row, row')
      BY <3>2, <3>3 DEF RowType, SameQuantity
    <3> QED BY <1>2, <1>4, <2>1, <2>2, <3>4
  <2>3. CASE /\ book' \in {book, AcceptOrder(row.cl)}
             /\ row' = [row EXCEPT !.attempts = @ + 1] /\ UNCHANGED links
    <3>1. row' \in RowType /\ SameQuantity(row, row')
      BY <1>1, <2>3 DEF RowType, SameQuantity
    <3> QED BY <1>1, <1>2, <1>4, <2>1, <2>3, <3>1
  <2> QED BY <1>6, <2>2, <2>3 DEF RetryUnknownExit
<1>7. CASE ResolveUnknownExit
  <2>1. /\ row.cl \in Order /\ UNCHANGED <<alloc, rejected, book, tape, net, threads>>
    BY <1>3, <1>7 DEF ResolveUnknownExit, exchange
  <2>2. /\ RecoverClientOrderIntent(row, row.cl) \in RowType
        /\ SameQuantity(row, RecoverClientOrderIntent(row, row.cl))
    BY <1>1, RecoverIntentRow
  <2>3. \/ MarkInDaemon(row.cl)
        \/ row' = RecoverClientOrderIntent(row, row.cl) /\ UNCHANGED links
        \/ UNCHANGED <<row, links>>
    BY <1>7 DEF ResolveUnknownExit
  <2>4. SameQuantity(row, row)
    BY DEF SameQuantity
  <2>5. row' \in RowType /\ SameQuantity(row, row') /\ links' \in [Order -> Actions]
    BY <1>1, <1>5, <2>1, <2>2, <2>3, <2>4
  <2> QED BY <1>1, <1>2, <2>1, <2>5
<1>8. CASE RetryEmergencyClose
  <2>1. /\ row.cl \in Order /\ UNCHANGED <<alloc, rejected, tape, net, threads>>
        /\ book' \in {book, AcceptOrder(row.cl)}
    BY <1>3, <1>8 DEF RetryEmergencyClose
  <2>2. \/ MarkInDaemon(row.cl)
        \/ row' = [row EXCEPT !.unknown = FALSE] /\ UNCHANGED links
    BY <1>8 DEF RetryEmergencyClose
  <2>3. /\ [row EXCEPT !.unknown = FALSE] \in RowType
        /\ SameQuantity(row, [row EXCEPT !.unknown = FALSE])
    BY <1>1 DEF RowType, SameQuantity
  <2>4. row' \in RowType /\ SameQuantity(row, row') /\ links' \in [Order -> Actions]
    BY <1>1, <1>5, <2>1, <2>2, <2>3
  <2> QED BY <1>1, <1>2, <1>4, <2>1, <2>4
<1>9. CASE RecoverIntent
  <2>1. /\ row' = RecoverClientOrderIntent(row, row.cl)
        /\ UNCHANGED <<links, alloc, rejected, book, tape, net, threads>>
    BY <1>9 DEF RecoverIntent, exchange
  <2>2. row' \in RowType /\ SameQuantity(row, row')
    BY <1>1, <2>1, RecoverIntentRow
  <2> QED BY <1>1, <1>2, <2>1, <2>2
<1>10. CASE ReconcileOrder
  <2> DEFINE o == PendingOrder
             r == IF row.ord = NoOrder THEN LinkExchangeOrder(row, o) ELSE row
  <2>1. /\ o # NoOrder
        /\ row' = IF book[o].st = "canceled" THEN RecoverTerminalOrder(r, o) ELSE r
        /\ links' = IF row.ord = NoOrder
                    THEN LinkExecutionOrder(links, o, row.action) ELSE links
        /\ UNCHANGED <<alloc, rejected, book, tape, net, threads>>
    BY <1>10 DEF ReconcileOrder, ListedPending, exchange
  <2>2. o \in Order
    BY <1>1, <2>1 DEF PendingOrder, OrderOrNone
  <2> HIDE DEF o
  <2>3. r \in RowType /\ SameQuantity(row, r)
    <3>1. /\ LinkExchangeOrder(row, o) \in RowType
          /\ SameQuantity(row, LinkExchangeOrder(row, o))
      BY <1>1, <2>2, LinkRow
    <3> QED BY <1>1, <3>1 DEF SameQuantity
  <2> HIDE DEF r
  <2>4. /\ RecoverTerminalOrder(r, o) \in RowType
        /\ SameQuantity(r, RecoverTerminalOrder(r, o))
    BY <2>3, RecoverTerminalRow
  <2>5. row' \in RowType /\ SameQuantity(row, row')
    BY <2>1, <2>3, <2>4 DEF SameQuantity
  <2>6. links' \in [Order -> Actions]
    BY <1>1, <1>4, <2>1, <2>2
  <2> QED BY <1>1, <1>2, <2>1, <2>5, <2>6
<1> QED BY <1>6, <1>7, <1>8, <1>9, <1>10 DEF DaemonNext

\* The deferred rows stay exits when the table does not change.
LEMMA QuietKeepsDeferred ==
    ASSUME DeferredAreExits, alloc' = alloc
    PROVE  DeferredAreExits'
  BY DEF DeferredAreExits

\* The prepared unit has the types.
LEMMA TypeInit == Init => TypeInv
<1> SUFFICES ASSUME Init PROVE TypeInv
  OBVIOUS
<1>1. row \in RowType /\ flow \in FlowType
  BY PreparedRowType, NoFlowType DEF Init
<1>2. alloc \in [Fill -> AllocType] /\ Deferred(alloc) = {}
  BY OrderFacts, SizeAssumption DEF Init, NoAlloc, AllocType, Actions, Deferred
<1>3. book \in [Order -> BookType]
  BY SizeAssumption DEF Init, BookType, OnExchange
<1>4. tape \in Seq(ExecType) /\ net \in Nat /\ crashes \in 0..MaxCrash
  BY CrashAssumption DEF Init
<1>5. /\ links \in [Order -> Actions] /\ rejected \subseteq Fill
      /\ entryPc \in {"submit", "link", "emergency", "done"}
  BY DEF Init, Actions
<1> QED BY <1>1, <1>2, <1>3, <1>4, <1>5 DEF TypeInv, TypeOK, DeferredAreExits

\* Every step keeps the types.
LEMMA TypeStep == TypeInv /\ [Next]_vars => TypeInv'
<1> SUFFICES ASSUME TypeInv, [Next]_vars PROVE TypeInv'
  OBVIOUS
<1>1. TypeOK /\ DeferredAreExits
  BY DEF TypeInv
<1>2. CASE IngestNext
  BY <1>2, IngestKeepsTypes
<1>3. CASE ExchangeNext
  BY <1>1, <1>3, ExchangeKeepsTypes, QuietKeepsDeferred DEF TypeInv, Quiet
<1>4. CASE EntryNext
  BY <1>1, <1>4, EntryKeepsTypes, QuietKeepsDeferred DEF TypeInv, Quiet
<1>5. CASE ExitNext
  BY <1>1, <1>5, ExitKeepsTypes, QuietKeepsDeferred DEF TypeInv
<1>6. CASE DaemonNext
  BY <1>1, <1>6, DaemonKeepsTypes, QuietKeepsDeferred DEF TypeInv, Quiet
<1>7. CASE Crash
  BY <1>1, <1>7, CrashKeepsTypes, QuietKeepsDeferred DEF TypeInv, Quiet
<1>8. CASE UNCHANGED vars
  BY <1>1, <1>8 DEF TypeInv, TypeOK, DeferredAreExits, vars
<1> QED BY <1>2, <1>3, <1>4, <1>5, <1>6, <1>7, <1>8 DEF Next

\* Every variable keeps its type for ever, whatever is delivered, lost,
\* repeated or interrupted, with operator requests on API threads or without:
\* in particular remaining_quantity never becomes negative.
THEOREM LedgerTypes == Spec => []TypeOK
<1>1. TypeInv => TypeOK
  BY DEF TypeInv
<1> QED BY <1>1, TypeInit, TypeStep, PTL DEF Spec

-----------------------------------------------------------------------------
(***************************************************************************)
(* Conservation.  The copy of the row that mark_pending_execution holds    *)
(* between its get() and its save() has the quantities of the row: that is *)
(* what the single daemon thread guarantees and an API thread does not.    *)
(***************************************************************************)
SnapCurrent == flow.pc = "save" => SameQuantity(row, flow.snap)

LedgerInv == TypeInv /\ LedgerConserved /\ SnapCurrent

\* Ingestion keeps the balance: new fills, deferred ones, redeliveries, and a
\* crash between the commit and the rest.
LEMMA IngestKeepsBalance ==
    ASSUME TypeInv, LedgerConserved, IngestNext
    PROVE  LedgerConserved'
<1> USE DEF TypeInv, LedgerConserved
<1>0. PICK f \in Fill : \/ ApplyFill(f) \/ DeferFill(f) \/ RejectFill(f)
                        \/ RedeliverFill(f) \/ CrashInIngest(f)
  BY DEF IngestNext
<1>1. alloc \in Table /\ row \in RowType
  BY DEF TypeOK, Table
<1>2. ASSUME NewFill(f), ~Defers(f), Accepts(f)
      PROVE  /\ RecordedRow(f) \in RowType /\ RecordedAlloc(f) \in Table
             /\ Balanced(RecordedRow(f), RecordedAlloc(f))
             /\ \A g \in Deferred(RecordedAlloc(f)) :
                    RecordedAlloc(f)[g].act \in ExitAct
  BY <1>2, NewFillType DEF DeferredAreExits, Deferred
<1>3. CASE ApplyFill(f)
  <2>1. /\ NewFill(f) /\ ~Defers(f) /\ Accepts(f)
        /\ FinishIngest(RecordedRow(f), RecordedAlloc(f), f)
    BY <1>3 DEF ApplyFill
  <2> QED BY <1>2, <2>1, FinishIngestKeeps
<1>4. CASE DeferFill(f)
  <2> DEFINE a == AllocationOf(f, FALSE)
             r == ResolvedRow(tape[f].ord)
  <2>1. /\ f \in Executed /\ alloc[f].act = "none" /\ alloc' = [alloc EXCEPT ![f] = a]
        /\ row' = UpdateExecutionTracking(r, tape[f].ord, TRUE)
    BY <1>4 DEF DeferFill, NewFill
  <2>2. a \in AllocType /\ r \in RowType /\ SameQuantity(row, r)
    BY <2>1, IngestType
  <2>3. ~a.applied
    BY DEF AllocationOf
  <2> HIDE DEF a, r
  <2>4. SameQuantity(r, row')
    BY <2>1, <2>2, TrackingRow
  <2>5. SameQuantity(row, row')
    BY <2>2, <2>4 DEF SameQuantity
  <2>6. Balanced(row, alloc')
    BY <1>1, <2>1, <2>2, <2>3, DeferKeepsBalance
  <2> QED BY <2>5, <2>6, SameQuantityBalanced
<1>5. CASE RejectFill(f)
  <2>1. f \in Executed /\ row' = ResolvedRow(tape[f].ord) /\ alloc' = alloc
    BY <1>5 DEF RejectFill, NewFill
  <2>2. SameQuantity(row, row')
    BY <2>1, IngestType
  <2> QED BY <2>1, <2>2, SameQuantityBalanced
<1>6. CASE RedeliverFill(f)
  <2>1. FinishIngest(row, alloc, f)
    BY <1>6 DEF RedeliverFill
  <2> QED BY <1>1, <2>1, FinishIngestKeeps DEF DeferredAreExits
<1>7. CASE CrashInIngest(f)
  <2>1. /\ NewFill(f) /\ ~Defers(f) /\ Accepts(f)
        /\ row' = RecordedRow(f) /\ alloc' = RecordedAlloc(f)
    BY <1>7 DEF CrashInIngest
  <2> QED BY <1>2, <2>1
<1> QED BY <1>0, <1>3, <1>4, <1>5, <1>6, <1>7

\* Ingestion runs on the daemon thread, when no submission is on it.
LEMMA IngestWhenFree ==
    ASSUME ~ApiExit, IngestNext
    PROVE  flow.pc = "idle" /\ flow' \in {flow, NoFlow}
  BY DEF IngestNext, ApplyFill, DeferFill, RejectFill, RedeliverFill, CrashInIngest,
         NewFill, DaemonFree, threads, Restart

\* The prepared unit has counted nothing.
LEMMA LedgerInit == Init => LedgerInv
<1> SUFFICES ASSUME Init PROVE LedgerConserved /\ SnapCurrent
  BY TypeInit DEF LedgerInv
<1>1. Opens(alloc) = {} /\ Closes(alloc) = {}
  BY DEF Init, Opens, Closes, NoAlloc
<1>2. Sum(alloc, {}) = 0
  BY SumEmpty
<1>3. row.opened = 0 /\ row.remaining = 0 /\ flow.pc = "idle"
  BY DEF Init, PreparedRow, NoFlow
<1>4. 0 = 0 + 0
  OBVIOUS
<1> QED BY <1>1, <1>2, <1>3, <1>4 DEF LedgerConserved, Balanced, SnapCurrent

\* Every step keeps the balance and the copy that MarkSave writes back.
LEMMA LedgerStep ==
    ASSUME ~ApiExit, LedgerInv, [Next]_vars
    PROVE  LedgerInv'
<1>1. TypeInv /\ TypeOK /\ LedgerConserved /\ SnapCurrent
  BY DEF LedgerInv, TypeInv
<1>2. TypeInv'
  BY <1>1, TypeStep
<1>3. ASSUME alloc' = alloc, SameQuantity(row, row') PROVE LedgerConserved'
  BY <1>1, <1>3, SameQuantityBalanced DEF LedgerConserved
<1>4. ASSUME SameQuantity(row, row'), flow' = flow \/ flow'.pc # "save"
      PROVE  SnapCurrent'
  BY <1>1, <1>4 DEF SnapCurrent, SameQuantity
<1>5. NoFlow.pc # "save"
  BY DEF NoFlow
<1>6. CASE IngestNext
  <2>1. LedgerConserved'
    BY <1>1, <1>6, IngestKeepsBalance
  <2>2. SnapCurrent'
    BY <1>5, <1>6, IngestWhenFree DEF SnapCurrent
  <2> QED BY <1>2, <2>1, <2>2 DEF LedgerInv
<1>7. CASE ExchangeNext
  BY <1>1, <1>2, <1>3, <1>4, <1>7, ExchangeKeepsTypes DEF LedgerInv, Quiet
<1>8. CASE EntryNext
  BY <1>1, <1>2, <1>3, <1>4, <1>8, EntryKeepsTypes DEF LedgerInv, Quiet
<1>9. CASE ExitNext
  <2>1. /\ alloc' = alloc
        /\ flow.pc # "save" => SameQuantity(row, row')
        /\ flow.pc = "save" => SameQuantity(flow.snap, row')
        /\ flow'.pc = "save" => flow'.snap = row'
    BY <1>1, <1>9, ExitKeepsTypes
  <2>2. SameQuantity(row, row')
    BY <1>1, <2>1 DEF SnapCurrent, SameQuantity
  <2>3. SnapCurrent'
    BY <2>1 DEF SnapCurrent, SameQuantity
  <2> QED BY <1>2, <1>3, <2>1, <2>2, <2>3 DEF LedgerInv
<1>10. CASE DaemonNext
  BY <1>1, <1>2, <1>3, <1>4, <1>10, DaemonKeepsTypes DEF LedgerInv, Quiet
<1>11. CASE Crash
  BY <1>1, <1>2, <1>3, <1>4, <1>5, <1>11, CrashKeepsTypes DEF LedgerInv, Quiet
<1>12. CASE UNCHANGED vars
  BY <1>1, <1>2, <1>12 DEF LedgerInv, LedgerConserved, SnapCurrent, vars
<1> QED BY <1>6, <1>7, <1>8, <1>9, <1>10, <1>11, <1>12 DEF Next

\* While submissions share the daemon thread, the row's quantities are those
\* of its applied allocations, for ever: no fill is counted twice, lost or
\* half applied by redeliveries, deferrals, crashes, retries, recoveries or
\* mark_pending_execution's two-step write.
THEOREM LedgerConservation ==
    ASSUME ~ApiExit
    PROVE  Spec => []LedgerConserved
<1>1. LedgerInv => LedgerConserved
  BY DEF LedgerInv
<1> QED BY <1>1, LedgerInit, LedgerStep, PTL DEF Spec

-----------------------------------------------------------------------------
(***************************************************************************)
(* Attribution: a fill is recorded under the order that traded it, in the  *)
(* direction that order traded. This holds with and without a second       *)
(* thread.                                                                 *)
(***************************************************************************)

\* Where a request has claimed the unit.
Claimed == {"stop", "submit", "mark", "save"}

\* A request draws its id from the exits, its claim set the action, and the
\* copies it carries are true rows.
FlowTrue ==
    /\ flow.pc # "idle" => flow.ord \in Exits
    /\ flow.pc \in Claimed => row.action # "open"
    /\ flow.pc = "read" => Linked(links, flow.snap.ord)
    /\ flow.pc = "save" => RowTrue(flow.snap, links) /\ flow.snap.action # "open"
    /\ entryPc = "emergency" => links[Entry] # "none"

\* A recorded fill was executed, under this order, with this quantity, and moves
\* the quantity in the direction its order traded.
TableTrue(t) ==
    \A f \in Fill :
        /\ t[f].act # "none" =>
              /\ f \in Executed
              /\ t[f].ord = tape[f].ord /\ t[f].qty = tape[f].qty
              /\ t[f].act = "open" <=> tape[f].ord = Entry
        /\ t[f].applied => t[f].act # "none"

\* The inductive invariant behind AllocationMatchesOrder.
Attribution == LinksTrue(links) /\ RowTrue(row, links) /\ FlowTrue /\ TableTrue(alloc)

\* What a delivery of an executed, matched fill finds.
LEMMA IngestTrue ==
    ASSUME TypeOK, Attribution, NEW o \in Order, Matched(o)
    PROVE  /\ ResolveAction(o) = "open" <=> o = Entry
           /\ LinksTrue(ResolvedLinks(o)) /\ LinksGrow(links, ResolvedLinks(o))
           /\ RowTrue(ResolvedRow(o), ResolvedLinks(o))
           /\ ResolvedRow(o).action = row.action
<1>1. /\ row \in RowType /\ links \in [Order -> Actions] /\ o # NoOrder
      /\ row.action \in Actions \ {"none"}
  BY OrderAssumption DEF TypeOK, RowType
<1>2. LinksTrue(links) /\ RowTrue(row, links)
  BY DEF Attribution
<1>3. CASE KnownOrder(o)
  <2>1. links[o] # "none"
    BY <1>1, <1>2, <1>3 DEF KnownOrder, RowTrue, Linked
  <2> QED BY <1>2, <1>3, <2>1
        DEF ResolveAction, LinksTrue, LinksGrow, ResolvedLinks, ResolvedRow
<1>4. CASE ~KnownOrder(o)
  <2>1. row.cl = o /\ links[o] = "none"
    BY <1>4 DEF Matched, KnownOrder
  <2>2. row.action = "open" <=> o = Entry
    BY <1>1, <1>2, <2>1 DEF RowTrue, ActionTrue
  <2> DEFINE m == LinkExecutionOrder(links, o, row.action)
  <2>3. LinksTrue(m) /\ LinksGrow(links, m) /\ m[o] # "none"
    BY <1>1, <1>2, <2>2, LinkKeepsTrue
  <2>4. ResolvedLinks(o) = m /\ ResolvedRow(o) = LinkExchangeOrder(row, o)
    BY <1>4 DEF ResolvedLinks, ResolvedRow
  <2> HIDE DEF m
  <2>5. RowTrue(row, m)
    BY <1>1, <1>2, <2>3, RowStaysTrue
  <2>6. RowTrue(LinkExchangeOrder(row, o), m) /\ LinkExchangeOrder(row, o).action = row.action
    BY <1>1, <2>3, <2>5 DEF LinkExchangeOrder, RowTrue, Linked, ActionTrue, RowType
  <2> QED BY <2>1, <2>2, <2>3, <2>4, <2>6 DEF ResolveAction
<1> QED BY <1>3, <1>4

\* The rest of ingest leaves the table's attribution and the identifiers alone.
LEMMA FinishIngestTracks ==
    ASSUME NEW r \in RowType, NEW t \in Table, NEW f \in Fill,
           FinishIngest(r, t, f)
    PROVE  /\ Tracks(r, row') /\ row' \in RowType /\ alloc' \in Table
           /\ \A g \in Fill : /\ alloc'[g].act = t[g].act
                              /\ alloc'[g].ord = t[g].ord /\ alloc'[g].qty = t[g].qty
                              /\ t[g].applied => alloc'[g].applied
                              /\ alloc'[g].applied => t[g].applied \/ t[g].act # "none"
<1> DEFINE s == AfterRecord(r, t, f)
<1>1. s \in RowType /\ Tracks(r, s)
  BY AfterRecordRow, AfterRecordTracks
<1>2. CASE t[f].act = "open"
  <2> HIDE DEF s
  <2>1. /\ row' = ApplyDeferredAllocations(s, t)
        /\ alloc' = MarkApplied(t, DeferredBatch(s, t))
    BY <1>2 DEF FinishIngest, s
  <2>2. Tracks(s, row') /\ row' \in RowType
    BY <1>1, <2>1, DrainTracks, DrainType
  <2>3. Tracks(r, row')
    BY <1>1, <2>2 DEF Tracks
  <2>4. /\ DeferredBatch(s, t) \in SUBSET Fill
        /\ \A g \in DeferredBatch(s, t) : t[g].act # "none"
    BY <1>1, BatchFits DEF Deferred
  <2> QED BY <2>1, <2>2, <2>3, <2>4, MarkAppliedTable
<1>3. CASE t[f].act # "open"
  BY <1>1, <1>3 DEF FinishIngest
<1> QED BY <1>2, <1>3

\* A new row of the table says what the exchange executed.
LEMMA NewRowTrue ==
    ASSUME TypeOK, Attribution, NEW f \in Fill, NewFill(f)
    PROVE  /\ TableTrue([alloc EXCEPT ![f] = AllocationOf(f, TRUE)])
           /\ TableTrue([alloc EXCEPT ![f] = AllocationOf(f, FALSE)])
<1>1. f \in Executed /\ Matched(tape[f].ord) /\ tape[f].ord \in Order /\ alloc \in Table
  BY IngestType DEF NewFill, TypeOK, Table
<1>2. /\ ResolveAction(tape[f].ord) = "open" <=> tape[f].ord = Entry
      /\ ResolveAction(tape[f].ord) # "none"
  BY <1>1, IngestTrue, IngestType
<1>3. ASSUME NEW b \in BOOLEAN
      PROVE  TableTrue([alloc EXCEPT ![f] = AllocationOf(f, b)])
  <2> DEFINE t == [alloc EXCEPT ![f] = AllocationOf(f, b)]
  <2>1. AllocationOf(f, b) \in AllocType
    BY <1>1, IngestType
  <2>2. t[f] = AllocationOf(f, b) /\ \A g \in Fill : g # f => t[g] = alloc[g]
    BY <1>1, <2>1 DEF Table
  <2> HIDE DEF t
  <2>3. TableTrue(t)
    BY <1>1, <1>2, <2>2 DEF AllocationOf, Attribution, TableTrue
  <2> QED BY <2>3 DEF t
<1> QED BY <1>3

\* Ingestion: the row of a new fill is attributed to the order it came from,
\* and nothing else moves an identifier but the tracking of an order.
LEMMA IngestKeepsAttribution ==
    ASSUME TypeInv, Attribution, IngestNext
    PROVE  Attribution'
<1>0. PICK f \in Fill : \/ ApplyFill(f) \/ DeferFill(f) \/ RejectFill(f)
                        \/ RedeliverFill(f) \/ CrashInIngest(f)
  BY DEF IngestNext
<1>1. TypeOK /\ alloc \in Table /\ row \in RowType /\ flow \in FlowType
  BY DEF TypeInv, TypeOK, Table
<1>2. LinksTrue(links) /\ RowTrue(row, links) /\ FlowTrue /\ TableTrue(alloc)
  BY DEF Attribution
<1>3. ASSUME NewFill(f)
      PROVE  /\ ResolvedRow(tape[f].ord) \in RowType
             /\ RowTrue(ResolvedRow(tape[f].ord), links')
             /\ ResolvedRow(tape[f].ord).action = row.action
             /\ LinksTrue(links') /\ LinksGrow(links, links')
  <2>1. /\ f \in Executed /\ Matched(tape[f].ord) /\ links' = ResolvedLinks(tape[f].ord)
    BY <1>3 DEF NewFill
  <2>2. tape[f].ord \in Order /\ ResolvedRow(tape[f].ord) \in RowType
    BY <1>1, <2>1, IngestType
  <2> QED BY <1>1, <2>1, <2>2, IngestTrue
<1>4. ASSUME LinksGrow(links, links'), row'.action = row.action,
             \/ flow' = flow /\ entryPc' = entryPc
             \/ flow' = NoFlow /\ entryPc' = "done"
      PROVE  FlowTrue'
  <2>1. CASE flow' = NoFlow /\ entryPc' = "done"
    BY <2>1 DEF FlowTrue, NoFlow, Claimed
  <2>2. CASE flow' = flow /\ entryPc' = entryPc
    <3>1. flow.snap \in RowType /\ flow.snap.ord \in OrderOrNone /\ Entry \in Order
      BY <1>1, OrderFacts DEF FlowType, RowType
    <3>2. flow.pc = "read" => Linked(links', flow.snap.ord)
      BY <1>2, <1>4, <3>1, LinkedStays DEF FlowTrue
    <3>3. flow.pc = "save" => RowTrue(flow.snap, links')
      BY <1>2, <1>4, <3>1, RowStaysTrue DEF FlowTrue
    <3>4. entryPc = "emergency" => links'[Entry] # "none"
      BY <1>2, <1>4, <3>1 DEF FlowTrue, LinksGrow
    <3> QED BY <1>2, <1>4, <2>2, <3>2, <3>3, <3>4 DEF FlowTrue
  <2> QED BY <1>4, <2>1, <2>2
<1>5. LinksGrow(links, links)
  BY DEF LinksGrow
<1>6. ASSUME tape' = tape, TableTrue(alloc') PROVE TableTrue(alloc)'
  BY <1>6 DEF TableTrue, Executed
<1>7. CASE ApplyFill(f)
  <2>1. /\ NewFill(f) /\ ~Defers(f) /\ Accepts(f)
        /\ FinishIngest(RecordedRow(f), RecordedAlloc(f), f)
        /\ UNCHANGED <<flow, entryPc, tape>>
    BY <1>7 DEF ApplyFill, threads, exchange
  <2>2. RecordedRow(f) \in RowType /\ RecordedAlloc(f) \in Table
    BY <1>1, <2>1, NewFillType
  <2>3. RowTrue(RecordedRow(f), links') /\ RecordedRow(f).action = row.action
    BY <1>3, <2>1, <2>2, RecordTracks, TracksTrue DEF RecordedRow
  <2>4. RowTrue(row', links') /\ row'.action = row.action
    BY <2>1, <2>2, <2>3, FinishIngestTracks, TracksTrue
  <2>5. TableTrue(alloc')
    <3>1. TableTrue(RecordedAlloc(f))
      BY <1>1, <2>1, NewRowTrue DEF RecordedAlloc
    <3> QED BY <2>1, <2>2, <3>1, FinishIngestTracks DEF TableTrue
  <2> QED BY <1>3, <1>4, <1>6, <2>1, <2>4, <2>5 DEF Attribution
<1>8. CASE DeferFill(f)
  <2>1. /\ NewFill(f) /\ UNCHANGED <<flow, entryPc, tape>>
        /\ alloc' = [alloc EXCEPT ![f] = AllocationOf(f, FALSE)]
        /\ row' = UpdateExecutionTracking(ResolvedRow(tape[f].ord), tape[f].ord, TRUE)
    BY <1>8 DEF DeferFill, threads, exchange
  <2>2. RowTrue(row', links') /\ row'.action = row.action
    BY <1>3, <2>1, TrackingRow, TrackingTracks, TracksTrue
  <2>3. TableTrue(alloc')
    BY <1>1, <2>1, NewRowTrue
  <2> QED BY <1>3, <1>4, <1>6, <2>1, <2>2, <2>3 DEF Attribution
<1>9. CASE RejectFill(f)
  <2>1. /\ NewFill(f) /\ UNCHANGED <<flow, entryPc, tape, alloc>>
        /\ row' = ResolvedRow(tape[f].ord)
    BY <1>9 DEF RejectFill, threads, exchange
  <2>2. TableTrue(alloc')
    BY <1>2, <2>1
  <2> QED BY <1>3, <1>4, <1>6, <2>1, <2>2 DEF Attribution
<1>10. CASE RedeliverFill(f)
  <2>1. FinishIngest(row, alloc, f) /\ UNCHANGED <<links, flow, entryPc, tape>>
    BY <1>10 DEF RedeliverFill, threads, exchange
  <2>2. RowTrue(row', links') /\ row'.action = row.action
    BY <1>1, <1>2, <2>1, FinishIngestTracks, TracksTrue
  <2>3. TableTrue(alloc')
    BY <1>1, <1>2, <2>1, FinishIngestTracks DEF TableTrue
  <2>4. FlowTrue'
    BY <1>4, <1>5, <2>1, <2>2
  <2> QED BY <1>2, <1>6, <2>1, <2>2, <2>3, <2>4 DEF Attribution
<1>11. CASE CrashInIngest(f)
  <2>1. /\ NewFill(f) /\ ~Defers(f) /\ Accepts(f)
        /\ row' = RecordedRow(f) /\ alloc' = RecordedAlloc(f)
        /\ flow' = NoFlow /\ entryPc' = "done" /\ tape' = tape
    BY <1>11 DEF CrashInIngest, Restart, exchange
  <2>2. RecordedRow(f) \in RowType
    BY <1>1, <2>1, NewFillType
  <2>3. RowTrue(row', links') /\ row'.action = row.action
    BY <1>3, <2>1, <2>2, RecordTracks, TracksTrue DEF RecordedRow
  <2>4. TableTrue(alloc')
    BY <1>1, <2>1, NewRowTrue DEF RecordedAlloc
  <2> QED BY <1>3, <1>4, <1>6, <2>1, <2>3, <2>4 DEF Attribution
<1> QED BY <1>0, <1>7, <1>8, <1>9, <1>10, <1>11

\* What was executed stays executed: the tape only grows.
LEMMA TapeGrows ==
    ASSUME TypeOK, ExchangeNext
    PROVE  /\ UNCHANGED <<store, threads>>
           /\ Executed \subseteq Executed' /\ \A f \in Executed : tape'[f] = tape[f]
           /\ \/ tape' = tape
              \/ Len(tape') \in (Len(tape) + 1)..MaxFills
<1>1. tape \in Seq(ExecType) /\ Len(tape) \in Nat /\ MaxFills \in Nat
  BY FillAssumption DEF TypeOK
<1>2. CASE FillEntry
  <2>1. PICK k \in 1..EntrySize :
           LET trades == IF k = EntrySize
                         THEN <<[ord |-> Entry, qty |-> k]>>
                         ELSE <<[ord |-> Entry, qty |-> k],
                                [ord |-> Entry, qty |-> EntrySize - k]>>
           IN  Len(tape) + Len(trades) <= MaxFills /\ tape' = tape \o trades
    BY <1>2 DEF FillEntry
  <2>2. CASE k = EntrySize
    <3> DEFINE s == <<[ord |-> Entry, qty |-> k]>>
    <3>1. tape' = tape \o s /\ Len(tape) + Len(s) <= MaxFills /\ Len(s) = 1
      BY <2>1, <2>2
    <3>2. s \in Seq({[ord |-> Entry, qty |-> k]})
      OBVIOUS
    <3> HIDE DEF s
    <3> QED BY <1>1, <1>2, <3>1, <3>2 DEF Executed, FillEntry
  <2>3. CASE k # EntrySize
    <3> DEFINE s == <<[ord |-> Entry, qty |-> k], [ord |-> Entry, qty |-> EntrySize - k]>>
    <3>1. tape' = tape \o s /\ Len(tape) + Len(s) <= MaxFills /\ Len(s) = 2
      BY <2>1, <2>3
    <3>2. s \in Seq({[ord |-> Entry, qty |-> k], [ord |-> Entry, qty |-> EntrySize - k]})
      OBVIOUS
    <3> HIDE DEF s
    <3> QED BY <1>1, <1>2, <3>1, <3>2 DEF Executed, FillEntry
  <2> QED BY <2>2, <2>3
<1>3. ASSUME NEW o \in Exits, FillExit(o)
      PROVE  /\ UNCHANGED <<store, threads>>
             /\ Executed \subseteq Executed' /\ \A f \in Executed : tape'[f] = tape[f]
             /\ Len(tape') \in (Len(tape) + 1)..MaxFills
  <2>1. PICK q : tape' = Append(tape, [ord |-> o, qty |-> q])
    BY <1>3 DEF FillExit
  <2> QED BY <1>1, <1>3, <2>1 DEF Executed, FillExit
<1>4. ASSUME NEW o \in Order, CancelOrder(o)
      PROVE  UNCHANGED <<store, threads, tape>>
  BY <1>4 DEF CancelOrder
<1> QED BY <1>2, <1>3, <1>4 DEF ExchangeNext, Executed

\* Executions, cancels and crashes: no identifier moves.
LEMMA ExchangeKeepsAttribution ==
    ASSUME TypeOK, Attribution, ExchangeNext
    PROVE  Attribution'
<1>1. /\ UNCHANGED <<row, links, alloc, flow, entryPc>>
      /\ Executed \subseteq Executed' /\ \A f \in Executed : tape'[f] = tape[f]
  BY TapeGrows DEF store, threads
<1>2. TableTrue(alloc)'
  BY <1>1 DEF Attribution, TableTrue
<1> QED BY <1>1, <1>2 DEF Attribution, FlowTrue

\* A restart forgets the request, not the links.
LEMMA CrashKeepsAttribution ==
    ASSUME Attribution, Crash
    PROVE  Attribution'
<1>1. UNCHANGED <<row, links, alloc, tape>> /\ flow' = NoFlow /\ entryPc' = "done"
  BY DEF Crash, Restart, store, exchange
<1>2. FlowTrue'
  BY <1>1 DEF FlowTrue, NoFlow, Claimed
<1> QED BY <1>1, <1>2 DEF Attribution, TableTrue, Executed

\* The flow's part of the attribution when the request does not move.
LEMMA FlowStaysTrue ==
    ASSUME TypeOK, FlowTrue, LinksGrow(links, links'), row'.action = row.action,
           flow' = flow, entryPc' = entryPc \/ entryPc' # "emergency"
    PROVE  FlowTrue'
<1>1. flow.snap \in RowType /\ flow.snap.ord \in OrderOrNone /\ Entry \in Order
  BY OrderFacts DEF TypeOK, FlowType, RowType
<1>2. flow.pc = "read" => Linked(links', flow.snap.ord)
  BY <1>1, LinkedStays DEF FlowTrue
<1>3. flow.pc = "save" => RowTrue(flow.snap, links')
  BY <1>1, RowStaysTrue DEF FlowTrue
<1>4. entryPc = "emergency" => links'[Entry] # "none"
  BY <1>1 DEF FlowTrue, LinksGrow
<1> QED BY <1>2, <1>3, <1>4 DEF FlowTrue

\* The parts of the attribution that a step without fills can disturb.
LEMMA QuietAttribution ==
    ASSUME Attribution, alloc' = alloc, tape' = tape,
           LinksTrue(links'), RowTrue(row', links'), FlowTrue'
    PROVE  Attribution'
  BY DEF Attribution, TableTrue, Executed

\* The submission of an entry links the entry as an open, and the emergency
\* close claims the unit for an exit.
LEMMA EntryKeepsAttribution ==
    ASSUME TypeOK, Attribution, EntryNext
    PROVE  Attribution'
<1>1. /\ row \in RowType /\ links \in [Order -> Actions] /\ flow \in FlowType
      /\ Entry \in Order /\ Exits \subseteq Order /\ Entry # NoOrder
      /\ row.action \in Actions \ {"none"}
  BY OrderFacts, OrderAssumption DEF TypeOK, RowType
<1>2. LinksTrue(links) /\ RowTrue(row, links) /\ FlowTrue
  BY DEF Attribution
<1>3. LinksGrow(links, links)
  BY DEF LinksGrow
<1>4. CASE SubmitEntry
  <2>1. UNCHANGED <<row, links, alloc, tape, flow>> /\ entryPc' = "link"
    BY <1>4 DEF SubmitEntry, store
  <2> QED BY <1>2, <1>3, <2>1, FlowStaysTrue, QuietAttribution
<1>5. CASE EntryReplyEmpty
  <2>1. /\ UNCHANGED <<links, alloc, tape, flow>> /\ entryPc' = "done"
        /\ row' = RecoverClientOrderIntent(row, Entry)
    BY <1>5 DEF EntryReplyEmpty
  <2>2. RowTrue(row', links) /\ row'.action = row.action
    BY <1>1, <1>2, <2>1, RecoverIntentRow, RecoverIntentTracks, TracksTrue
  <2> QED BY <1>2, <1>3, <2>1, <2>2, FlowStaysTrue, QuietAttribution
<1>6. CASE RecordEntrySubmission
  <2>1. /\ UNCHANGED <<alloc, tape, flow>> /\ row' = LinkExchangeOrder(row, Entry)
        /\ links' = IF row.cl = Entry
                    THEN LinkExecutionOrder(links, Entry, row.action) ELSE links
        /\ row.cl # Entry => entryPc' # "emergency"
    BY <1>6 DEF RecordEntrySubmission, exchange
  <2>2. CASE row.cl = Entry
    <3>1. row.action = "open"
      BY <1>1, <1>2, <2>2 DEF RowTrue, ActionTrue
    <3>2. LinksTrue(links') /\ LinksGrow(links, links') /\ links'[Entry] # "none"
      BY <1>1, <1>2, <2>1, <2>2, <3>1, LinkKeepsTrue
    <3>3. RowTrue(row, links')
      BY <1>1, <1>2, <3>2, RowStaysTrue
    <3>4. RowTrue(row', links') /\ row'.action = row.action
      BY <1>1, <2>1, <3>2, <3>3, LinkTrue
    <3>5. FlowTrue'
      <4>1. CASE entryPc' # "emergency"
        BY <1>2, <2>1, <3>2, <3>4, <4>1, FlowStaysTrue
      <4>2. CASE entryPc' = "emergency"
        <5>1. flow.snap \in RowType /\ flow.snap.ord \in OrderOrNone
          BY <1>1 DEF FlowType, RowType
        <5>2. flow.pc = "read" => Linked(links', flow.snap.ord)
          BY <1>2, <3>2, <5>1, LinkedStays DEF FlowTrue
        <5>3. flow.pc = "save" => RowTrue(flow.snap, links')
          BY <1>2, <3>2, <5>1, RowStaysTrue DEF FlowTrue
        <5> QED BY <1>2, <2>1, <3>2, <3>4, <5>2, <5>3 DEF FlowTrue
      <4> QED BY <4>1, <4>2
    <3> QED BY <2>1, <3>2, <3>4, <3>5, QuietAttribution
  <2>3. CASE row.cl # Entry
    <3>1. row' = row /\ links' = links /\ entryPc' # "emergency"
      BY <2>1, <2>3 DEF LinkExchangeOrder
    <3> QED BY <1>2, <1>3, <2>1, <3>1, FlowStaysTrue, QuietAttribution
  <2> QED BY <2>2, <2>3
<1>7. ASSUME NEW o \in Exits, SubmitEmergencyClose(o)
      PROVE  Attribution'
  <2>1. UNCHANGED <<links, alloc, tape>> /\ entryPc' = "done" /\ entryPc = "emergency"
    BY <1>7 DEF SubmitEmergencyClose
  <2>2. CASE row.status # "pending_open"
    <3>1. UNCHANGED <<row, flow>>
      BY <1>7, <2>2 DEF SubmitEmergencyClose
    <3> QED BY <1>2, <1>3, <2>1, <3>1, FlowStaysTrue, QuietAttribution
  <2>3. CASE row.status = "pending_open"
    <3>1. /\ row' = [ClaimPendingExecution(row, "closing", o, "close", Entry, Entry)
                        EXCEPT !.emergency = TRUE]
          /\ flow' = [pc |-> "submit", ord |-> o, act |-> "close",
                      qty |-> EntrySize, onEmpty |-> "retry", snap |-> row]
      BY <1>7, <2>3 DEF SubmitEmergencyClose
    <3>2. links[Entry] # "none" /\ o # Entry
      BY <1>2, <2>1, OrderAssumption DEF FlowTrue
    <3>3. row'.ord = NoOrder /\ row'.prev = Entry /\ row'.cl = o /\ row'.action = "close"
      BY <1>1, <3>1 DEF ClaimPendingExecution, RowType
    <3>4. RowTrue(row', links')
      BY <2>1, <3>2, <3>3 DEF RowTrue, Linked, ActionTrue
    <3>5. FlowTrue'
      BY <2>1, <3>1, <3>3 DEF FlowTrue, Claimed
    <3> QED BY <1>2, <2>1, <3>4, <3>5, QuietAttribution
  <2> QED BY <2>2, <2>3
<1> QED BY <1>4, <1>5, <1>6, <1>7 DEF EntryNext

\* An exit request claims the unit for its own order, and what it writes back
\* at the end carries that order's action.
LEMMA ExitKeepsAttribution ==
    ASSUME TypeOK, Attribution, ExitNext
    PROVE  Attribution'
<1>1. /\ row \in RowType /\ links \in [Order -> Actions] /\ flow \in FlowType
      /\ Exits \subseteq Order /\ NoOrder \notin Exits /\ Entry \notin Exits
      /\ flow.snap \in RowType /\ flow.act \in ExitAct
  BY OrderFacts, OrderAssumption DEF TypeOK, FlowType, Order
<1>2. LinksTrue(links) /\ RowTrue(row, links) /\ FlowTrue
  BY DEF Attribution
<1>3. /\ flow.pc # "idle" => flow.ord \in Exits
      /\ flow.pc \in Claimed => row.action # "open"
      /\ entryPc = "emergency" => links[Entry] # "none"
  BY <1>2 DEF FlowTrue
<1>4. ASSUME flow' = NoFlow, entryPc' = entryPc, links' = links PROVE FlowTrue'
  BY <1>3, <1>4 DEF FlowTrue, NoFlow, Claimed
<1>5. ASSUME NEW o \in Exits, NEW act \in ExitAct, RequestExit(o, act)
      PROVE  Attribution'
  <2>1. /\ UNCHANGED <<row, links, alloc, tape, entryPc>>
        /\ flow'.pc = "read" /\ flow'.ord = o /\ flow'.snap = row
    BY <1>5 DEF RequestExit, store
  <2>2. FlowTrue'
    BY <1>2, <1>3, <2>1 DEF FlowTrue, Claimed, RowTrue
  <2> QED BY <1>2, <2>1, <2>2, QuietAttribution
<1>6. CASE ClaimExit
  <2>1. UNCHANGED <<links, alloc, tape, entryPc>> /\ flow.pc = "read"
    BY <1>6 DEF ClaimExit, exchange
  <2>2. CASE row.status # "open"
    <3>1. row' = row /\ flow' = NoFlow
      BY <1>6, <2>2 DEF ClaimExit
    <3> QED BY <1>2, <1>4, <2>1, <3>1, QuietAttribution
  <2>3. CASE row.status = "open"
    <3>1. /\ row' = [ClaimPendingExecution(row, PendingStatus(flow.act), flow.ord,
                                           flow.act, flow.ord, flow.snap.ord)
                        EXCEPT !.execQty = flow.qty]
          /\ flow' = [flow EXCEPT !.pc = "stop"]
      BY <1>6, <2>3 DEF ClaimExit
    <3>2. /\ row'.ord = NoOrder /\ row'.prev = flow.snap.ord /\ row'.cl = flow.ord
          /\ row'.action = flow.act /\ flow.act # "open"
      BY <1>1, <3>1 DEF ClaimPendingExecution, RowType, ExitAct
    <3>3. RowTrue(row', links')
      BY <1>1, <1>2, <1>3, <2>1, <3>2 DEF RowTrue, Linked, ActionTrue, FlowTrue
    <3>4. flow'.pc = "stop" /\ flow'.ord = flow.ord /\ flow'.snap = flow.snap
      BY <1>1, <3>1 DEF FlowType
    <3>5. FlowTrue'
      BY <1>3, <2>1, <3>2, <3>4 DEF FlowTrue, Claimed
    <3> QED BY <1>2, <2>1, <3>3, <3>5, QuietAttribution
  <2> QED BY <2>2, <2>3
<1>7. CASE CancelStopForExit
  <2>1. UNCHANGED <<links, alloc, tape, entryPc>> /\ flow.pc = "stop"
    BY <1>7 DEF CancelStopForExit, exchange
  <2>2. CASE row' = row /\ (\/ flow' = [flow EXCEPT !.pc = "submit", !.onEmpty = "unknown"]
                            \/ flow' = [flow EXCEPT !.pc = "submit"])
    <3>1. flow'.pc = "submit" /\ flow'.ord = flow.ord
      BY <1>1, <2>2 DEF FlowType
    <3>2. FlowTrue'
      BY <1>3, <2>1, <2>2, <3>1 DEF FlowTrue, Claimed
    <3> QED BY <1>2, <2>1, <2>2, <3>2, QuietAttribution
  <2>3. CASE flow' = NoFlow /\ row' = ReleasePendingExecution(row, flow.ord)
    <3>1. RowTrue(row', links')
      BY <1>1, <1>2, <2>1, <2>3, ReleaseTrue
    <3> QED BY <1>2, <1>4, <2>1, <2>3, <3>1, QuietAttribution
  <2> QED BY <1>7, <2>2, <2>3 DEF CancelStopForExit
<1>8. CASE SubmitExit
  <2>1. /\ UNCHANGED <<row, links, alloc, tape, entryPc>> /\ flow.pc = "submit"
        /\ flow' = [flow EXCEPT !.pc = "mark"]
    BY <1>8 DEF SubmitExit, store
  <2>2. flow'.pc = "mark" /\ flow'.ord = flow.ord
    BY <1>1, <2>1 DEF FlowType
  <2>3. FlowTrue'
    BY <1>3, <2>1, <2>2 DEF FlowTrue, Claimed
  <2> QED BY <1>2, <2>1, <2>3, QuietAttribution
<1>9. CASE ExitReplyEmpty
  <2>1. /\ UNCHANGED <<links, alloc, tape, entryPc>> /\ flow' = NoFlow
        /\ row' = RowAfterEmptyReply
    BY <1>9 DEF ExitReplyEmpty
  <2>2. RowTrue(ReleasePendingExecution(row, flow.ord), links)
    BY <1>1, <1>2, ReleaseTrue
  <2>3. /\ RowTrue([row EXCEPT !.unknown = TRUE, !.attempts = 1], links)
        /\ RowTrue([row EXCEPT !.unknown = FALSE], links)
    BY <1>1, <1>2 DEF RowTrue, Linked, ActionTrue, RowType
  <2>4. RowTrue(row', links')
    BY <2>1, <2>2, <2>3 DEF RowAfterEmptyReply
  <2> QED BY <1>2, <1>4, <2>1, <2>4, QuietAttribution
<1>10. CASE MarkRead
  <2>1. /\ UNCHANGED <<row, links, alloc, tape, entryPc>> /\ flow.pc = "mark"
        /\ flow' = [flow EXCEPT !.pc = "save", !.snap = row]
    BY <1>10 DEF MarkRead, store, exchange
  <2>2. flow'.pc = "save" /\ flow'.ord = flow.ord /\ flow'.snap = row
    BY <1>1, <2>1 DEF FlowType
  <2>3. FlowTrue'
    BY <1>2, <1>3, <2>1, <2>2 DEF FlowTrue, Claimed
  <2> QED BY <1>2, <2>1, <2>3, QuietAttribution
<1>11. CASE MarkSave
  <2>1. /\ flow.pc = "save" /\ row' = MarkedRow /\ flow' = NoFlow
        /\ links' = LinkExecutionOrder(links, flow.ord, MarkedRow.action)
        /\ UNCHANGED <<alloc, tape, entryPc>>
    BY <1>11 DEF MarkSave, exchange
  <2>2. /\ flow.ord \in Exits /\ flow.ord # Entry /\ flow.ord # NoOrder
        /\ RowTrue(flow.snap, links) /\ flow.snap.action # "open"
    BY <1>1, <1>2, <1>3, <2>1 DEF FlowTrue
  <2> DEFINE r == MarkPendingExecution(flow.snap, PendingStatus(flow.act), flow.ord)
  <2>3. /\ r.action = flow.snap.action /\ r.cl = flow.snap.cl /\ r.prev = flow.snap.prev
        /\ r.ord = flow.ord /\ r \in RowType
    <3>1. PendingStatus(flow.act) \in Status
      BY DEF PendingStatus, Status
    <3>2. r \in RowType
      BY <1>1, <2>2, <3>1, MarkRow
    <3> QED BY <1>1, <3>2 DEF MarkPendingExecution, RowType
  <2>4. MarkedRow = IF flow.onEmpty = "retry" THEN [r EXCEPT !.cl = flow.ord]
                    ELSE [r EXCEPT !.action = flow.act, !.corr = flow.ord,
                                   !.execQty = flow.qty]
    BY DEF MarkedRow
  <2> HIDE DEF r
  <2>5. /\ MarkedRow.action \in {flow.snap.action, flow.act}
        /\ MarkedRow.cl \in {flow.ord, flow.snap.cl}
        /\ MarkedRow.ord = flow.ord /\ MarkedRow.prev = flow.snap.prev
    BY <2>3, <2>4 DEF RowType
  <2>6. flow.snap.action \in Actions \ {"none"} /\ flow.snap.prev \in OrderOrNone
    BY <1>1 DEF RowType
  <2>7. MarkedRow.action \in Actions \ {"none"} /\ MarkedRow.action # "open"
    BY <1>1, <2>2, <2>5, <2>6 DEF ExitAct, Actions
  <2>8. LinksTrue(links') /\ LinksGrow(links, links') /\ links'[flow.ord] # "none"
    BY <1>1, <1>2, <2>1, <2>2, <2>7, LinkKeepsTrue
  <2>9. Linked(links', flow.snap.prev)
    BY <2>2, <2>6, <2>8, LinkedStays DEF RowTrue
  <2>10. RowTrue(row', links')
    BY <2>1, <2>2, <2>5, <2>7, <2>8, <2>9 DEF RowTrue, Linked, ActionTrue
  <2>11. FlowTrue'
    <3>1. entryPc' = "emergency" => links'[Entry] # "none"
      BY <1>3, <2>1, <2>8, OrderFacts DEF LinksGrow
    <3> QED BY <2>1, <3>1 DEF FlowTrue, NoFlow, Claimed
  <2> QED BY <2>1, <2>8, <2>10, <2>11, QuietAttribution
<1> QED BY <1>5, <1>6, <1>7, <1>8, <1>9, <1>10, <1>11 DEF ExitNext

\* The daemon's retries and reconciliation mark and link the order of the
\* row's own client id, under the row's own action.
LEMMA DaemonKeepsAttribution ==
    ASSUME TypeOK, Attribution, DaemonNext
    PROVE  Attribution'
<1>1. /\ row \in RowType /\ links \in [Order -> Actions]
      /\ row.cl \in OrderOrNone /\ row.ord \in OrderOrNone
      /\ row.action \in Actions \ {"none"}
  BY DEF TypeOK, RowType
<1>2. LinksTrue(links) /\ RowTrue(row, links) /\ FlowTrue
  BY DEF Attribution
<1>3. LinksGrow(links, links)
  BY DEF LinksGrow
<1>4. ASSUME row.cl # NoOrder
      PROVE  LET m == LinkExecutionOrder(links, row.cl, row.action)
             IN  /\ row.cl \in Order /\ LinksTrue(m) /\ LinksGrow(links, m)
                 /\ m[row.cl] # "none" /\ RowTrue(row, m)
  <2>1. row.cl \in Order /\ (row.action = "open" <=> row.cl = Entry)
    BY <1>1, <1>2, <1>4 DEF OrderOrNone, RowTrue, ActionTrue
  <2> DEFINE m == LinkExecutionOrder(links, row.cl, row.action)
  <2>2. LinksTrue(m) /\ LinksGrow(links, m) /\ m[row.cl] # "none"
    BY <1>1, <1>2, <2>1, LinkKeepsTrue
  <2> HIDE DEF m
  <2>3. RowTrue(row, m)
    BY <1>1, <1>2, <2>2, RowStaysTrue
  <2> QED BY <2>1, <2>2, <2>3 DEF m
<1>5. ASSUME UNCHANGED <<alloc, tape, threads>>, row'.action = row.action,
             LinksTrue(links'), LinksGrow(links, links'), RowTrue(row', links')
      PROVE  Attribution'
  BY <1>2, <1>5, FlowStaysTrue, QuietAttribution DEF threads
<1>6. ASSUME MarkInDaemon(row.cl), row.cl # NoOrder, UNCHANGED <<alloc, tape, threads>>
      PROVE  Attribution'
  <2> DEFINE m == MarkPendingExecution(row, row.status, row.cl)
  <2>1. /\ row' = [m EXCEPT !.cl = row.cl]
        /\ links' = LinkExecutionOrder(links, row.cl, row.action)
    BY <1>6 DEF MarkInDaemon
  <2>2. /\ LinksTrue(links') /\ LinksGrow(links, links') /\ RowTrue(row, links')
        /\ links'[row.cl] # "none" /\ row.cl \in Order
    BY <1>4, <1>6, <2>1
  <2>3. /\ m \in RowType /\ RowTrue(m, links') /\ m.action = row.action /\ m.cl = row.cl
    <3>1. row.status \in Status
      BY <1>1 DEF RowType
    <3>2. m \in RowType
      BY <1>1, <2>2, <3>1, MarkRow
    <3> QED BY <1>1, <2>2, <3>2
          DEF MarkPendingExecution, RowTrue, Linked, ActionTrue, RowType
  <2> HIDE DEF m
  <2>4. row' = m
    BY <2>1, <2>3 DEF RowType
  <2> QED BY <1>5, <1>6, <2>2, <2>3, <2>4
<1>7. CASE RetryUnknownExit
  <2>1. row.cl # NoOrder /\ UNCHANGED <<alloc, tape, threads>>
    BY <1>7 DEF RetryUnknownExit, AwaitsRetry
  <2>2. CASE /\ row' = [MarkPendingExecution(row, PendingStatus(row.action), row.cl)
                            EXCEPT !.attempts = @ + 1]
             /\ links' = LinkExecutionOrder(links, row.cl, row.action)
    <3> DEFINE m == MarkPendingExecution(row, PendingStatus(row.action), row.cl)
    <3>1. /\ LinksTrue(links') /\ LinksGrow(links, links') /\ RowTrue(row, links')
          /\ links'[row.cl] # "none" /\ row.cl \in Order
      BY <1>4, <2>1, <2>2
    <3>2. PendingStatus(row.action) \in Status
      BY DEF PendingStatus, Status
    <3>3. m \in RowType /\ RowTrue(m, links') /\ m.action = row.action
      <4>1. m \in RowType
        BY <1>1, <3>1, <3>2, MarkRow
      <4> QED BY <1>1, <3>1, <4>1
            DEF MarkPendingExecution, RowTrue, Linked, ActionTrue, RowType
    <3>4. row' = [m EXCEPT !.attempts = m.attempts + 1]
      BY <2>2
    <3> HIDE DEF m
    <3>5. RowTrue(row', links') /\ row'.action = row.action
      BY <3>3, <3>4 DEF RowTrue, Linked, ActionTrue, RowType
    <3> QED BY <1>5, <2>1, <3>1, <3>5
  <2>3. CASE row' = [row EXCEPT !.attempts = @ + 1] /\ UNCHANGED links
    <3>1. RowTrue(row', links') /\ row'.action = row.action
      BY <1>1, <1>2, <2>3 DEF RowTrue, Linked, ActionTrue, RowType
    <3> QED BY <1>2, <1>3, <1>5, <2>1, <2>3, <3>1
  <2> QED BY <1>7, <2>2, <2>3 DEF RetryUnknownExit
<1>8. ASSUME row' = RecoverClientOrderIntent(row, row.cl),
             UNCHANGED <<links, alloc, tape, threads>>
      PROVE  Attribution'
  <2>1. RowTrue(row', links') /\ row'.action = row.action
    BY <1>1, <1>2, <1>8, RecoverIntentRow, RecoverIntentTracks, TracksTrue
  <2> QED BY <1>2, <1>3, <1>5, <1>8, <2>1
<1>9. CASE ResolveUnknownExit
  <2>1. row.cl # NoOrder /\ UNCHANGED <<alloc, tape, threads>>
    BY <1>9 DEF ResolveUnknownExit, AwaitsRetry, exchange
  <2>2. \/ MarkInDaemon(row.cl)
        \/ row' = RecoverClientOrderIntent(row, row.cl) /\ UNCHANGED links
        \/ UNCHANGED <<row, links>>
    BY <1>9 DEF ResolveUnknownExit
  <2> QED BY <1>2, <1>3, <1>5, <1>6, <1>8, <2>1, <2>2
<1>10. CASE RetryEmergencyClose
  <2>1. row.cl # NoOrder /\ UNCHANGED <<alloc, tape, threads>>
    BY <1>10 DEF RetryEmergencyClose, AwaitsRetry
  <2>2. \/ MarkInDaemon(row.cl)
        \/ row' = [row EXCEPT !.unknown = FALSE] /\ UNCHANGED links
    BY <1>10 DEF RetryEmergencyClose
  <2>3. /\ RowTrue([row EXCEPT !.unknown = FALSE], links)
        /\ [row EXCEPT !.unknown = FALSE].action = row.action
    BY <1>1, <1>2 DEF RowTrue, Linked, ActionTrue, RowType
  <2> QED BY <1>2, <1>3, <1>5, <1>6, <2>1, <2>2, <2>3
<1>11. CASE RecoverIntent
  BY <1>8, <1>11 DEF RecoverIntent, exchange
<1>12. CASE ReconcileOrder
  <2> DEFINE o == PendingOrder
             r == IF row.ord = NoOrder THEN LinkExchangeOrder(row, o) ELSE row
  <2>1. /\ o # NoOrder
        /\ row' = IF book[o].st = "canceled" THEN RecoverTerminalOrder(r, o) ELSE r
        /\ links' = IF row.ord = NoOrder
                    THEN LinkExecutionOrder(links, o, row.action) ELSE links
        /\ UNCHANGED <<alloc, tape, threads>>
    BY <1>12 DEF ReconcileOrder, ListedPending, exchange
  <2>2. o \in Order
    BY <1>1, <2>1 DEF PendingOrder, OrderOrNone
  <2>3. row.ord = NoOrder => o = row.cl
    BY DEF PendingOrder
  <2> HIDE DEF o
  <2>4. /\ LinksTrue(links') /\ LinksGrow(links, links')
        /\ r \in RowType /\ RowTrue(r, links') /\ r.action = row.action
    <3>1. CASE row.ord = NoOrder
      <4>1. r = LinkExchangeOrder(row, o) /\ o = row.cl
        BY <2>3, <3>1
      <4>2. /\ LinksTrue(links') /\ LinksGrow(links, links') /\ RowTrue(row, links')
            /\ links'[o] # "none"
        BY <1>4, <2>1, <3>1, <4>1
      <4> QED BY <1>1, <2>2, <4>1, <4>2, LinkRow, LinkTrue
    <3>2. CASE row.ord # NoOrder
      BY <1>1, <1>2, <1>3, <2>1, <3>2
    <3> QED BY <3>1, <3>2
  <2> HIDE DEF r
  <2>5. /\ RowTrue(RecoverTerminalOrder(r, o), links')
        /\ RecoverTerminalOrder(r, o).action = r.action
    BY <2>4, RecoverTerminalRow, RecoverTerminalTracks, TracksTrue
  <2> QED BY <1>5, <2>1, <2>4, <2>5
<1> QED BY <1>7, <1>9, <1>10, <1>11, <1>12 DEF DaemonNext

\* It is inductive together with the types.
AttributionInv == TypeInv /\ Attribution

\* The prepared unit is linked to nothing.
LEMMA AttributionInit == Init => AttributionInv
<1> SUFFICES ASSUME Init PROVE Attribution
  BY TypeInit DEF AttributionInv
<1>1. RowTrue(row, links)
  BY DEF Init, PreparedRow, RowTrue, Linked, ActionTrue
<1>2. LinksTrue(links) /\ TableTrue(alloc)
  BY DEF Init, LinksTrue, TableTrue, NoAlloc
<1>3. FlowTrue
  BY DEF Init, FlowTrue, NoFlow, Claimed
<1> QED BY <1>1, <1>2, <1>3 DEF Attribution

\* The attribution is inductive together with the types.
LEMMA AttributionStep ==
    ASSUME AttributionInv, [Next]_vars
    PROVE  AttributionInv'
<1>1. TypeInv /\ TypeOK /\ Attribution /\ TypeInv'
  BY TypeStep DEF AttributionInv, TypeInv
<1>2. CASE IngestNext
  BY <1>1, <1>2, IngestKeepsAttribution DEF AttributionInv
<1>3. CASE ExchangeNext
  BY <1>1, <1>3, ExchangeKeepsAttribution DEF AttributionInv
<1>4. CASE EntryNext
  BY <1>1, <1>4, EntryKeepsAttribution DEF AttributionInv
<1>5. CASE ExitNext
  BY <1>1, <1>5, ExitKeepsAttribution DEF AttributionInv
<1>6. CASE DaemonNext
  BY <1>1, <1>6, DaemonKeepsAttribution DEF AttributionInv
<1>7. CASE Crash
  BY <1>1, <1>7, CrashKeepsAttribution DEF AttributionInv
<1>8. CASE UNCHANGED vars
  BY <1>1, <1>8 DEF AttributionInv, Attribution, FlowTrue, TableTrue, Executed, vars
<1> QED BY <1>2, <1>3, <1>4, <1>5, <1>6, <1>7, <1>8 DEF Next

\* Every recorded fill moves the quantity in the direction its order traded
\* and by the quantity the exchange executed, whatever is redelivered,
\* deferred, retried, recovered or cut short by a crash; also when the
\* operator's requests run beside the daemon, where the balance may be lost.
THEOREM LedgerAttribution == Spec => []AllocationMatchesOrder
<1>1. AttributionInv => AllocationMatchesOrder
  BY DEF AttributionInv, Attribution, TableTrue, AllocationMatchesOrder
<1> QED BY <1>1, AttributionInit, AttributionStep, PTL DEF Spec

-----------------------------------------------------------------------------
(***************************************************************************)
(* Status: backed by the quantities, and final once the unit is over,      *)
(* while submissions share the daemon thread.                              *)
(***************************************************************************)

\* The rest of ingest after the commit.
LEMMA FinishIngestStatus ==
    ASSUME NEW r \in RowType, NEW t \in Table, NEW f \in Fill, Balanced(r, t),
           StatusTrue(r), \A g \in Deferred(t) : t[g].qty >= 1,
           t[f].act = "reduce" => r.status = "closed" \/ (r.remaining > 0 /\ ~Over(r)),
           FinishIngest(r, t, f)
    PROVE  /\ StatusTrue(row')
           /\ Over(r) => /\ row'.status = r.status /\ row'.remaining = r.remaining
                         /\ AppliedSet(alloc') = AppliedSet(t)
<1> DEFINE s == AfterRecord(r, t, f)
<1>1. s \in RowType /\ SameQuantity(r, s)
  BY AfterRecordRow
<1>2. StatusTrue(s) /\ (Over(r) => s.status = r.status)
  BY AfterRecordStatus
<1>3. s.remaining <= s.opened
  BY <1>1, BalancedBound DEF SameQuantity
<1>4. CASE t[f].act = "open"
  <2> HIDE DEF s
  <2>1. /\ row' = ApplyDeferredAllocations(s, t)
        /\ alloc' = MarkApplied(t, DeferredBatch(s, t))
    BY <1>4 DEF FinishIngest, s
  <2>2. /\ StatusTrue(row')
        /\ Over(s) => DeferredBatch(s, t) = {} /\ row' = s
    BY <1>1, <1>2, <1>3, <2>1, DrainStatus
  <2>3. DeferredBatch(s, t) \in SUBSET Fill
    BY <1>1, BatchFits DEF Deferred
  <2>4. DeferredBatch(s, t) = {} => AppliedSet(alloc') = AppliedSet(t)
    BY <2>1, <2>3, MarkAppliedTable DEF AppliedSet
  <2> QED BY <1>1, <1>2, <2>2, <2>4 DEF Over, SameQuantity
<1>5. CASE t[f].act # "open"
  BY <1>1, <1>2, <1>5 DEF FinishIngest, SameQuantity
<1> QED BY <1>4, <1>5

\* _resolve_position.
LEMMA ResolvedStatus ==
    ASSUME row \in RowType, NEW o
    PROVE  SameStatus(row, ResolvedRow(o))
<1>1. SameStatus(row, row)
  BY DEF SameStatus
<1> QED BY <1>1, LinkStatus DEF ResolvedRow

\* A unit that is over keeps its status, its quantity and its applied fills.
StaysOver ==
    Over(row) => /\ row'.status = row.status /\ row'.remaining = row.remaining
                 /\ AppliedSet(alloc') = AppliedSet(alloc)

\* Every recorded allocation has at least one contract.
LEMMA RecordedPositive ==
    ASSUME TypeOK, NEW t, TableTrue(t), NEW f \in Fill, t[f].act # "none"
    PROVE  t[f].qty >= 1
<1>1. f \in Executed /\ t[f].qty = tape[f].qty
  BY DEF TableTrue
<1>2. tape[f].qty \in 1..EntrySize
  BY <1>1, IngestType DEF ExecType
<1> QED BY <1>1, <1>2, SizeAssumption

\* Ingestion leaves a status that the quantities back, and moves no unit that
\* is over: late, repeated and deferred fills, and a crash after a commit.
LEMMA IngestKeepsStatus ==
    ASSUME TypeInv, Attribution, LedgerConserved, StatusTrue(row), IngestNext
    PROVE  StatusTrue(row') /\ StaysOver
<1>0. PICK f \in Fill : \/ ApplyFill(f) \/ DeferFill(f) \/ RejectFill(f)
                        \/ RedeliverFill(f) \/ CrashInIngest(f)
  BY DEF IngestNext
<1>1. TypeOK /\ alloc \in Table /\ row \in RowType /\ Balanced(row, alloc)
  BY DEF TypeInv, TypeOK, Table, LedgerConserved
<1>2. /\ TableTrue(alloc) /\ row.remaining <= row.opened
      /\ row.remaining \in Nat /\ row.opened \in Nat
  BY <1>1, BalancedBound DEF Attribution, RowType
<1>3. \A t : TableTrue(t) => \A g \in Deferred(t) : t[g].qty >= 1
  BY <1>1, RecordedPositive DEF Deferred
<1>4. ASSUME NewFill(f), ~Defers(f), Accepts(f)
      PROVE  /\ RecordedRow(f) \in RowType /\ RecordedAlloc(f) \in Table
             /\ Balanced(RecordedRow(f), RecordedAlloc(f))
             /\ TableTrue(RecordedAlloc(f))
             /\ StatusTrue(RecordedRow(f)) /\ ~Over(row)
             /\ RecordedAlloc(f)[f].act # "none"
             /\ RecordedAlloc(f)[f].applied
  <2> DEFINE o == tape[f].ord
             r == ResolvedRow(o)
             a == AllocationOf(f, TRUE)
  <2>1. /\ RecordedRow(f) \in RowType /\ RecordedAlloc(f) \in Table
        /\ Balanced(RecordedRow(f), RecordedAlloc(f))
    BY <1>1, <1>4, NewFillType
  <2>2. TableTrue(RecordedAlloc(f))
    BY <1>1, <1>4, NewRowTrue DEF RecordedAlloc
  <2>3. f \in Executed
    BY <1>4 DEF NewFill
  <2>4. /\ r \in RowType /\ a \in AllocType /\ ResolveAction(o) # "none"
        /\ tape[f].qty \in 1..EntrySize
    BY <1>1, <2>3, IngestType DEF ExecType
  <2>5. a.act = ResolveAction(o) /\ a.qty = tape[f].qty /\ a.qty >= 1 /\ a.act # "none"
        /\ a.applied
    BY <2>4, SizeAssumption DEF AllocationOf
  <2>6. SameStatus(row, r)
    BY <1>1, ResolvedStatus
  <2>7. ValidAllocation(r, a.act, a.qty)
    BY <1>4, <2>5 DEF Accepts
  <2>8. RecordedRow(f) = ApplyAllocationFields(r, a.act, a.qty)
    BY <2>5 DEF RecordedRow
  <2>9. RecordedAlloc(f)[f] = a
    BY <1>1, <2>4 DEF RecordedAlloc, Table
  <2> HIDE DEF r, a
  <2>10. StatusTrue(r) /\ r.remaining <= r.opened
    BY <1>2, <2>6, SameStatusTrue DEF SameStatus
  <2>11. StatusTrue(RecordedRow(f)) /\ ~Over(r)
    BY <2>4, <2>5, <2>7, <2>8, <2>10, RecordStatus
  <2> QED BY <2>1, <2>2, <2>5, <2>6, <2>9, <2>11 DEF Over, SameStatus
<1>5. ASSUME NEW r \in RowType, NEW t \in Table, Balanced(r, t), StatusTrue(r),
             t[f].act # "none", t[f].applied, t[f].qty >= 1
      PROVE  r.status = "closed" \/ (r.remaining > 0 /\ ~Over(r))
  <2>1. r.opened > 0 /\ r.status \in Status /\ r.opened \in Nat
    BY <1>5, AppliedMeansOpened DEF RowType
  <2> QED BY <1>5, <2>1 DEF StatusTrue, Over, Status
<1>6. CASE ApplyFill(f)
  <2>1. /\ NewFill(f) /\ ~Defers(f) /\ Accepts(f)
        /\ FinishIngest(RecordedRow(f), RecordedAlloc(f), f)
    BY <1>6 DEF ApplyFill
  <2>2. RecordedAlloc(f)[f].qty >= 1
    BY <1>1, <1>4, <2>1, RecordedPositive
  <2>3. StatusTrue(row')
    BY <1>3, <1>4, <1>5, <2>1, <2>2, FinishIngestStatus
  <2> QED BY <1>4, <2>1, <2>3 DEF StaysOver
<1>7. CASE DeferFill(f)
  <2>1. /\ f \in Executed /\ alloc[f].act = "none"
        /\ alloc' = [alloc EXCEPT ![f] = AllocationOf(f, FALSE)]
        /\ row' = UpdateExecutionTracking(ResolvedRow(tape[f].ord), tape[f].ord, TRUE)
    BY <1>7 DEF DeferFill, NewFill
  <2>2. SameStatus(row, ResolvedRow(tape[f].ord)) /\ ResolvedRow(tape[f].ord) \in RowType
    BY <1>1, <2>1, ResolvedStatus, IngestType
  <2>3. SameStatus(row, row')
    <3>1. SameStatus(ResolvedRow(tape[f].ord), row')
      BY <2>1, <2>2, TrackingStatus
    <3> QED BY <2>2, <3>1 DEF SameStatus
  <2>4. StatusTrue(row') /\ row'.status = row.status /\ row'.remaining = row.remaining
    BY <2>3, SameStatusTrue DEF SameStatus
  <2>5. Over(row) => AppliedSet(alloc') = AppliedSet(alloc)
    <3> SUFFICES ASSUME Over(row) PROVE AppliedSet(alloc') = AppliedSet(alloc)
      OBVIOUS
    <3>1. AllocationOf(f, FALSE) \in AllocType /\ ~AllocationOf(f, FALSE).applied
      BY <1>1, <2>1, IngestType DEF AllocationOf
    <3>2. alloc'[f] = AllocationOf(f, FALSE) /\ \A g \in Fill : g # f => alloc'[g] = alloc[g]
      BY <1>1, <2>1, <3>1 DEF Table
    <3>3. ~alloc[f].applied
      BY <1>2, <2>1 DEF TableTrue
    <3> QED BY <3>1, <3>2, <3>3 DEF AppliedSet
  <2> QED BY <2>4, <2>5 DEF StaysOver
<1>8. CASE RejectFill(f)
  <2>1. row' = ResolvedRow(tape[f].ord) /\ alloc' = alloc
    BY <1>8 DEF RejectFill
  <2>2. SameStatus(row, row')
    BY <1>1, <2>1, ResolvedStatus
  <2> QED BY <2>1, <2>2, SameStatusTrue DEF SameStatus, StaysOver
<1>9. CASE RedeliverFill(f)
  <2>1. FinishIngest(row, alloc, f) /\ alloc[f].applied
    BY <1>9 DEF RedeliverFill
  <2>2. alloc[f].act = "reduce" => row.status = "closed" \/ (row.remaining > 0 /\ ~Over(row))
    BY <1>1, <1>2, <1>5, <2>1, RecordedPositive
  <2>3. /\ StatusTrue(row')
        /\ Over(row) => /\ row'.status = row.status /\ row'.remaining = row.remaining
                        /\ AppliedSet(alloc') = AppliedSet(alloc)
    BY <1>1, <1>2, <1>3, <2>1, <2>2, FinishIngestStatus
  <2> QED BY <2>3 DEF StaysOver
<1>10. CASE CrashInIngest(f)
  <2>1. /\ NewFill(f) /\ ~Defers(f) /\ Accepts(f) /\ row' = RecordedRow(f)
    BY <1>10 DEF CrashInIngest
  <2> QED BY <1>4, <2>1 DEF StaysOver
<1> QED BY <1>0, <1>6, <1>7, <1>8, <1>9, <1>10

\* What a single thread guarantees of a request under way: nobody else has
\* written the row since the request claimed it.
BusyTrue ==
    /\ entryPc # "done" => flow.pc = "idle"
    /\ flow.pc \in Claimed =>
          /\ row.status = PendingStatus(flow.act)
          /\ flow.onEmpty # "retry" => row.remaining > 0
    /\ flow.pc \in {"read", "stop"} => flow.onEmpty # "retry"
    /\ flow.pc = "save" => flow.snap = row

\* The inductive invariant of the single-threaded ledger.
StatusInv == LedgerInv /\ Attribution /\ StatusTrue(row) /\ BusyTrue

\* Executions and a restart leave the row alone.
LEMMA ExchangeKeepsBusy ==
    ASSUME TypeOK, BusyTrue, StatusTrue(row), ExchangeNext \/ Crash
    PROVE  BusyTrue' /\ StatusTrue(row') /\ StaysOver
<1>1. CASE ExchangeNext
  <2>1. UNCHANGED <<row, alloc, flow, entryPc>>
    BY <1>1, TapeGrows DEF store, threads
  <2> QED BY <2>1 DEF BusyTrue, StaysOver
<1>2. CASE Crash
  <2>1. UNCHANGED <<row, alloc>> /\ flow' = NoFlow /\ entryPc' = "done"
    BY <1>2 DEF Crash, Restart, store
  <2> QED BY <2>1 DEF BusyTrue, StaysOver, NoFlow, Claimed
<1> QED BY <1>1, <1>2

\* The submission of an entry: an empty reply fails a unit that holds nothing,
\* and the emergency close claims one.
LEMMA EntryKeepsStatus ==
    ASSUME TypeOK, BusyTrue, StatusTrue(row), row.remaining <= row.opened, EntryNext
    PROVE  BusyTrue' /\ StatusTrue(row') /\ StaysOver
<1>1. /\ row \in RowType /\ flow \in FlowType /\ alloc' = alloc
      /\ SameQuantity(row, row')
  BY EntryKeepsTypes DEF TypeOK, Quiet
<1>2. entryPc # "done" /\ flow.pc = "idle"
  BY DEF BusyTrue, EntryNext, SubmitEntry, EntryReplyEmpty, RecordEntrySubmission,
         SubmitEmergencyClose
<1>3. ASSUME flow' = flow PROVE BusyTrue'
  BY <1>2, <1>3 DEF BusyTrue, Claimed
<1>4. ASSUME Over(row) => row'.status = row.status PROVE StaysOver
  BY <1>1, <1>4 DEF StaysOver, SameQuantity
<1>5. CASE SubmitEntry
  BY <1>3, <1>4, <1>5 DEF SubmitEntry, store
<1>6. CASE EntryReplyEmpty
  <2>1. StatusTrue(row') /\ (Over(row) => row'.status = row.status) /\ flow' = flow
    BY <1>1, <1>6, RecoverIntentStatus DEF EntryReplyEmpty
  <2> QED BY <1>3, <1>4, <2>1
<1>7. CASE RecordEntrySubmission
  <2>1. SameStatus(row, row') /\ flow' = flow
    BY <1>1, <1>7, LinkStatus DEF RecordEntrySubmission
  <2>2. StatusTrue(row') /\ (Over(row) => row'.status = row.status)
    BY <2>1, SameStatusTrue
  <2> QED BY <1>3, <1>4, <2>1, <2>2
<1>8. ASSUME NEW o \in Exits, SubmitEmergencyClose(o)
      PROVE  BusyTrue' /\ StatusTrue(row') /\ StaysOver
  <2>1. CASE row.status # "pending_open"
    BY <1>3, <1>4, <1>8, <2>1 DEF SubmitEmergencyClose
  <2>2. CASE row.status = "pending_open"
    <3>1. /\ row' = [ClaimPendingExecution(row, "closing", o, "close", Entry, Entry)
                        EXCEPT !.emergency = TRUE]
          /\ flow' = [pc |-> "submit", ord |-> o, act |-> "close",
                      qty |-> EntrySize, onEmpty |-> "retry", snap |-> row]
          /\ entryPc' = "done"
      BY <1>8, <2>2 DEF SubmitEmergencyClose
    <3>2. row'.status = "closing" /\ row'.action = "close" /\ row'.emergency
      BY <1>1, <3>1 DEF ClaimPendingExecution, RowType
    <3>3. row'.opened = 0
      BY <1>1, <2>2 DEF SameQuantity, StatusTrue
    <3>4. StatusTrue(row')
      BY <3>2, <3>3 DEF StatusTrue
    <3>5. BusyTrue'
      BY <3>1, <3>2 DEF BusyTrue, Claimed, PendingStatus
    <3> QED BY <1>4, <2>2, <3>4, <3>5 DEF Over
  <2> QED BY <2>1, <2>2
<1> QED BY <1>5, <1>6, <1>7, <1>8 DEF EntryNext

\* An exit request claims an open unit, and what it releases still holds
\* something.
LEMMA ExitKeepsStatus ==
    ASSUME ~ApiExit, TypeOK, BusyTrue, StatusTrue(row), ExitNext
    PROVE  BusyTrue' /\ StatusTrue(row') /\ StaysOver
<1>1. row \in RowType /\ flow \in FlowType /\ flow.snap \in RowType /\ flow.act \in ExitAct
  BY DEF TypeOK, FlowType
<1>2. ASSUME flow' = NoFlow, entryPc' = entryPc PROVE BusyTrue'
  BY <1>2 DEF BusyTrue, NoFlow, Claimed
<1>3. ASSUME alloc' = alloc, row'.remaining = row.remaining,
             Over(row) => row'.status = row.status
      PROVE  StaysOver
  BY <1>3 DEF StaysOver
<1>4. flow.pc # "idle" => entryPc = "done"
  BY DEF BusyTrue
<1>5. ASSUME flow.pc \in Claimed PROVE row.status \in {"closing", "reducing"} /\ ~Over(row)
  BY <1>5 DEF BusyTrue, PendingStatus, Over
<1>6. ASSUME NEW o \in Exits, NEW act \in ExitAct, RequestExit(o, act)
      PROVE  BusyTrue' /\ StatusTrue(row') /\ StaysOver
  <2>1. /\ UNCHANGED <<row, alloc, entryPc>> /\ entryPc = "done"
        /\ flow'.pc = "read" /\ flow'.onEmpty = "release"
    BY <1>6 DEF RequestExit, store
  <2>2. BusyTrue'
    BY <2>1 DEF BusyTrue, Claimed
  <2> QED BY <1>3, <2>1, <2>2
<1>7. CASE ClaimExit
  <2>1. alloc' = alloc /\ entryPc' = entryPc /\ flow.pc = "read"
    BY <1>7 DEF ClaimExit
  <2>2. CASE row.status # "open"
    <3>1. row' = row /\ flow' = NoFlow
      BY <1>7, <2>2 DEF ClaimExit
    <3> QED BY <1>2, <1>3, <2>1, <3>1
  <2>3. CASE row.status = "open"
    <3> DEFINE st == PendingStatus(flow.act)
    <3>1. /\ row' = [ClaimPendingExecution(row, st, flow.ord,
                                           flow.act, flow.ord, flow.snap.ord)
                        EXCEPT !.execQty = flow.qty]
          /\ flow' = [flow EXCEPT !.pc = "stop"]
      BY <1>7, <2>3 DEF ClaimExit
    <3>2. st \in {"closing", "reducing"}
      BY DEF PendingStatus
    <3>3. flow'.pc = "stop" /\ flow'.onEmpty = flow.onEmpty /\ flow'.act = flow.act
      BY <1>1, <3>1 DEF FlowType
    <3> HIDE DEF st
    <3>4. row'.status = st /\ row'.remaining = row.remaining
      BY <1>1, <3>1 DEF ClaimPendingExecution, RowType
    <3>5. row.remaining > 0 /\ flow.onEmpty # "retry" /\ ~Over(row)
      BY <2>1, <2>3 DEF StatusTrue, BusyTrue, Over
    <3>6. StatusTrue(row')
      BY <3>2, <3>4, <3>5 DEF StatusTrue
    <3>7. BusyTrue'
      BY <1>4, <2>1, <3>3, <3>4, <3>5 DEF BusyTrue, Claimed, st
    <3> QED BY <1>3, <2>1, <3>4, <3>5, <3>6, <3>7
  <2> QED BY <2>2, <2>3
<1>8. ASSUME flow.pc \in {"stop", "submit"}, flow.onEmpty # "retry",
             row' = ReleasePendingExecution(row, flow.ord), alloc' = alloc
      PROVE  StatusTrue(row') /\ StaysOver
  <2>1. row.remaining > 0 /\ ~Over(row)
    BY <1>5, <1>8 DEF BusyTrue, Claimed
  <2>2. CASE row.corr # flow.ord
    <3>1. row' = row
      BY <1>8, <2>2 DEF ReleasePendingExecution
    <3> QED BY <1>3, <1>8, <3>1
  <2>3. CASE row.corr = flow.ord
    <3>1. row'.status = "open" /\ row'.remaining = row.remaining
      BY <1>1, <1>8, <2>3 DEF ReleasePendingExecution, RowType
    <3> QED BY <1>3, <1>8, <2>1, <3>1 DEF StatusTrue
  <2> QED BY <2>2, <2>3
<1>9. CASE CancelStopForExit
  <2>1. alloc' = alloc /\ entryPc' = entryPc /\ flow.pc = "stop" /\ flow.onEmpty # "retry"
    BY <1>9 DEF CancelStopForExit, BusyTrue
  <2>2. CASE row' = row /\ (\/ flow' = [flow EXCEPT !.pc = "submit", !.onEmpty = "unknown"]
                            \/ flow' = [flow EXCEPT !.pc = "submit"])
    <3>1. flow'.pc = "submit" /\ flow'.act = flow.act
      BY <1>1, <2>2 DEF FlowType
    <3>2. BusyTrue'
      BY <1>4, <2>1, <2>2, <3>1 DEF BusyTrue, Claimed
    <3> QED BY <1>3, <2>1, <2>2, <3>2
  <2>3. CASE flow' = NoFlow /\ row' = ReleasePendingExecution(row, flow.ord)
    BY <1>2, <1>8, <2>1, <2>3
  <2> QED BY <1>9, <2>2, <2>3 DEF CancelStopForExit
<1>10. CASE SubmitExit
  <2>1. /\ UNCHANGED <<row, alloc, entryPc>> /\ flow.pc = "submit"
        /\ flow' = [flow EXCEPT !.pc = "mark"]
    BY <1>10 DEF SubmitExit, store
  <2>2. flow'.pc = "mark" /\ flow'.act = flow.act /\ flow'.onEmpty = flow.onEmpty
    BY <1>1, <2>1 DEF FlowType
  <2>3. BusyTrue'
    BY <1>4, <2>1, <2>2 DEF BusyTrue, Claimed
  <2> QED BY <1>3, <2>1, <2>3
<1>11. CASE ExitReplyEmpty
  <2>1. /\ alloc' = alloc /\ entryPc' = entryPc /\ flow' = NoFlow /\ flow.pc = "submit"
        /\ row' = RowAfterEmptyReply
    BY <1>11 DEF ExitReplyEmpty
  <2>2. CASE flow.onEmpty = "release"
    <3>1. row' = ReleasePendingExecution(row, flow.ord)
      BY <2>1, <2>2 DEF RowAfterEmptyReply
    <3> QED BY <1>2, <1>8, <2>1, <2>2, <3>1
  <2>3. CASE flow.onEmpty # "release"
    <3>1. \/ row' = [row EXCEPT !.unknown = TRUE, !.attempts = 1]
          \/ row' = [row EXCEPT !.unknown = FALSE]
      BY <2>1, <2>3 DEF RowAfterEmptyReply
    <3>2. SameStatus(row, row')
      BY <1>1, <3>1 DEF SameStatus, RowType
    <3> QED BY <1>2, <1>3, <2>1, <3>2, SameStatusTrue DEF SameStatus
  <2> QED BY <2>2, <2>3
<1>12. CASE MarkRead
  <2>1. /\ UNCHANGED <<row, alloc, entryPc>> /\ flow.pc = "mark"
        /\ flow' = [flow EXCEPT !.pc = "save", !.snap = row]
    BY <1>12 DEF MarkRead, store
  <2>2. /\ flow'.pc = "save" /\ flow'.act = flow.act /\ flow'.onEmpty = flow.onEmpty
        /\ flow'.snap = row
    BY <1>1, <2>1 DEF FlowType
  <2>3. BusyTrue'
    BY <1>4, <2>1, <2>2 DEF BusyTrue, Claimed
  <2> QED BY <1>3, <2>1, <2>3
<1>13. CASE MarkSave
  <2> DEFINE st == PendingStatus(flow.act)
             r == MarkPendingExecution(row, st, flow.ord)
  <2>1. /\ flow.pc = "save" /\ row' = MarkedRow /\ flow' = NoFlow
        /\ UNCHANGED <<alloc, entryPc>>
    BY <1>13 DEF MarkSave
  <2>2. /\ flow.snap = row /\ row.status = st
        /\ flow.onEmpty # "retry" => row.remaining > 0
    BY <2>1 DEF BusyTrue, Claimed
  <2>3. MarkedRow = IF flow.onEmpty = "retry" THEN [r EXCEPT !.cl = flow.ord]
                    ELSE [r EXCEPT !.action = flow.act, !.corr = flow.ord,
                                   !.execQty = flow.qty]
    BY <2>2 DEF MarkedRow
  <2> HIDE DEF st
  <2>4. /\ r = [row EXCEPT !.status = st, !.ord = flow.ord, !.unknown = FALSE]
    BY DEF MarkPendingExecution
  <2> HIDE DEF r
  <2>5. /\ row'.status = row.status /\ row'.opened = row.opened
        /\ row'.remaining = row.remaining /\ row'.emergency = row.emergency
        /\ flow.onEmpty = "retry" => row'.action = row.action
    BY <1>1, <2>1, <2>2, <2>3, <2>4 DEF RowType
  <2>6. StatusTrue(row')
    BY <2>2, <2>5 DEF StatusTrue
  <2> QED BY <1>2, <1>3, <2>1, <2>5, <2>6
<1> QED BY <1>6, <1>7, <1>9, <1>10, <1>11, <1>12, <1>13 DEF ExitNext

\* The daemon's retries and its reconciliation keep a status that the
\* quantities back, and move no unit that is over.
LEMMA DaemonKeepsStatus ==
    ASSUME TypeOK, StatusTrue(row), DaemonNext
    PROVE  StatusTrue(row') /\ StaysOver
<1>1. /\ row \in RowType /\ alloc' = alloc /\ SameQuantity(row, row')
      /\ row.status \in Status
  BY DaemonKeepsTypes DEF TypeOK, Quiet, RowType
<1>2. ASSUME Over(row) => row'.status = row.status PROVE StaysOver
  BY <1>1, <1>2 DEF StaysOver, SameQuantity
<1>3. ASSUME SameStatus(row, row') PROVE StatusTrue(row') /\ StaysOver
  BY <1>2, <1>3, SameStatusTrue
<1>4. ASSUME NEW o, MarkInDaemon(o) PROVE StatusTrue(row') /\ StaysOver
  <2>1. row' = [row EXCEPT !.status = row.status, !.ord = o, !.unknown = FALSE, !.cl = o]
    BY <1>1, <1>4 DEF MarkInDaemon, MarkPendingExecution, RowType
  <2>2. SameStatus(row, row')
    BY <1>1, <2>1 DEF SameStatus, RowType
  <2> QED BY <1>3, <2>2
<1>5. ASSUME NEW o, row' = RecoverClientOrderIntent(row, o)
      PROVE  StatusTrue(row') /\ StaysOver
  BY <1>1, <1>2, <1>5, RecoverIntentStatus
<1>6. CASE RetryUnknownExit
  <2>1. row.status \in {"closing", "reducing"}
    BY <1>6 DEF RetryUnknownExit, AwaitsRetry
  <2>2. CASE row' = [MarkPendingExecution(row, PendingStatus(row.action), row.cl)
                        EXCEPT !.attempts = @ + 1]
    <3> DEFINE st == PendingStatus(row.action)
    <3>1. /\ st \in {"closing", "reducing"}
          /\ row.action = "close" <=> st = "closing"
      BY DEF PendingStatus
    <3> HIDE DEF st
    <3>2. /\ row'.status = st /\ row'.opened = row.opened
          /\ row'.remaining = row.remaining
          /\ row'.emergency = row.emergency /\ row'.action = row.action
      BY <1>1, <2>2 DEF MarkPendingExecution, RowType, st
    <3>3. StatusTrue(row')
      BY <2>1, <3>1, <3>2 DEF StatusTrue
    <3> QED BY <1>2, <2>1, <3>3 DEF Over
  <2>3. CASE row' = [row EXCEPT !.attempts = @ + 1]
    <3>1. SameStatus(row, row')
      BY <1>1, <2>3 DEF SameStatus, RowType
    <3> QED BY <1>3, <3>1
  <2> QED BY <1>6, <2>2, <2>3 DEF RetryUnknownExit
<1>7. CASE ResolveUnknownExit
  <2>1. MarkInDaemon(row.cl) \/ row' = RecoverClientOrderIntent(row, row.cl) \/ row' = row
    BY <1>7 DEF ResolveUnknownExit
  <2>2. SameStatus(row, row)
    BY DEF SameStatus
  <2> QED BY <1>3, <1>4, <1>5, <2>1, <2>2
<1>8. CASE RetryEmergencyClose
  <2>1. MarkInDaemon(row.cl) \/ row' = [row EXCEPT !.unknown = FALSE]
    BY <1>8 DEF RetryEmergencyClose
  <2>2. SameStatus(row, [row EXCEPT !.unknown = FALSE])
    BY <1>1 DEF SameStatus, RowType
  <2> QED BY <1>3, <1>4, <2>1, <2>2
<1>9. CASE RecoverIntent
  BY <1>5, <1>9 DEF RecoverIntent
<1>10. CASE ReconcileOrder
  <2> DEFINE o == PendingOrder
             r == IF row.ord = NoOrder THEN LinkExchangeOrder(row, o) ELSE row
  <2>1. /\ o # NoOrder
        /\ row' = IF book[o].st = "canceled" THEN RecoverTerminalOrder(r, o) ELSE r
    BY <1>10 DEF ReconcileOrder, ListedPending
  <2>2. o \in Order
    BY <1>1, <2>1 DEF PendingOrder, OrderOrNone, RowType
  <2> HIDE DEF o
  <2>3. SameStatus(row, r) /\ r \in RowType
    <3>1. LinkExchangeOrder(row, o) \in RowType /\ SameStatus(row, LinkExchangeOrder(row, o))
      BY <1>1, <2>2, LinkRow, LinkStatus
    <3> QED BY <1>1, <3>1 DEF SameStatus
  <2> HIDE DEF r
  <2>4. StatusTrue(r)
    BY <2>3, SameStatusTrue
  <2>5. /\ StatusTrue(RecoverTerminalOrder(r, o))
        /\ Over(r) => RecoverTerminalOrder(r, o).status = r.status
    BY <2>3, <2>4, RecoverTerminalStatus
  <2> QED BY <1>2, <2>1, <2>3, <2>4, <2>5 DEF SameStatus, Over
<1> QED BY <1>6, <1>7, <1>8, <1>9, <1>10 DEF DaemonNext

\* On one thread, the daemon runs when no submission is under way.
LEMMA DaemonWhenFree ==
    ASSUME ~ApiExit, IngestNext \/ DaemonNext
    PROVE  entryPc = "done" /\ entryPc' = "done" /\ flow.pc = "idle"
           /\ flow' \in {flow, NoFlow}
<1>1. CASE IngestNext
  BY <1>1 DEF IngestNext, ApplyFill, DeferFill, RejectFill, RedeliverFill, CrashInIngest,
         NewFill, DaemonFree, threads, Restart
<1>2. CASE DaemonNext
  BY <1>2 DEF DaemonNext, RetryUnknownExit, ResolveUnknownExit, RetryEmergencyClose,
         RecoverIntent, ReconcileOrder, AwaitsRetry, ListedPending, DaemonFree, threads
<1> QED BY <1>1, <1>2

\* The prepared unit is pending and holds nothing.
LEMMA StatusInit == Init => StatusInv
<1> SUFFICES ASSUME Init PROVE StatusTrue(row) /\ BusyTrue
  BY LedgerInit, AttributionInit DEF StatusInv, AttributionInv
<1>1. row = PreparedRow /\ flow = NoFlow
  BY DEF Init
<1> QED BY <1>1 DEF StatusTrue, BusyTrue, PreparedRow, NoFlow, Claimed

\* Every step keeps a status that the quantities back, and moves no unit that
\* is over.
LEMMA StatusStep ==
    ASSUME ~ApiExit, StatusInv, [Next]_vars
    PROVE  StatusInv' /\ StaysOver
<1>1. /\ LedgerInv /\ TypeInv /\ TypeOK /\ Attribution /\ LedgerConserved
      /\ StatusTrue(row) /\ BusyTrue
  BY DEF StatusInv, LedgerInv, TypeInv
<1>2. row.remaining <= row.opened
  BY <1>1, BalancedBound DEF TypeOK, Table, LedgerConserved
<1>3. LedgerInv' /\ Attribution'
  BY <1>1, LedgerStep, AttributionStep DEF AttributionInv
<1>4. ASSUME IngestNext \/ DaemonNext PROVE BusyTrue'
  BY <1>4, DaemonWhenFree DEF BusyTrue, NoFlow, Claimed
<1>5. CASE IngestNext
  BY <1>1, <1>3, <1>4, <1>5, IngestKeepsStatus DEF StatusInv
<1>6. CASE ExchangeNext \/ Crash
  BY <1>1, <1>3, <1>6, ExchangeKeepsBusy DEF StatusInv
<1>7. CASE EntryNext
  BY <1>1, <1>2, <1>3, <1>7, EntryKeepsStatus DEF StatusInv
<1>8. CASE ExitNext
  BY <1>1, <1>3, <1>8, ExitKeepsStatus DEF StatusInv
<1>9. CASE DaemonNext
  BY <1>1, <1>3, <1>4, <1>9, DaemonKeepsStatus DEF StatusInv
<1>10. CASE UNCHANGED vars
  BY <1>1, <1>3, <1>10 DEF StatusInv, BusyTrue, StaysOver, vars
<1> QED BY <1>5, <1>6, <1>7, <1>8, <1>9, <1>10 DEF Next

\* The invariant holds for ever.
LEMMA StatusHolds ==
    ASSUME ~ApiExit
    PROVE  Spec => []StatusInv
  BY StatusInit, StatusStep, PTL DEF Spec

\* While submissions share the daemon thread, a status is backed by the
\* quantities.
THEOREM LedgerStatus ==
    ASSUME ~ApiExit
    PROVE  Spec => []StatusMatchesQuantity
<1>1. StatusInv => StatusMatchesQuantity
  BY DEF StatusInv, StatusTrue, StatusMatchesQuantity
<1> QED BY <1>1, StatusHolds, PTL

\* A unit that is closed or failed stays so.
THEOREM LedgerFinality ==
    ASSUME ~ApiExit
    PROVE  Spec => FinalStatusIsFinal
<1>1. StatusInv /\ [Next]_vars
        => [row.status \in {"closed", "failed"} => row'.status = row.status]_vars
  BY StatusStep DEF StaysOver, Over
<1> QED BY <1>1, StatusHolds, PTL DEF Spec, FinalStatusIsFinal

-----------------------------------------------------------------------------
(***************************************************************************)
(* The exchange's side: its net position is what its trades left, and the  *)
(* unit agrees with it once every trade is applied.                        *)
(***************************************************************************)

\* The trades on a tape that add to the position, and those that take away.
Buys(tp) == {f \in 1..Len(tp) : tp[f].ord = Entry}
Sells(tp) == {f \in 1..Len(tp) : tp[f].ord # Entry}

\* A tape read as a table of applied allocations.
AsTable(tp) ==
    [f \in Fill |-> IF f \in 1..Len(tp)
                    THEN [act |-> "open", qty |-> tp[f].qty, ord |-> tp[f].ord,
                          applied |-> TRUE]
                    ELSE NoAlloc]

\* Contracts on the tape add up like those of a table.
LEMMA TapeSum ==
    ASSUME NEW tp \in Seq(ExecType)
    PROVE  /\ AsTable(tp) \in Table
           /\ \A S \in SUBSET (Fill \cap (1..Len(tp))) : Sum(tp, S) = Sum(AsTable(tp), S)
<1>1. \A f \in 1..Len(tp) : tp[f].qty \in 0..EntrySize /\ tp[f].ord \in OrderOrNone
  <2>1. \A x \in ExecType : x.qty \in 0..EntrySize /\ x.ord \in OrderOrNone
    BY OrderFacts, SizeAssumption DEF ExecType
  <2>2. \A f \in 1..Len(tp) : tp[f] \in ExecType
    OBVIOUS
  <2> QED BY <2>1, <2>2
<1>2. AsTable(tp) \in Table
  BY <1>1, SizeAssumption DEF AsTable, Table, AllocType, NoAlloc, Actions, OrderOrNone
<1>3. \A f \in Fill \cap (1..Len(tp)) : AsTable(tp)[f].qty = tp[f].qty
  BY DEF AsTable
<1>4. ASSUME NEW S \in SUBSET (Fill \cap (1..Len(tp)))
      PROVE  Sum(tp, S) = Sum(AsTable(tp), S)
  <2>1. \A f \in S : tp[f].qty = AsTable(tp)[f].qty
    BY <1>3
  <2> HIDE DEF AsTable
  <2> QED BY <2>1, SumSame
<1> QED BY <1>2, <1>4

\* A sum over the tape is a natural number.
LEMMA TapeSumNat ==
    ASSUME NEW tp \in Seq(ExecType), NEW S \in SUBSET (Fill \cap (1..Len(tp)))
    PROVE  Sum(tp, S) \in Nat
<1>1. AsTable(tp) \in Table /\ Sum(tp, S) = Sum(AsTable(tp), S)
  BY TapeSum
<1>2. S \in SUBSET Fill
  OBVIOUS
<1> QED BY <1>1, <1>2, SumFinite

\* Disjoint sets of trades add up.
LEMMA TapeSumDisjoint ==
    ASSUME NEW tp \in Seq(ExecType), NEW S \in SUBSET (Fill \cap (1..Len(tp))),
           NEW T \in SUBSET (Fill \cap (1..Len(tp))), S \cap T = {}
    PROVE  Sum(tp, S \cup T) = Sum(tp, S) + Sum(tp, T)
<1>1. /\ AsTable(tp) \in Table /\ Sum(tp, S) = Sum(AsTable(tp), S)
      /\ Sum(tp, T) = Sum(AsTable(tp), T)
      /\ Sum(tp, S \cup T) = Sum(AsTable(tp), S \cup T)
  BY TapeSum
<1>2. S \in SUBSET Fill /\ T \in SUBSET Fill
  OBVIOUS
<1> QED BY <1>1, <1>2, SumDisjoint

\* One trade contributes its quantity.
LEMMA TapeSumSingle ==
    ASSUME NEW tp \in Seq(ExecType), NEW f \in Fill \cap (1..Len(tp))
    PROVE  Sum(tp, {f}) = tp[f].qty
<1>1. AsTable(tp) \in Table /\ Sum(tp, {f}) = Sum(AsTable(tp), {f})
  BY TapeSum
<1>2. AsTable(tp)[f].qty = tp[f].qty
  BY DEF AsTable
<1> HIDE DEF AsTable
<1> QED BY <1>1, <1>2, SumSingle

\* One more trade on the tape adds its quantity to its side.
LEMMA TradeAdds ==
    ASSUME NEW tp \in Seq(ExecType), NEW x \in ExecType, Len(tp) < MaxFills
    PROVE  /\ Append(tp, x) \in Seq(ExecType) /\ Len(Append(tp, x)) = Len(tp) + 1
           /\ x.ord = Entry =>
                 /\ Sum(Append(tp, x), Buys(Append(tp, x))) = Sum(tp, Buys(tp)) + x.qty
                 /\ Sum(Append(tp, x), Sells(Append(tp, x))) = Sum(tp, Sells(tp))
           /\ x.ord # Entry =>
                 /\ Sum(Append(tp, x), Buys(Append(tp, x))) = Sum(tp, Buys(tp))
                 /\ Sum(Append(tp, x), Sells(Append(tp, x))) = Sum(tp, Sells(tp)) + x.qty
<1> DEFINE tq == Append(tp, x)
           n == Len(tp) + 1
<1>1. /\ tq \in Seq(ExecType) /\ Len(tq) = n /\ tq[n] = x
      /\ \A f \in 1..Len(tp) : tq[f] = tp[f]
      /\ Len(tp) \in Nat /\ n \in Fill \cap (1..Len(tq)) /\ n \notin 1..Len(tp)
      /\ 1..Len(tp) \subseteq Fill \cap (1..Len(tq))
      /\ 1..n = (1..Len(tp)) \cup {n}
  BY FillAssumption DEF Fill
<1> HIDE DEF tq, n
<1>2. Sum(tq, {n}) = x.qty
  BY <1>1, TapeSumSingle
<1>3. ASSUME NEW S \in SUBSET (1..Len(tp))
      PROVE  /\ Sum(tq, S) = Sum(tp, S) /\ Sum(tp, S) \in Nat
             /\ Sum(tq, S \cup {n}) = Sum(tp, S) + x.qty
  <2>1. \A f \in S : tq[f].qty = tp[f].qty
    BY <1>1
  <2>2. Sum(tq, S) = Sum(tp, S)
    BY <2>1, SumSame
  <2>3. /\ S \in SUBSET (Fill \cap (1..Len(tq))) /\ S \in SUBSET (Fill \cap (1..Len(tp)))
        /\ {n} \in SUBSET (Fill \cap (1..Len(tq))) /\ S \cap {n} = {}
    BY <1>1
  <2>4. Sum(tq, S \cup {n}) = Sum(tq, S) + Sum(tq, {n})
    BY <1>1, <2>3, TapeSumDisjoint
  <2>5. Sum(tp, S) \in Nat
    BY <2>3, TapeSumNat
  <2> QED BY <1>2, <2>2, <2>4, <2>5
<1>4. Buys(tp) \in SUBSET (1..Len(tp)) /\ Sells(tp) \in SUBSET (1..Len(tp))
  BY DEF Buys, Sells
<1>5. CASE x.ord = Entry
  <2>1. Buys(tq) = Buys(tp) \cup {n} /\ Sells(tq) = Sells(tp)
    BY <1>1, <1>5 DEF Buys, Sells
  <2>2. /\ Sum(tq, Buys(tq)) = Sum(tp, Buys(tp)) + x.qty
        /\ Sum(tq, Sells(tq)) = Sum(tp, Sells(tp))
    BY <1>3, <1>4, <2>1
  <2> QED BY <1>1, <1>5, <2>2 DEF tq, n
<1>6. CASE x.ord # Entry
  <2>1. Buys(tq) = Buys(tp) /\ Sells(tq) = Sells(tp) \cup {n}
    BY <1>1, <1>6 DEF Buys, Sells
  <2>2. /\ Sum(tq, Buys(tq)) = Sum(tp, Buys(tp))
        /\ Sum(tq, Sells(tq)) = Sum(tp, Sells(tp)) + x.qty
    BY <1>3, <1>4, <2>1
  <2> QED BY <1>1, <1>6, <2>2 DEF tq, n
<1> QED BY <1>5, <1>6

\* The exchange's net position is what its trades left, and the tape has room.
NetTrue ==
    /\ Len(tape) <= MaxFills
    /\ Sum(tape, Buys(tape)) = net + Sum(tape, Sells(tape))

\* Nothing was traded.
LEMMA NetInit == Init => NetTrue
<1> SUFFICES ASSUME Init PROVE NetTrue
  OBVIOUS
<1>1. tape = <<>> /\ net = 0
  BY DEF Init
<1>2. Buys(tape) = {} /\ Sells(tape) = {} /\ Len(tape) = 0
  BY <1>1 DEF Buys, Sells
<1>3. Sum(tape, Buys(tape)) = 0 /\ Sum(tape, Sells(tape)) = 0
  BY <1>2, SumEmpty
<1>4. Len(tape) <= MaxFills
  BY <1>2, FillAssumption
<1> QED BY <1>1, <1>3, <1>4 DEF NetTrue

\* The entry adds its size in one trade or two; an exit never sells more than
\* the net position.
LEMMA ExchangeKeepsNet ==
    ASSUME TypeOK, NetTrue, ExchangeNext
    PROVE  NetTrue'
<1>1. /\ tape \in Seq(ExecType) /\ net \in Nat /\ Len(tape) \in Nat /\ MaxFills \in Nat
      /\ Entry \in Order /\ Exits \subseteq Order /\ Entry \notin Exits
      /\ EntrySize \in Nat
      /\ Len(tape) <= MaxFills /\ Sum(tape, Buys(tape)) = net + Sum(tape, Sells(tape))
  BY OrderFacts, OrderAssumption, SizeAssumption, FillAssumption DEF TypeOK, NetTrue
<1>2. Sum(tape, Buys(tape)) \in Nat /\ Sum(tape, Sells(tape)) \in Nat
  <2>1. /\ Buys(tape) \in SUBSET (Fill \cap (1..Len(tape)))
        /\ Sells(tape) \in SUBSET (Fill \cap (1..Len(tape)))
    BY <1>1 DEF Buys, Sells, Fill
  <2> QED BY <1>1, <2>1, TapeSumNat
<1>3. CASE FillEntry
  <2>1. PICK k \in 1..EntrySize :
          LET trades == IF k = EntrySize
                        THEN <<[ord |-> Entry, qty |-> k]>>
                        ELSE <<[ord |-> Entry, qty |-> k],
                               [ord |-> Entry, qty |-> EntrySize - k]>>
          IN  /\ Len(tape) + Len(trades) <= MaxFills
              /\ tape' = tape \o trades
    BY <1>3 DEF FillEntry
  <2>2. net' = net + EntrySize
    BY <1>3 DEF FillEntry
  <2> DEFINE a == [ord |-> Entry, qty |-> k]
             b == [ord |-> Entry, qty |-> EntrySize - k]
             tp == Append(tape, a)
  <2>3. a \in ExecType /\ a.ord = Entry /\ a.qty = k /\ k \in Nat /\ k <= EntrySize
    BY <1>1 DEF ExecType
  <2>4. Len(tape) < MaxFills
    <3>1. CASE k = EntrySize
      BY <1>1, <2>1, <3>1
    <3>2. CASE k # EntrySize
      BY <1>1, <2>1, <3>2
    <3> QED BY <3>1, <3>2
  <2>5. /\ tp \in Seq(ExecType) /\ Len(tp) = Len(tape) + 1
        /\ Sum(tp, Buys(tp)) = Sum(tape, Buys(tape)) + k
        /\ Sum(tp, Sells(tp)) = Sum(tape, Sells(tape))
    <3> HIDE DEF a
    <3> QED BY <1>1, <2>3, <2>4, TradeAdds
  <2>6. CASE k = EntrySize
    <3>1. tape' = tp
      BY <1>1, <2>1, <2>3, <2>6
    <3> HIDE DEF tp
    <3> QED BY <1>1, <1>2, <2>2, <2>4, <2>5, <2>6, <3>1 DEF NetTrue
  <2>7. CASE k # EntrySize
    <3>1. /\ b \in ExecType /\ b.ord = Entry /\ b.qty = EntrySize - k
          /\ Len(tape) + 2 <= MaxFills /\ tape' = tape \o <<a, b>>
      BY <1>1, <2>1, <2>7 DEF ExecType
    <3>2. tape' = Append(tp, b)
      <4> HIDE DEF a, b
      <4> QED BY <1>1, <2>3, <3>1
    <3> HIDE DEF tp, a, b
    <3>3. /\ Len(tape') = Len(tp) + 1
          /\ Sum(tape', Buys(tape')) = Sum(tp, Buys(tp)) + b.qty
          /\ Sum(tape', Sells(tape')) = Sum(tp, Sells(tp))
      <4>1. Len(tp) < MaxFills
        BY <1>1, <2>5, <3>1
      <4> QED BY <2>5, <3>1, <3>2, <4>1, TradeAdds
    <3> QED BY <1>1, <1>2, <2>2, <2>3, <2>5, <3>1, <3>3 DEF NetTrue
  <2> QED BY <2>6, <2>7
<1>4. ASSUME NEW o \in Exits, FillExit(o)
      PROVE  NetTrue'
  <2>1. PICK q \in 1..EntrySize : /\ q <= net /\ net' = net - q
                                  /\ tape' = Append(tape, [ord |-> o, qty |-> q])
    BY <1>4 DEF FillExit
  <2>2. Len(tape) < MaxFills
    BY <1>4 DEF FillExit
  <2> DEFINE a == [ord |-> o, qty |-> q]
  <2>3. a \in ExecType /\ a.ord # Entry /\ a.qty = q /\ q \in Nat
    BY <1>1 DEF ExecType
  <2>4. tape' = Append(tape, a)
    BY <2>1
  <2> HIDE DEF a
  <2>5. /\ Len(tape') = Len(tape) + 1
        /\ Sum(tape', Buys(tape')) = Sum(tape, Buys(tape))
        /\ Sum(tape', Sells(tape')) = Sum(tape, Sells(tape)) + q
    BY <1>1, <2>2, <2>3, <2>4, TradeAdds
  <2> QED BY <1>1, <1>2, <2>1, <2>2, <2>3, <2>5 DEF NetTrue
<1>5. ASSUME NEW o \in Order, CancelOrder(o) PROVE NetTrue'
  BY <1>5 DEF CancelOrder, NetTrue
<1> QED BY <1>3, <1>4, <1>5 DEF ExchangeNext

\* Only the exchange writes its tape and its net position.
LEMMA OthersKeepTape ==
    ASSUME IngestNext \/ EntryNext \/ ExitNext \/ DaemonNext \/ Crash \/ UNCHANGED vars
    PROVE  UNCHANGED <<tape, net>>
<1>1. CASE IngestNext
  BY <1>1 DEF IngestNext, ApplyFill, DeferFill, RejectFill, RedeliverFill, CrashInIngest,
              exchange
<1>2. CASE EntryNext
  BY <1>2 DEF EntryNext, SubmitEntry, EntryReplyEmpty, RecordEntrySubmission,
              SubmitEmergencyClose, exchange
<1>3. CASE ExitNext
  BY <1>3 DEF ExitNext, RequestExit, ClaimExit, CancelStopForExit, SubmitExit,
              ExitReplyEmpty, MarkRead, MarkSave, exchange
<1>4. CASE DaemonNext
  BY <1>4 DEF DaemonNext, RetryUnknownExit, ResolveUnknownExit, RetryEmergencyClose,
              RecoverIntent, ReconcileOrder, exchange
<1>5. CASE Crash \/ UNCHANGED vars
  BY <1>5 DEF Crash, exchange, vars
<1> QED BY <1>1, <1>2, <1>3, <1>4, <1>5

\* Every step keeps the net position true.
LEMMA NetStep ==
    ASSUME TypeOK, NetTrue, [Next]_vars
    PROVE  NetTrue'
<1>1. CASE ExchangeNext
  BY <1>1, ExchangeKeepsNet
<1>2. CASE UNCHANGED <<tape, net>>
  BY <1>2 DEF NetTrue
<1> QED BY <1>1, <1>2, OthersKeepTape DEF Next

\* When every executed fill is applied, the table and the tape are one account.
LEMMA CaughtUp ==
    ASSUME StatusInv, NetTrue
    PROVE  CaughtUpAgrees
<1> SUFFICES ASSUME \A f \in Executed : alloc[f].applied
             PROVE  row.remaining = net
  BY DEF CaughtUpAgrees
<1>1. /\ row \in RowType /\ alloc \in Table /\ tape \in Seq(ExecType) /\ net \in Nat
      /\ TableTrue(alloc) /\ Balanced(row, alloc)
      /\ row.remaining \in Nat /\ row.opened \in Nat
      /\ Len(tape) \in Nat /\ MaxFills \in Nat
  BY FillAssumption DEF StatusInv, LedgerInv, TypeInv, TypeOK, Attribution, Table,
     LedgerConserved, RowType
<1>2. Executed \subseteq Fill
  BY <1>1 DEF NetTrue, Executed, Fill
<1>3. /\ Opens(alloc) = Buys(tape) /\ Closes(alloc) = Sells(tape)
  <2>1. \A f \in Fill : alloc[f].act \in Actions
    BY <1>1 DEF Table, AllocType
  <2>2. \A f \in Fill : alloc[f].applied => alloc[f].act # "none"
    BY <1>1 DEF TableTrue
  <2>3. \A f \in Fill : alloc[f].act # "none" =>
           f \in Executed /\ (alloc[f].act = "open" <=> tape[f].ord = Entry)
    BY <1>1 DEF TableTrue
  <2>4. Buys(tape) = {f \in Executed : tape[f].ord = Entry}
        /\ Sells(tape) = {f \in Executed : tape[f].ord # Entry}
    BY DEF Buys, Sells, Executed
  <2>5. Opens(alloc) = {f \in Executed : tape[f].ord = Entry}
    BY <1>2, <2>2, <2>3 DEF Opens
  <2>6. Closes(alloc) = {f \in Executed : tape[f].ord # Entry}
    BY <1>2, <2>1, <2>2, <2>3 DEF Closes, ExitAct, Actions
  <2> QED BY <2>4, <2>5, <2>6
<1>4. \A f \in Opens(alloc) \cup Closes(alloc) : alloc[f].qty = tape[f].qty
  BY <1>1 DEF TableTrue, Opens, Closes
<1>5. /\ Sum(alloc, Opens(alloc)) = Sum(tape, Buys(tape))
      /\ Sum(alloc, Closes(alloc)) = Sum(tape, Sells(tape))
  BY <1>3, <1>4, SumSame
<1>6. Sum(alloc, Opens(alloc)) \in Nat /\ Sum(alloc, Closes(alloc)) \in Nat
  <2>1. Opens(alloc) \in SUBSET Fill /\ Closes(alloc) \in SUBSET Fill
    BY DEF Opens, Closes
  <2> QED BY <1>1, <2>1, SumFinite
<1> DEFINE bought == Sum(alloc, Opens(alloc))
           sold == Sum(alloc, Closes(alloc))
<1>7. row.opened = bought /\ row.opened = row.remaining + sold /\ bought = net + sold
  BY <1>1, <1>5 DEF Balanced, NetTrue
<1>8. /\ bought \in Nat /\ sold \in Nat /\ row.remaining \in Nat /\ net \in Nat
  BY <1>1, <1>6
<1> HIDE DEF bought, sold
<1>9. row.remaining + sold = net + sold
  BY <1>7
<1> QED BY <1>8, <1>9

\* Once every executed fill is applied, the unit holds the exchange's net
\* position.
THEOREM LedgerCaughtUp ==
    ASSUME ~ApiExit
    PROVE  Spec => []CaughtUpAgrees
<1>1. StatusInv => TypeOK
  BY DEF StatusInv, LedgerInv, TypeInv
<1> QED BY <1>1, StatusHolds, NetInit, NetStep, CaughtUp, PTL DEF Spec

-----------------------------------------------------------------------------
(***************************************************************************)
(* Refinement: the ledger implements LogicalUnit.                          *)
(***************************************************************************)

\* The fills of S that add, and those that take away.
Adding(tp, S) == {f \in S : tp[f].ord = Entry}
Taking(tp, S) == {f \in S : tp[f].ord # Entry}

\* Both modules take Cardinality from FiniteSets.
LEMMA SameCardinality ==
    ASSUME NEW S PROVE Unit!Cardinality(S) = Cardinality(S)
  BY DEF Cardinality, Unit!Cardinality

\* The abstract account sums like the store does.
LEMMA AbstractSums ==
    ASSUME NEW S
    PROVE  /\ Unit!Added(S) = Sum(tape, Adding(tape, S))
           /\ Unit!Taken(S) = Sum(tape, Taking(tape, S))
  BY SameCardinality DEF Unit!Added, Unit!Taken, Unit!Lots, Sum, Lots, Adding, Taking

\* The row holds what the applied fills added and did not take away.
AccountTrue ==
    /\ AppliedSet(alloc) \in SUBSET (Fill \cap Executed)
    /\ row.opened \in Nat /\ row.remaining \in Nat
    /\ row.opened = Sum(tape, Adding(tape, AppliedSet(alloc)))
    /\ row.opened = row.remaining + Sum(tape, Taking(tape, AppliedSet(alloc)))
    /\ Over(row) => row.remaining = 0

\* The balance of a truly attributed table, in terms of the tape.
LEMMA AccountOfApplied == StatusInv => AccountTrue
<1> SUFFICES ASSUME StatusInv PROVE AccountTrue
  OBVIOUS
<1>1. /\ alloc \in Table /\ TableTrue(alloc) /\ Balanced(row, alloc) /\ row \in RowType
      /\ row.opened \in Nat /\ row.remaining \in Nat /\ StatusTrue(row)
  BY DEF StatusInv, LedgerInv, TypeInv, TypeOK, Attribution, Table, LedgerConserved,
         RowType
<1>2. \A f \in AppliedSet(alloc) :
         /\ f \in Fill /\ f \in Executed /\ alloc[f].qty = tape[f].qty
         /\ alloc[f].act # "none" /\ alloc[f].act \in Actions
         /\ alloc[f].act = "open" <=> tape[f].ord = Entry
  BY <1>1 DEF AppliedSet, TableTrue, Table, AllocType
<1>3. Opens(alloc) = Adding(tape, AppliedSet(alloc))
  BY <1>2 DEF Opens, Adding, AppliedSet
<1>4. Closes(alloc) = Taking(tape, AppliedSet(alloc))
  BY <1>2 DEF Closes, Taking, AppliedSet, ExitAct, Actions
<1>5. Sum(alloc, Opens(alloc)) = Sum(tape, Adding(tape, AppliedSet(alloc)))
  <2>1. \A f \in Adding(tape, AppliedSet(alloc)) : alloc[f].qty = tape[f].qty
    BY <1>2 DEF Adding
  <2> QED BY <1>3, <2>1, SumSame
<1>6. Sum(alloc, Closes(alloc)) = Sum(tape, Taking(tape, AppliedSet(alloc)))
  <2>1. \A f \in Taking(tape, AppliedSet(alloc)) : alloc[f].qty = tape[f].qty
    BY <1>2 DEF Taking
  <2> QED BY <1>4, <2>1, SumSame
<1>7. Over(row) => row.remaining = 0
  BY <1>1, BalancedBound DEF Over, StatusTrue
<1> QED BY <1>1, <1>2, <1>5, <1>6, <1>7 DEF Balanced, AccountTrue

\* What is counted stays counted.
LEMMA AppliedGrows ==
    ASSUME TypeOK, TableTrue(alloc), Next
    PROVE  AppliedSet(alloc) \subseteq AppliedSet(alloc')
<1>1. alloc \in Table /\ row \in RowType
  BY DEF TypeOK, Table
<1>2. CASE IngestNext
  <2>0. PICK f \in Fill : \/ ApplyFill(f) \/ DeferFill(f) \/ RejectFill(f)
                          \/ RedeliverFill(f) \/ CrashInIngest(f)
    BY <1>2 DEF IngestNext
  <2>1. ASSUME alloc[f].act = "none" PROVE f \notin AppliedSet(alloc)
    BY <2>1 DEF TableTrue, AppliedSet
  <2>2. ASSUME NewFill(f), ~Defers(f), Accepts(f)
        PROVE  /\ RecordedRow(f) \in RowType /\ RecordedAlloc(f) \in Table
               /\ AppliedSet(alloc) \subseteq AppliedSet(RecordedAlloc(f))
    <3>1. /\ RecordedRow(f) \in RowType /\ RecordedAlloc(f) \in Table
          /\ \A g \in Fill : g # f => RecordedAlloc(f)[g] = alloc[g]
          /\ alloc[f].act = "none"
      BY <2>2, NewFillType DEF NewFill
    <3> QED BY <2>1, <3>1 DEF AppliedSet
  <2>3. ASSUME NEW r \in RowType, NEW t \in Table, FinishIngest(r, t, f)
        PROVE  AppliedSet(t) \subseteq AppliedSet(alloc')
    <3>1. \A g \in Fill : t[g].applied => alloc'[g].applied
      BY <2>3, FinishIngestTracks
    <3> QED BY <3>1 DEF AppliedSet
  <2>4. CASE ApplyFill(f)
    <3>1. /\ NewFill(f) /\ ~Defers(f) /\ Accepts(f)
          /\ FinishIngest(RecordedRow(f), RecordedAlloc(f), f)
      BY <2>4 DEF ApplyFill
    <3> QED BY <2>2, <2>3, <3>1
  <2>5. CASE DeferFill(f)
    <3>1. /\ alloc[f].act = "none"
          /\ alloc' = [alloc EXCEPT ![f] = AllocationOf(f, FALSE)]
      BY <2>5 DEF DeferFill, NewFill
    <3>2. \A g \in Fill : g # f => alloc'[g] = alloc[g]
      BY <1>1, <3>1 DEF Table
    <3> QED BY <2>1, <3>1, <3>2 DEF AppliedSet
  <2>6. CASE RejectFill(f)
    BY <2>6 DEF RejectFill
  <2>7. CASE RedeliverFill(f)
    BY <1>1, <2>3, <2>7 DEF RedeliverFill
  <2>8. CASE CrashInIngest(f)
    BY <2>2, <2>8 DEF CrashInIngest
  <2> QED BY <2>0, <2>4, <2>5, <2>6, <2>7, <2>8
<1>3. CASE ~IngestNext
  <2>1. alloc' = alloc
    BY <1>3, ExchangeKeepsTypes, EntryKeepsTypes, ExitKeepsTypes, DaemonKeepsTypes,
       CrashKeepsTypes DEF Next, Quiet
  <2> QED BY <2>1
<1> QED BY <1>2, <1>3

\* A step of the store that leaves the tape alone is a step of the account:
\* the fills that are newly applied explain the change of the quantity.
LEMMA CountStep ==
    ASSUME tape \in Seq(ExecType), AccountTrue, AccountTrue', tape' = tape, ~Over(row),
           AppliedSet(alloc) \subseteq AppliedSet(alloc')
    PROVE  Unit!Count
<1> DEFINE C == AppliedSet(alloc)
           D == AppliedSet(alloc')
           S == D \ C
           P == Fill \cap (1..Len(tape))
<1>1. /\ C \in SUBSET P /\ row.remaining \in Nat
      /\ row.opened = Sum(tape, Adding(tape, C))
      /\ row.opened = row.remaining + Sum(tape, Taking(tape, C))
  BY DEF AccountTrue, Executed
<1>2. /\ D \in SUBSET P /\ row'.remaining \in Nat
      /\ row'.opened = Sum(tape, Adding(tape, D))
      /\ row'.opened = row'.remaining + Sum(tape, Taking(tape, D))
      /\ Over(row') => row'.remaining = 0
  BY DEF AccountTrue, Executed
<1>3. C \subseteq D
  OBVIOUS
<1>4. C = {f \in Fill : alloc[f].applied} /\ D = {f \in Fill : alloc'[f].applied}
  BY DEF AppliedSet
<1> HIDE DEF C, D
<1>5. /\ Adding(tape, D) = Adding(tape, C) \cup Adding(tape, S)
      /\ Taking(tape, D) = Taking(tape, C) \cup Taking(tape, S)
      /\ Adding(tape, C) \cap Adding(tape, S) = {}
      /\ Taking(tape, C) \cap Taking(tape, S) = {}
      /\ Adding(tape, C) \in SUBSET P /\ Adding(tape, S) \in SUBSET P
      /\ Taking(tape, C) \in SUBSET P /\ Taking(tape, S) \in SUBSET P
  BY <1>1, <1>2, <1>3 DEF Adding, Taking
<1> HIDE DEF S
<1> DEFINE a == Sum(tape, Adding(tape, S))
           b == Sum(tape, Taking(tape, S))
           ac == Sum(tape, Adding(tape, C))
           bc == Sum(tape, Taking(tape, C))
<1>6. a \in Nat /\ b \in Nat /\ ac \in Nat /\ bc \in Nat
  BY <1>5, TapeSumNat
<1>7. Sum(tape, Adding(tape, D)) = ac + a /\ Sum(tape, Taking(tape, D)) = bc + b
  BY <1>5, TapeSumDisjoint
<1>8. Unit!Added(S) = a /\ Unit!Taken(S) = b
  BY AbstractSums
<1> HIDE DEF a, b, ac, bc
<1>9. ac = row.remaining + bc /\ ac + a = row'.remaining + (bc + b)
  BY <1>1, <1>2, <1>7 DEF ac, bc
<1>10. row'.remaining = row.remaining + a - b
  <2> DEFINE x == row.remaining
             y == row'.remaining
  <2>1. x \in Nat /\ y \in Nat /\ ac = x + bc /\ ac + a = y + (bc + b)
    BY <1>1, <1>2, <1>9
  <2> HIDE DEF x, y
  <2>2. y = x + a - b
    BY <1>6, <2>1
  <2> QED BY <2>2 DEF x, y
<1>11. row'.remaining = row.remaining + Unit!Added(S) - Unit!Taken(S)
  BY <1>8, <1>10
<1>12. S \in SUBSET ((1..Len(tape)) \ C) /\ D = C \cup S
  BY <1>1, <1>2, <1>3 DEF S
<1>13. row'.remaining >= 0
  BY <1>2
<1> QED
  BY <1>2, <1>4, <1>11, <1>12, <1>13 DEF Unit!Count, Unit!Place, Over

\* A step of the exchange is an execution of the account, or nothing to it.
LEMMA ExecuteStep ==
    ASSUME TypeOK, TypeOK', ExchangeNext
    PROVE  Unit!Execute \/ UNCHANGED Unit!unitVars
<1>1. /\ UNCHANGED <<row, alloc>>
      /\ Executed \subseteq Executed' /\ \A f \in Executed : tape'[f] = tape[f]
      /\ tape' = tape \/ Len(tape') \in (Len(tape) + 1)..MaxFills
  BY TapeGrows DEF store
<1>2. tape \in Seq(ExecType) /\ tape' \in Seq(ExecType)
  BY DEF TypeOK
<1>3. CASE tape' = tape
  BY <1>1, <1>3 DEF Unit!unitVars
<1>4. CASE Len(tape') \in (Len(tape) + 1)..MaxFills
  <2>1. Len(tape) \in Nat /\ Len(tape') \in Nat /\ Len(tape) < Len(tape')
    BY <1>2, <1>4, FillAssumption
  <2>2. SubSeq(tape', 1, Len(tape)) = tape
    <3> DEFINE s == SubSeq(tape', 1, Len(tape))
    <3>1. /\ s \in Seq(ExecType) /\ Len(s) = Len(tape)
          /\ \A f \in 1..Len(tape) : s[f] = tape'[f]
      BY <1>2, <2>1
    <3>2. \A f \in 1..Len(tape) : s[f] = tape[f]
      BY <1>1, <3>1 DEF Executed
    <3> HIDE DEF s
    <3> QED BY <1>2, <3>1, <3>2, SeqEqual DEF s
  <2> QED BY <1>1, <1>4, <2>2 DEF Unit!Execute
<1> QED BY <1>1, <1>3, <1>4

\* The prepared unit is an empty account.
LEMMA UnitInit == Init => Unit!Init
  BY DEF Init, Unit!Init, PreparedRow, NoAlloc

\* Every step of the ledger is a step of the account, or nothing to it.
LEMMA UnitStep ==
    ASSUME ~ApiExit, StatusInv, StatusInv', AccountTrue, AccountTrue', [Next]_vars
    PROVE  [Unit!Next]_(Unit!unitVars)
<1>1. TypeOK /\ TypeOK' /\ TableTrue(alloc) /\ tape \in Seq(ExecType)
  BY DEF StatusInv, LedgerInv, TypeInv, Attribution, TypeOK
<1>2. CASE ExchangeNext
  BY <1>1, <1>2, ExecuteStep DEF Unit!Next
<1>3. CASE UNCHANGED vars
  BY <1>3 DEF vars, Unit!unitVars
<1>4. CASE Next /\ ~ExchangeNext
  <2>1. tape' = tape
    BY <1>4, OthersKeepTape DEF Next
  <2>2. CASE Over(row)
    <3>1. /\ row'.status = row.status /\ row'.remaining = row.remaining
          /\ AppliedSet(alloc') = AppliedSet(alloc)
      BY <2>2, StatusStep DEF StaysOver
    <3>2. UNCHANGED Unit!unitVars
      BY <2>1, <3>1 DEF Unit!unitVars, AppliedSet
    <3> QED BY <3>2
  <2>3. CASE ~Over(row)
    BY <1>1, <1>4, <2>1, <2>3, AppliedGrows, CountStep DEF Unit!Next
  <2> QED BY <2>2, <2>3
<1> QED BY <1>2, <1>3, <1>4

\* While submissions share the daemon thread, the ledger implements the
\* abstract account of fills.
THEOREM LedgerImplementsUnit ==
    ASSUME ~ApiExit
    PROVE  Spec => ImplementsUnit
<1>1. StatusInv /\ StatusInv' /\ AccountTrue /\ AccountTrue' /\ [Next]_vars
        => [Unit!Next]_(Unit!unitVars)
  BY UnitStep
<1> QED BY <1>1, UnitInit, StatusHolds, AccountOfApplied, PTL
        DEF Spec, ImplementsUnit, Unit!Spec
=============================================================================
