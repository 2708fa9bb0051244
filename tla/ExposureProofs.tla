--------------------------- MODULE ExposureProofs ---------------------------
(***************************************************************************)
(* Proofs about Exposure, for every number of entries, exits, imports and  *)
(* trades from outside and every size of order.                            *)
(*                                                                         *)
(* The invariant weighs the position against the units.  What the exchange *)
(* holds, together with the exits nobody has recorded, is at most what the *)
(* units hold, what was executed for them and is not recorded, and what    *)
(* strangers bought (Explained); the same is true of a position that was   *)
(* read a while ago, for as long as no fill is recorded, which is until it *)
(* is judged (SeenExplained).  Recovery creates the difference between     *)
(* that position and the units, hence no more than the strangers bought.   *)
(* The sums are cardinalities of sets of contracts, so that the theorems   *)
(* on finite sets say how they change when one row does.                   *)
(***************************************************************************)
EXTENDS Exposure, FiniteSetTheorems, TLAPS

-----------------------------------------------------------------------------
(***************************************************************************)
(* Sums over units, counted as contracts.                                  *)
(***************************************************************************)
Contracts(S, q) == UNION {{u} \X (1..q[u]) : u \in S}

\* q gives every unit of the finite set S a quantity.
Quantities(S, q) == IsFiniteSet(S) /\ \A u \in S : q[u] \in Nat

LEMMA TotalIsNat ==
    ASSUME NEW S, NEW q, Quantities(S, q)
    PROVE  IsFiniteSet(Contracts(S, q)) /\ Total(S, q) \in Nat
  <1> DEFINE L == {{u} \X (1..q[u]) : u \in S}
  <1>1. IsFiniteSet(L)
    <2>1. IsFiniteSet(S)
      BY DEF Quantities
    <2> DEFINE f == [u \in S |-> {u} \X (1..q[u])]
    <2>2. f \in Surjection(S, L)
      BY DEF Surjection
    <2> HIDE DEF f, L
    <2> QED BY <2>1, <2>2, FS_Surjection
  <1>2. ASSUME NEW u \in S PROVE IsFiniteSet({u} \X (1..q[u]))
    <2>1. q[u] \in Int /\ 1 \in Int
      BY DEF Quantities
    <2>2. IsFiniteSet(1..q[u])
      BY <2>1, FS_Interval
    <2>3. IsFiniteSet({u})
      BY FS_Singleton
    <2> QED BY <2>2, <2>3, FS_Product
  <1>3. \A l \in L : IsFiniteSet(l)
    BY <1>2
  <1>4. IsFiniteSet(UNION L)
    <2> HIDE DEF L
    <2> QED BY <1>1, <1>3, FS_UNION
  <1>5. Contracts(S, q) = UNION L /\ Total(S, q) = Cardinality(UNION L)
    BY DEF Contracts, Total
  <1> HIDE DEF L
  <1> QED BY <1>4, <1>5, FS_CardinalityType

\* One unit contributes its quantity.
LEMMA TotalSingle ==
    ASSUME NEW x, NEW q, q[x] \in Nat
    PROVE  Total({x}, q) = q[x]
  <1> DEFINE n == q[x]
  <1>1. Total({x}, q) = Cardinality({x} \X (1..n))
    <2>1. UNION {{u} \X (1..q[u]) : u \in {x}} = {x} \X (1..n)
      OBVIOUS
    <2> QED BY <2>1 DEF Total
  <1>2. IsFiniteSet({x}) /\ Cardinality({x}) = 1
    BY FS_Singleton, Zenon
  <1>3. n \in Nat
    OBVIOUS
  <1> HIDE DEF n
  <1>4. IsFiniteSet(1..n) /\ Cardinality(1..n) = IF 1 > n THEN 0 ELSE n - 1 + 1
    <2>1. 1 \in Int /\ n \in Int
      BY <1>3
    <2> QED BY <2>1, FS_Interval
  <1>5. Cardinality(1..n) = n
    BY <1>3, <1>4
  <1>6. Cardinality({x} \X (1..n)) = Cardinality({x}) * Cardinality(1..n)
    BY <1>2, <1>4, FS_Product
  <1>7. Total({x}, q) = 1 * n
    BY <1>1, <1>2, <1>5, <1>6
  <1>8. Total({x}, q) = n
    BY <1>3, <1>7
  <1> QED BY <1>8 DEF n

\* One more unit.
LEMMA TotalAdd ==
    ASSUME NEW S, NEW q, Quantities(S, q), NEW x, x \notin S, q[x] \in Nat
    PROVE  Total(S \cup {x}, q) = Total(S, q) + q[x]
  <1>1. Quantities({x}, q)
    BY FS_Singleton DEF Quantities
  <1>2. Contracts(S \cup {x}, q) = Contracts(S, q) \cup Contracts({x}, q)
    BY DEF Contracts
  <1>3. Contracts(S, q) \cap Contracts({x}, q) = {}
    BY DEF Contracts
  <1>4. IsFiniteSet(Contracts(S, q)) /\ IsFiniteSet(Contracts({x}, q))
    BY <1>1, TotalIsNat
  <1>5. Cardinality(Contracts(S, q) \cup Contracts({x}, q))
          = Cardinality(Contracts(S, q)) + Cardinality(Contracts({x}, q))
              - Cardinality(Contracts(S, q) \cap Contracts({x}, q))
    BY <1>4, FS_Union
  <1>6. Cardinality(Contracts(S, q) \cap Contracts({x}, q)) = 0
    BY <1>3, FS_EmptySet, Zenon
  <1>7. Total(S \cup {x}, q) = Total(S, q) + Total({x}, q) - 0
    BY <1>2, <1>5, <1>6 DEF Total, Contracts
  <1>8. Total(S, q) \in Nat /\ Total({x}, q) = q[x]
    BY TotalIsNat, TotalSingle
  <1> QED BY <1>7, <1>8

\* A sum looks at the quantities of its units only.
LEMMA TotalSame ==
    ASSUME NEW S, NEW q, NEW r, \A u \in S : r[u] = q[u]
    PROVE  Total(S, r) = Total(S, q)
  <1>1. {{u} \X (1..r[u]) : u \in S} = {{u} \X (1..q[u]) : u \in S}
    OBVIOUS
  <1> QED BY <1>1 DEF Total

\* Units without contracts may be left out.
LEMMA TotalWithout ==
    ASSUME NEW S, NEW T \in SUBSET S, NEW q, \A u \in S \ T : q[u] = 0
    PROVE  Total(S, q) = Total(T, q)
  <1>1. \A u \in S \ T : {u} \X (1..q[u]) = {}
    <2>1. 1..0 = {}
      OBVIOUS
    <2> QED BY <2>1
  <1>2. UNION {{u} \X (1..q[u]) : u \in S} = UNION {{u} \X (1..q[u]) : u \in T}
    BY <1>1
  <1> QED BY <1>2 DEF Total

\* One unit's quantity changes.
LEMMA TotalChange ==
    ASSUME NEW S, NEW q, NEW r, Quantities(S, q), Quantities(S, r), NEW x \in S,
           \A u \in S \ {x} : r[u] = q[u]
    PROVE  Total(S, r) = Total(S, q) - q[x] + r[x]
  <1> DEFINE T == S \ {x}
  <1>1. Quantities(T, q) /\ Quantities(T, r) /\ x \notin T /\ S = T \cup {x}
    BY FS_RemoveElement DEF Quantities
  <1>2. q[x] \in Nat /\ r[x] \in Nat
    BY DEF Quantities
  <1>3. Total(T, r) = Total(T, q)
    BY TotalSame
  <1> HIDE DEF T
  <1>4. Total(S, q) = Total(T, q) + q[x] /\ Total(S, r) = Total(T, r) + r[x]
    BY <1>1, <1>2, TotalAdd
  <1>5. Total(T, q) \in Nat
    BY <1>1, TotalIsNat
  <1> QED BY <1>2, <1>3, <1>4, <1>5

\* A sum is at least each of its terms.
LEMMA TotalBounds ==
    ASSUME NEW S, NEW q, Quantities(S, q), NEW x \in S
    PROVE  q[x] <= Total(S, q)
  <1> DEFINE T == S \ {x}
  <1>1. Quantities(T, q) /\ x \notin T /\ S = T \cup {x} /\ q[x] \in Nat
    BY FS_RemoveElement DEF Quantities
  <1> HIDE DEF T
  <1>2. Total(S, q) = Total(T, q) + q[x] /\ Total(T, q) \in Nat
    BY <1>1, TotalAdd, TotalIsNat
  <1> QED BY <1>1, <1>2

LEMMA TotalEmpty ==
    ASSUME NEW q PROVE Total({}, q) = 0
  <1>1. UNION {{u} \X (1..q[u]) : u \in {}} = {}
    OBVIOUS
  <1> QED BY <1>1, FS_EmptySet, Zenon DEF Total

-----------------------------------------------------------------------------
(***************************************************************************)
(* The inductive invariant.                                                *)
(***************************************************************************)
Order == [u \in DOMAIN unit |-> unit[u].order]
Out == [u \in DOMAIN unit |-> unit[u].out]

\* What the units hold, what was executed for them and is not recorded yet, what is
\* at the exchange for them, and what their exits executed and nobody recorded.
Held == Total(DOMAIN unit, Remaining)
Owed == Total(DOMAIN unit, Due)
Ordered == Total(DOMAIN unit, Order)
Taken == Total(DOMAIN unit, Out)

\* Contracts that n entries can buy, and that n exits can ask for.
EntryBudget(n) == MaxSize * n
ExitBudget(n) == MaxNet * n

Waiting == {"pending_open", "open", "closing"}

\* A row after n exits and imports: only an active unit holds contracts, a unit that
\* ended is owed none, and an entry that was not executed has a unit that waits for
\* it or that failed.
RowSound(r, n) ==
    /\ r.remaining + r.due + r.order <= MaxNet
    /\ r.due + r.order <= MaxSize
    /\ r.live + r.out <= ExitBudget(n)
    /\ r.status \in {"pending_open", "failed", "closed"} => r.remaining = 0
    /\ r.status \in {"failed", "closed"} => r.due = 0
    /\ r.order > 0 => r.status \in {"pending_open", "failed"} /\ r.due = 0

Rows == unit \in Seq(UnitType) /\ \A u \in DOMAIN unit : RowSound(unit[u], acts)

Counters ==
    /\ net \in Nat /\ strangers \in Nat
    /\ opens \in 0..MaxOpen /\ acts \in 0..MaxAct /\ trades \in 0..MaxTrade

\* The copies judged are of units that still wait, and opened ones stay opened.
AccSound ==
    /\ acc \in [pc : {"idle", "fetched", "judged"}, seen : 0..MaxNet,
                rows : SUBSET (Nat \X Waiting)]
    /\ acc.pc # "judged" => acc.rows = {}
    /\ \A r \in acc.rows :
          /\ r[1] \in DOMAIN unit /\ unit[r[1]].status \in Waiting
          /\ (r[2] = "pending_open") <=> (unit[r[1]].status = "pending_open")

\* What was bought: by entries, and together with the trades from outside.
Bought ==
    /\ Ordered + Owed <= EntryBudget(opens)
    /\ net + Ordered <= EntryBudget(opens) + trades
    /\ Held + Owed + Ordered <= MaxNet + EntryBudget(opens)

\* The position and the exits not recorded are explained by the units, the fills not
\* recorded and the strangers; so is a position that was read, until it is judged.
Explained == net + Taken <= Held + Owed + strangers
SeenExplained == acc.pc = "fetched" => acc.seen <= Held + Owed + strangers

Inv == Rows /\ Counters /\ AccSound /\ Bought /\ Explained /\ SeenExplained

-----------------------------------------------------------------------------
LEMMA Budgets ==
    /\ MaxSize \in Nat /\ MaxNet \in Nat /\ MaxOrdered \in Nat
    /\ \A n \in Nat : /\ EntryBudget(n) \in Nat /\ EntryBudget(n + 1) = EntryBudget(n) + MaxSize
                      /\ ExitBudget(n) \in Nat /\ ExitBudget(n + 1) = ExitBudget(n) + MaxNet
    /\ \A n \in 0..MaxOpen : EntryBudget(n) + MaxTrade <= MaxNet
    /\ \A n \in 0..MaxAct : ExitBudget(n) <= MaxOrdered
  <1>1. MaxSize \in Nat /\ MaxOpen \in Nat /\ MaxAct \in Nat /\ MaxTrade \in Nat
    BY BoundsAssumption
  <1>2. \A a, b \in Nat : a * b \in Nat
    OBVIOUS
  <1>3. \A a, b \in Nat : a * (b + 1) = a * b + a
    OBVIOUS
  <1>4. \A a, b, c \in Nat : b <= c => a * b <= a * c
    <2> TAKE a, b, c \in Nat
    <2> HAVE b <= c
    <2>1. c - b \in Nat /\ c = b + (c - b)
      OBVIOUS
    <2>2. a * c = a * b + a * (c - b)
      BY <2>1
    <2>3. a * (c - b) \in Nat /\ a * b \in Nat /\ a * c \in Nat
      BY <2>1, <1>2
    <2> QED BY <2>2, <2>3
  <1>5. MaxNet \in Nat
    BY <1>1, <1>2 DEF MaxNet
  <1>6. MaxOrdered \in Nat
    BY <1>1, <1>2, <1>5 DEF MaxOrdered
  <1>7. ASSUME NEW n \in Nat
        PROVE  /\ EntryBudget(n) \in Nat /\ EntryBudget(n + 1) = EntryBudget(n) + MaxSize
               /\ ExitBudget(n) \in Nat /\ ExitBudget(n + 1) = ExitBudget(n) + MaxNet
    BY <1>1, <1>2, <1>3, <1>5 DEF EntryBudget, ExitBudget
  <1>8. ASSUME NEW n \in 0..MaxOpen PROVE EntryBudget(n) + MaxTrade <= MaxNet
    <2>1. MaxSize * n <= MaxSize * MaxOpen
      BY <1>1, <1>4
    <2>2. MaxSize * n \in Nat /\ MaxSize * MaxOpen \in Nat
      BY <1>1, <1>2
    <2> QED BY <1>1, <2>1, <2>2 DEF EntryBudget, MaxNet
  <1>9. ASSUME NEW n \in 0..MaxAct PROVE ExitBudget(n) <= MaxOrdered
    BY <1>1, <1>4, <1>5 DEF ExitBudget, MaxOrdered
  <1> QED BY <1>1, <1>5, <1>6, <1>7, <1>8, <1>9

\* The numbers of a row.
LEMMA RowNumbers ==
    ASSUME NEW r \in UnitType
    PROVE  /\ r.remaining \in Nat /\ r.order \in Nat /\ r.due \in Nat /\ r.live \in Nat
           /\ r.out \in Nat
  <1>1. MaxNet \in Nat /\ MaxSize \in Nat /\ MaxOrdered \in Nat
    BY Budgets
  <1>2. /\ r.remaining \in 0..MaxNet /\ r.order \in 0..MaxSize /\ r.due \in 0..MaxSize
        /\ r.live \in 0..MaxOrdered /\ r.out \in 0..MaxOrdered
    BY DEF UnitType
  <1> QED BY <1>1, <1>2

\* The sums are numbers, for any sequence of rows.
LEMMA SumsTyped ==
    ASSUME NEW s \in Seq(UnitType), NEW f \in {"remaining", "due", "order", "out"}
    PROVE  Quantities(DOMAIN s, [u \in DOMAIN s |-> s[u][f]])
  <1>1. DOMAIN s = 1..Len(s) /\ Len(s) \in Nat
    OBVIOUS
  <1>2. IsFiniteSet(DOMAIN s)
    <2>1. 1 \in Int /\ Len(s) \in Int
      BY <1>1
    <2> QED BY <1>1, <2>1, FS_Interval
  <1>3. ASSUME NEW u \in DOMAIN s PROVE s[u][f] \in Nat
    <2>1. s[u] \in UnitType
      OBVIOUS
    <2> QED BY <2>1, RowNumbers
  <1> QED BY <1>2, <1>3 DEF Quantities

LEMMA SumsAreNat ==
    ASSUME unit \in Seq(UnitType)
    PROVE  Held \in Nat /\ Owed \in Nat /\ Ordered \in Nat /\ Taken \in Nat
  <1>1. /\ Quantities(DOMAIN unit, Remaining) /\ Quantities(DOMAIN unit, Due)
        /\ Quantities(DOMAIN unit, Order) /\ Quantities(DOMAIN unit, Out)
    BY SumsTyped DEF Remaining, Due, Order, Out
  <1> QED BY <1>1, TotalIsNat DEF Held, Owed, Ordered, Taken

\* A sum over one field of the rows, when one row changes.
LEMMA FieldChange ==
    ASSUME NEW s \in Seq(UnitType), NEW u \in DOMAIN s, NEW r \in UnitType,
           NEW f \in {"remaining", "due", "order", "out"}
    PROVE  LET t == [s EXCEPT ![u] = r]
           IN  Total(DOMAIN t, [v \in DOMAIN t |-> t[v][f]])
                 = Total(DOMAIN s, [v \in DOMAIN s |-> s[v][f]]) - s[u][f] + r[f]
  <1> DEFINE t == [s EXCEPT ![u] = r]
             q == [v \in DOMAIN s |-> s[v][f]]
             p == [v \in DOMAIN t |-> t[v][f]]
  <1>1. t \in Seq(UnitType) /\ DOMAIN t = DOMAIN s
    OBVIOUS
  <1>2. Quantities(DOMAIN s, q)
    BY SumsTyped
  <1>3. Quantities(DOMAIN s, p)
    <2> HIDE DEF t
    <2> QED BY <1>1, SumsTyped
  <1>4. q[u] = s[u][f] /\ p[u] = r[f]
    OBVIOUS
  <1>5. \A v \in DOMAIN s \ {u} : p[v] = q[v]
    OBVIOUS
  <1> HIDE DEF p, q
  <1>6. Total(DOMAIN s, p) = Total(DOMAIN s, q) - q[u] + p[u]
    BY <1>2, <1>3, <1>5, TotalChange
  <1>7. Total(DOMAIN s, p) = Total(DOMAIN s, q) - s[u][f] + r[f]
    BY <1>4, <1>6
  <1> QED BY <1>1, <1>7 DEF p, q

\* A sum over one field of the rows, when a row is added.
LEMMA FieldAdd ==
    ASSUME NEW s \in Seq(UnitType), NEW r \in UnitType,
           NEW f \in {"remaining", "due", "order", "out"}
    PROVE  LET t == Append(s, r)
           IN  Total(DOMAIN t, [v \in DOMAIN t |-> t[v][f]])
                 = Total(DOMAIN s, [v \in DOMAIN s |-> s[v][f]]) + r[f]
  <1> DEFINE t == Append(s, r)
             n == Len(s) + 1
             q == [v \in DOMAIN s |-> s[v][f]]
             p == [v \in DOMAIN t |-> t[v][f]]
  <1>1. t \in Seq(UnitType) /\ DOMAIN s = 1..Len(s) /\ DOMAIN t = 1..n
        /\ Len(s) \in Nat
    OBVIOUS
  <1>2. DOMAIN t = DOMAIN s \cup {n} /\ n \notin DOMAIN s
    BY <1>1
  <1>3. Quantities(DOMAIN s, q)
    BY SumsTyped
  <1>4. p[n] = r[f] /\ \A v \in DOMAIN s : p[v] = q[v]
    BY <1>1
  <1>5. r[f] \in Nat
    BY RowNumbers
  <1> HIDE DEF p, q, t, n
  <1>6. Quantities(DOMAIN s, p)
    BY <1>3, <1>4 DEF Quantities
  <1>7. Total(DOMAIN s \cup {n}, p) = Total(DOMAIN s, p) + p[n]
    BY <1>2, <1>4, <1>5, <1>6, TotalAdd
  <1>8. Total(DOMAIN s, p) = Total(DOMAIN s, q)
    BY <1>4, TotalSame
  <1>9. Total(DOMAIN t, p) = Total(DOMAIN s, q) + r[f]
    BY <1>2, <1>4, <1>7, <1>8
  <1> QED BY <1>9 DEF p, q, t

LEMMA OneRowSums ==
    ASSUME unit \in Seq(UnitType), NEW u \in DOMAIN unit, NEW r \in UnitType,
           unit' = [unit EXCEPT ![u] = r]
    PROVE  /\ Held' = Held - unit[u].remaining + r.remaining
           /\ Owed' = Owed - unit[u].due + r.due
           /\ Ordered' = Ordered - unit[u].order + r.order
           /\ Taken' = Taken - unit[u].out + r.out
  <1>1. Held' = Held - unit[u].remaining + r.remaining
    BY FieldChange DEF Held, Remaining
  <1>2. Owed' = Owed - unit[u].due + r.due
    BY FieldChange DEF Owed, Due
  <1>3. Ordered' = Ordered - unit[u].order + r.order
    BY FieldChange DEF Ordered, Order
  <1>4. Taken' = Taken - unit[u].out + r.out
    BY FieldChange DEF Taken, Out
  <1> QED BY <1>1, <1>2, <1>3, <1>4

LEMMA AddedRowSums ==
    ASSUME unit \in Seq(UnitType), NEW r \in UnitType, unit' = Append(unit, r)
    PROVE  /\ Held' = Held + r.remaining /\ Owed' = Owed + r.due
           /\ Ordered' = Ordered + r.order /\ Taken' = Taken + r.out
  <1>1. Held' = Held + r.remaining
    BY FieldAdd DEF Held, Remaining
  <1>2. Owed' = Owed + r.due
    BY FieldAdd DEF Owed, Due
  <1>3. Ordered' = Ordered + r.order
    BY FieldAdd DEF Ordered, Order
  <1>4. Taken' = Taken + r.out
    BY FieldAdd DEF Taken, Out
  <1> QED BY <1>1, <1>2, <1>3, <1>4

\* The reconciler's sum leaves out only units that hold nothing.
LEMMA GroupIsHeld ==
    ASSUME Rows PROVE GroupRemaining = Held
  <1>1. Counted \in SUBSET DOMAIN unit
    BY DEF Counted, Listed
  <1>2. ASSUME NEW u \in DOMAIN unit \ Counted PROVE Remaining[u] = 0
    <2>1. unit[u] \in UnitType /\ RowSound(unit[u], acts)
      BY DEF Rows
    <2>2. unit[u].status \in {"pending_open", "failed", "closed"}
      BY <2>1 DEF UnitType, Counted, Listed
    <2> QED BY <2>1, <2>2 DEF RowSound, Remaining
  <1> QED BY <1>1, <1>2, TotalWithout DEF GroupRemaining, Held

\* Without an entry that is still opening, what is owed is owed to half-recorded units.
LEMMA HalfIsOwed ==
    ASSUME Rows, ~PendingKey PROVE Total(HalfRecorded, Due) = Owed
  <1>1. HalfRecorded \in SUBSET DOMAIN unit
    BY DEF HalfRecorded, Counted, Listed
  <1>2. ASSUME NEW u \in DOMAIN unit \ HalfRecorded PROVE Due[u] = 0
    <2>1. unit[u] \in UnitType /\ RowSound(unit[u], acts) /\ unit[u].due \in Nat
      BY RowNumbers DEF Rows
    <2>2. CASE u \in Listed
      <3>1. u \in Counted
        BY <2>2 DEF PendingKey
      <3>2. ~(unit[u].due > 0)
        BY <3>1 DEF HalfRecorded
      <3> QED BY <2>1, <3>2 DEF Due
    <2>3. CASE u \notin Listed
      <3>1. unit[u].status \in {"failed", "closed"}
        BY <2>1, <2>3 DEF UnitType, Listed
      <3> QED BY <2>1, <3>1 DEF RowSound, Due
    <2> QED BY <2>2, <2>3
  <1> QED BY <1>1, <1>2, TotalWithout DEF Owed

\* More on the exchange than in the units.
LEMMA GapIsPositive ==
    ASSUME Rows, NEW size \in 0..MaxNet, GroupState(size) = "under_allocated"
    PROVE  Unexplained(size) = size - Held /\ Unexplained(size) \in 1..MaxNet
           /\ Held <= size
  <1>1. GroupRemaining = Held /\ Held \in Nat /\ MaxNet \in Nat
    BY GroupIsHeld, SumsAreNat, Budgets DEF Rows
  <1>2. size > Held
    BY <1>1 DEF GroupState
  <1> QED BY <1>1, <1>2 DEF Unexplained

\* The bounds of the type invariant.
LEMMA NetBound ==
    ASSUME Inv PROVE net \in 0..MaxNet /\ Held \in 0..2 * MaxNet
  <1>1. /\ net \in Nat /\ Ordered \in Nat /\ Owed \in Nat /\ Held \in Nat
        /\ trades \in 0..MaxTrade /\ opens \in 0..MaxOpen
    BY SumsAreNat DEF Inv, Rows, Counters
  <1>2. EntryBudget(opens) \in Nat /\ EntryBudget(opens) + MaxTrade <= MaxNet
        /\ MaxNet \in Nat /\ MaxTrade \in Nat /\ opens \in Nat
    BY <1>1, Budgets, BoundsAssumption
  <1>3. /\ net + Ordered <= EntryBudget(opens) + trades
        /\ Held + Owed + Ordered <= MaxNet + EntryBudget(opens)
    BY DEF Inv, Bought
  <1> QED BY <1>1, <1>2, <1>3

-----------------------------------------------------------------------------
LEMMA InitInv == Init => Inv
  <1> SUFFICES ASSUME Init PROVE Inv
    OBVIOUS
  <1>1. unit = <<>> /\ net = 0 /\ opens = 0 /\ acts = 0 /\ trades = 0 /\ strangers = 0
        /\ acc = Idle
    BY DEF Init
  <1>2. unit \in Seq(UnitType) /\ DOMAIN unit = {}
    BY <1>1
  <1>3. Held = 0 /\ Owed = 0 /\ Ordered = 0 /\ Taken = 0
    BY <1>2, TotalEmpty DEF Held, Owed, Ordered, Taken
  <1>4. /\ EntryBudget(0) \in Nat /\ MaxNet \in Nat /\ 0 \in 0..MaxNet
        /\ 0 \in 0..MaxOpen /\ 0 \in 0..MaxAct /\ 0 \in 0..MaxTrade
    BY Budgets, BoundsAssumption
  <1>5. Rows
    BY <1>2 DEF Rows
  <1>6. Counters
    BY <1>1, <1>4 DEF Counters
  <1>7. AccSound
    BY <1>1, <1>4 DEF AccSound, Idle
  <1>8. Bought /\ Explained
    BY <1>1, <1>3, <1>4 DEF Bought, Explained
  <1>9. SeenExplained
    BY <1>1 DEF SeenExplained, Idle
  <1> QED BY <1>5, <1>6, <1>7, <1>8, <1>9 DEF Inv

\* The counter of exits may grow under a row.
LEMMA RowLater ==
    ASSUME NEW r \in UnitType, NEW n \in Nat, RowSound(r, n)
    PROVE  RowSound(r, n + 1)
  <1>1. ExitBudget(n) \in Nat /\ ExitBudget(n + 1) = ExitBudget(n) + MaxNet /\ MaxNet \in Nat
    BY Budgets
  <1>2. r.live \in Nat /\ r.out \in Nat
    BY RowNumbers
  <1>3. r.live + r.out <= ExitBudget(n + 1)
    BY <1>1, <1>2 DEF RowSound
  <1> QED BY <1>3 DEF RowSound

LEMMA RowsLater ==
    ASSUME Rows, Counters, acts' = acts \/ acts' = acts + 1, NEW u \in DOMAIN unit
    PROVE  RowSound(unit[u], acts')
  <1>1. unit[u] \in UnitType /\ RowSound(unit[u], acts) /\ acts \in Nat
    BY BoundsAssumption DEF Rows, Counters
  <1> QED BY <1>1, RowLater

\* One row changes.
LEMMA OneRow ==
    ASSUME Inv, NEW u \in DOMAIN unit, NEW r \in UnitType, RowSound(r, acts'),
           unit' = [unit EXCEPT ![u] = r], acc' = acc,
           acts' = acts \/ acts' = acts + 1,
           \/ acc.pc # "judged"
           \/ r.status = unit[u].status
           \/ unit[u].status = "open" /\ r.status = "closing"
    PROVE  Rows' /\ AccSound'
  <1>1. Rows /\ Counters /\ AccSound
    BY DEF Inv
  <1>2. unit' \in Seq(UnitType) /\ DOMAIN unit' = DOMAIN unit
    BY <1>1 DEF Rows
  <1>3. ASSUME NEW v \in DOMAIN unit' PROVE RowSound(unit'[v], acts')
    BY <1>1, <1>2, RowsLater DEF Rows
  <1>4. ASSUME NEW x \in acc.rows
        PROVE  /\ x[1] \in DOMAIN unit' /\ unit'[x[1]].status \in Waiting
               /\ (x[2] = "pending_open") <=> (unit'[x[1]].status = "pending_open")
    <2>1. /\ x[1] \in DOMAIN unit /\ unit[x[1]].status \in Waiting
          /\ (x[2] = "pending_open") <=> (unit[x[1]].status = "pending_open")
          /\ acc.pc = "judged"
      BY <1>1, <1>4 DEF AccSound
    <2>2. CASE x[1] # u
      BY <1>2, <2>1, <2>2 DEF Rows
    <2>3. CASE x[1] = u
      <3>1. unit'[x[1]] = r
        BY <1>1, <2>3 DEF Rows
      <3>2. r.status = unit[u].status \/ (unit[u].status = "open" /\ r.status = "closing")
        BY <2>1
      <3> QED BY <1>2, <2>1, <2>3, <3>1, <3>2 DEF Waiting
    <2> QED BY <2>2, <2>3
  <1>5. AccSound'
    <2>1. acc \in [pc : {"idle", "fetched", "judged"}, seen : 0..MaxNet,
                   rows : SUBSET (Nat \X Waiting)]
          /\ (acc.pc # "judged" => acc.rows = {})
      BY <1>1 DEF AccSound
    <2> QED BY <1>4, <2>1 DEF AccSound
  <1> QED BY <1>2, <1>3, <1>5 DEF Rows

\* A row is added.
LEMMA AddedRow ==
    ASSUME Inv, NEW r \in UnitType, RowSound(r, acts'), unit' = Append(unit, r),
           acc' = acc \/ acc' = Idle, acc.pc # "judged",
           acts' = acts \/ acts' = acts + 1
    PROVE  Rows' /\ AccSound'
  <1>1. Rows /\ Counters /\ AccSound
    BY DEF Inv
  <1>2. unit \in Seq(UnitType)
    BY <1>1 DEF Rows
  <1>3. unit' \in Seq(UnitType) /\ DOMAIN unit' = 1..Len(unit) + 1
        /\ unit'[Len(unit) + 1] = r /\ \A v \in DOMAIN unit : unit'[v] = unit[v]
        /\ DOMAIN unit = 1..Len(unit) /\ Len(unit) \in Nat
    BY <1>2
  <1>4. ASSUME NEW v \in DOMAIN unit' PROVE RowSound(unit'[v], acts')
    <2>1. CASE v = Len(unit) + 1
      BY <1>3, <2>1
    <2>2. CASE v # Len(unit) + 1
      <3>1. v \in DOMAIN unit
        BY <1>3, <2>2
      <3> QED BY <1>1, <1>3, <3>1, RowsLater
    <2> QED BY <2>1, <2>2
  <1>5. acc.rows = {}
    BY <1>1 DEF AccSound
  <1>6. AccSound'
    <2>1. CASE acc' = acc
      BY <1>1, <1>5, <2>1 DEF AccSound
    <2>2. CASE acc' = Idle
      <3>1. 0 \in 0..MaxNet
        BY Budgets
      <3> QED BY <2>2, <3>1 DEF AccSound, Idle
    <2> QED BY <2>1, <2>2
  <1> QED BY <1>3, <1>4, <1>6 DEF Rows

\* The position and the rows are as before: a step of counters.
LEMMA SumsStay ==
    ASSUME unit' = unit
    PROVE  Held' = Held /\ Owed' = Owed /\ Ordered' = Ordered /\ Taken' = Taken
  BY DEF Held, Owed, Ordered, Taken, Remaining, Due, Order, Out

\* The numbers of a state that satisfies the invariant.
LEMMA InvNumbers ==
    ASSUME Inv
    PROVE  /\ Held \in Nat /\ Owed \in Nat /\ Ordered \in Nat /\ Taken \in Nat
           /\ net \in Nat /\ strangers \in Nat /\ opens \in Nat /\ acts \in Nat
           /\ trades \in Nat /\ acc.seen \in 0..MaxNet /\ acc.seen \in Nat
           /\ EntryBudget(opens) \in Nat /\ MaxNet \in Nat /\ MaxSize \in Nat
           /\ Ordered + Owed <= EntryBudget(opens)
           /\ net + Ordered <= EntryBudget(opens) + trades
           /\ Held + Owed + Ordered <= MaxNet + EntryBudget(opens)
           /\ net + Taken <= Held + Owed + strangers
  <1>1. Held \in Nat /\ Owed \in Nat /\ Ordered \in Nat /\ Taken \in Nat
    BY SumsAreNat DEF Inv, Rows
  <1>2. /\ net \in Nat /\ strangers \in Nat /\ opens \in Nat /\ acts \in Nat
        /\ trades \in Nat
    BY BoundsAssumption DEF Inv, Counters
  <1>3. acc.seen \in 0..MaxNet
    BY DEF Inv, AccSound
  <1>4. EntryBudget(opens) \in Nat /\ MaxNet \in Nat /\ MaxSize \in Nat
    BY <1>2, Budgets
  <1>5. acc.seen \in Nat
    BY <1>3, <1>4
  <1> QED BY <1>1, <1>2, <1>3, <1>4, <1>5 DEF Inv, Bought, Explained

-----------------------------------------------------------------------------
\* Trades from outside: a purchase is a stranger's, a sale lowers the position.
LEMMA TradeStep ==
    ASSUME Inv, TradeOutside PROVE Inv'
  <1>1. UNCHANGED <<unit, acc, opens, acts>> /\ trades' = trades + 1 /\ trades < MaxTrade
        /\ \/ net' = net + 1 /\ strangers' = strangers + 1
           \/ net > 0 /\ net' = net - 1 /\ strangers' = strangers
    BY DEF TradeOutside
  <1>2. Held' = Held /\ Owed' = Owed /\ Ordered' = Ordered /\ Taken' = Taken
    BY <1>1, SumsStay
  <1>3. Rows'
    BY <1>1 DEF Inv, Rows
  <1>4. AccSound'
    BY <1>1 DEF Inv, AccSound
  <1>5. Counters'
    BY <1>1, InvNumbers, BoundsAssumption DEF Inv, Counters
  <1>6. Bought'
    BY <1>1, <1>2, InvNumbers DEF Bought
  <1>7. Explained' /\ SeenExplained'
    BY <1>1, <1>2, InvNumbers DEF Explained, SeenExplained, Inv
  <1> QED BY <1>3, <1>4, <1>5, <1>6, <1>7 DEF Inv

\* An entry executes: for its unit, or for nobody when the unit failed.
LEMMA ExecuteEntryStep ==
    ASSUME Inv, NEW u \in DOMAIN unit, ExecuteEntry(u) PROVE Inv'
  <1> DEFINE x == unit[u]
             r == IF x.status = "failed" THEN [x EXCEPT !.order = 0]
                  ELSE [x EXCEPT !.order = 0, !.due = x.order]
  <1>1. x \in UnitType /\ RowSound(x, acts) /\ unit \in Seq(UnitType)
    BY DEF Inv, Rows
  <1>2. /\ x.order > 0 /\ net' = net + x.order /\ UNCHANGED <<acc, opens, acts, trades>>
        /\ strangers' = IF x.status = "failed" THEN strangers + x.order ELSE strangers
    BY DEF ExecuteEntry
  <1>3. unit' = [unit EXCEPT ![u] = r]
    BY <1>1 DEF ExecuteEntry, UnitType
  <1>4. /\ x.remaining \in Nat /\ x.order \in Nat /\ x.due \in Nat /\ x.live \in Nat
        /\ x.out \in Nat /\ x.order \in 0..MaxSize /\ MaxSize \in Nat /\ MaxNet \in Nat
    BY <1>1, RowNumbers, Budgets DEF UnitType
  <1>5. r \in UnitType
    <2>1. 0 \in 0..MaxSize
      BY <1>4
    <2> QED BY <1>1, <1>4, <2>1 DEF UnitType
  <1>6. /\ r.remaining = x.remaining /\ r.order = 0 /\ r.live = x.live /\ r.out = x.out
        /\ r.status = x.status
        /\ r.due = IF x.status = "failed" THEN x.due ELSE x.order
    BY <1>1 DEF UnitType
  <1>7. x.due = 0 /\ x.status \in {"pending_open", "failed"}
    BY <1>1, <1>2 DEF RowSound
  <1> HIDE DEF r, x
  <1>8. RowSound(r, acts')
    <2>1. /\ x.remaining = 0 /\ x.order <= MaxNet /\ x.order <= MaxSize
          /\ x.live + x.out <= ExitBudget(acts)
      BY <1>1, <1>4, <1>7 DEF RowSound
    <2>2. r.due = 0 \/ (r.due = x.order /\ x.status = "pending_open")
      BY <1>6, <1>7
    <2>3. acts' = acts
      BY <1>2
    <2> QED BY <1>4, <1>6, <1>7, <2>1, <2>2, <2>3 DEF RowSound
  <1>9. Rows' /\ AccSound'
    BY <1>2, <1>3, <1>5, <1>6, <1>8, OneRow DEF x
  <1>10. /\ Held' = Held - x.remaining + r.remaining /\ Owed' = Owed - x.due + r.due
         /\ Ordered' = Ordered - x.order + r.order /\ Taken' = Taken - x.out + r.out
    BY <1>1, <1>3, <1>5, OneRowSums DEF x
  <1>11. Held' = Held /\ Taken' = Taken /\ Ordered' = Ordered - x.order
         /\ Owed' = (IF x.status = "failed" THEN Owed ELSE Owed + x.order)
    BY <1>4, <1>6, <1>7, <1>10, InvNumbers
  <1>12. Counters'
    BY <1>2, <1>4, InvNumbers DEF Inv, Counters
  <1>13. Bought'
    BY <1>2, <1>4, <1>11, InvNumbers DEF Bought
  <1>14. Explained' /\ SeenExplained'
    BY <1>2, <1>4, <1>11, InvNumbers DEF Explained, SeenExplained, Inv
  <1> QED BY <1>9, <1>12, <1>13, <1>14 DEF Inv

LEMMA MinOfTwo ==
    ASSUME NEW a \in Nat, NEW b \in Nat
    PROVE  Min({a, b}) \in Nat /\ Min({a, b}) <= a /\ Min({a, b}) <= b
  <1>1. \E m \in {a, b} : \A y \in {a, b} : m <= y
    OBVIOUS
  <1>2. Min({a, b}) \in {a, b} /\ \A y \in {a, b} : Min({a, b}) <= y
    BY <1>1 DEF Min
  <1> QED BY <1>2

\* An exit executes, as far as there is a position.
LEMMA ExecuteExitStep ==
    ASSUME Inv, NEW u \in DOMAIN unit, ExecuteExit(u) PROVE Inv'
  <1> DEFINE x == unit[u]
             q == Min({x.live, net})
             r == [x EXCEPT !.live = 0, !.out = @ + q]
  <1>1. x \in UnitType /\ RowSound(x, acts) /\ unit \in Seq(UnitType)
    BY DEF Inv, Rows
  <1>2. net' = net - q /\ UNCHANGED <<acc, opens, acts, trades, strangers>>
    BY DEF ExecuteExit
  <1>3. unit' = [unit EXCEPT ![u] = r]
    BY <1>1 DEF ExecuteExit, UnitType
  <1>4. /\ x.live \in Nat /\ x.out \in Nat /\ x.live + x.out <= ExitBudget(acts)
        /\ x.remaining \in Nat /\ x.order \in Nat /\ x.due \in Nat
    BY <1>1, RowNumbers DEF RowSound
  <1>5. q \in Nat /\ q <= x.live /\ q <= net
    BY <1>4, InvNumbers, MinOfTwo
  <1>6. ExitBudget(acts) <= MaxOrdered /\ ExitBudget(acts) \in Nat /\ MaxOrdered \in Nat
    BY InvNumbers, Budgets DEF Inv, Counters
  <1> HIDE DEF q
  <1>7. x.out + q \in 0..MaxOrdered /\ 0 \in 0..MaxOrdered
    BY <1>4, <1>5, <1>6
  <1>8. r \in UnitType
    BY <1>1, <1>7 DEF UnitType
  <1>9. /\ r.remaining = x.remaining /\ r.order = x.order /\ r.due = x.due /\ r.live = 0
        /\ r.out = x.out + q /\ r.status = x.status
    BY <1>1 DEF UnitType
  <1> HIDE DEF r, x
  <1>10. RowSound(r, acts')
    BY <1>1, <1>2, <1>4, <1>5, <1>6, <1>9 DEF RowSound
  <1>11. Rows' /\ AccSound'
    BY <1>2, <1>3, <1>8, <1>9, <1>10, OneRow DEF x
  <1>12. /\ Held' = Held - x.remaining + r.remaining /\ Owed' = Owed - x.due + r.due
         /\ Ordered' = Ordered - x.order + r.order /\ Taken' = Taken - x.out + r.out
    BY <1>1, <1>3, <1>8, OneRowSums DEF x
  <1>13. Held' = Held /\ Owed' = Owed /\ Ordered' = Ordered /\ Taken' = Taken + q
    BY <1>4, <1>5, <1>9, <1>12, InvNumbers
  <1>14. Counters'
    BY <1>2, <1>5, InvNumbers DEF Inv, Counters
  <1>15. Bought'
    BY <1>2, <1>5, <1>13, InvNumbers DEF Bought
  <1>16. Explained' /\ SeenExplained'
    BY <1>2, <1>5, <1>13, InvNumbers DEF Explained, SeenExplained, Inv
  <1> QED BY <1>11, <1>14, <1>15, <1>16 DEF Inv

-----------------------------------------------------------------------------
\* A new row: an entry, an import or a recovery.
LEMMA NewRowTypes ==
    /\ NewUnit \in UnitType
    /\ \A q \in 1..MaxSize : [NewUnit EXCEPT !.order = q] \in UnitType
    /\ \A src \in {"import", "recovery"}, q \in 1..MaxNet : Foreign(src, q) \in UnitType
  <1>1. 0 \in 0..MaxNet /\ 0 \in 0..MaxSize /\ 0 \in 0..MaxOrdered
    BY Budgets
  <1>2. NewUnit \in UnitType
    BY <1>1 DEF NewUnit, UnitType, Signature
  <1>3. ASSUME NEW q \in 1..MaxSize PROVE [NewUnit EXCEPT !.order = q] \in UnitType
    <2>1. q \in 0..MaxSize
      BY Budgets
    <2> QED BY <1>2, <2>1 DEF UnitType
  <1>4. ASSUME NEW src \in {"import", "recovery"}, NEW q \in 1..MaxNet
        PROVE  Foreign(src, q) \in UnitType
    <2>1. q \in 0..MaxNet
      BY Budgets
    <2> QED BY <1>2, <2>1 DEF UnitType, Foreign
  <1> QED BY <1>2, <1>3, <1>4

\* approve_entry and the unit of a new entry.
LEMMA OpenStep ==
    ASSUME Inv, OpenUnit PROVE Inv'
  <1>p. PICK q \in 1..MaxSize : unit' = Append(unit, [NewUnit EXCEPT !.order = q])
    BY DEF OpenUnit
  <1> DEFINE r == [NewUnit EXCEPT !.order = q]
  <1>1. /\ UNCHANGED <<net, acc, acts, trades, strangers>> /\ opens' = opens + 1
        /\ opens < MaxOpen /\ acc.pc # "judged"
    BY DEF OpenUnit, LockFree
  <1>2. r \in UnitType /\ unit \in Seq(UnitType) /\ unit' = Append(unit, r)
    BY <1>p, NewRowTypes DEF Inv, Rows
  <1>3. /\ r.remaining = 0 /\ r.order = q /\ r.due = 0 /\ r.live = 0 /\ r.out = 0
        /\ r.status = "pending_open"
    BY DEF NewUnit
  <1> HIDE DEF r
  <1>4. /\ q \in Nat /\ q <= MaxSize /\ EntryBudget(opens + 1) = EntryBudget(opens) + MaxSize
        /\ EntryBudget(opens) + MaxTrade <= MaxNet
    BY Budgets, InvNumbers DEF Inv, Counters
  <1>5. opens + 1 \in 0..MaxOpen /\ opens + 1 \in Nat /\ MaxTrade \in Nat
    BY <1>1, InvNumbers, BoundsAssumption
  <1>6. EntryBudget(opens + 1) + MaxTrade <= MaxNet
    BY <1>5, Budgets
  <1>7. q <= MaxNet
    BY <1>4, <1>5, <1>6, InvNumbers
  <1>8. ExitBudget(acts) \in Nat
    BY InvNumbers, Budgets
  <1>9. RowSound(r, acts')
    BY <1>1, <1>3, <1>4, <1>7, <1>8, InvNumbers DEF RowSound
  <1>10. Rows' /\ AccSound'
    BY <1>1, <1>2, <1>9, AddedRow
  <1>11. Held' = Held /\ Owed' = Owed /\ Ordered' = Ordered + q /\ Taken' = Taken
    <2>1. /\ Held' = Held + r.remaining /\ Owed' = Owed + r.due
          /\ Ordered' = Ordered + r.order /\ Taken' = Taken + r.out
      BY <1>2, AddedRowSums
    <2> QED BY <1>3, <2>1, InvNumbers
  <1>12. Counters'
    BY <1>1, <1>5 DEF Inv, Counters
  <1>13. Bought'
    BY <1>1, <1>4, <1>11, InvNumbers DEF Bought
  <1>14. Explained' /\ SeenExplained'
    BY <1>1, <1>11, InvNumbers DEF Explained, SeenExplained, Inv
  <1> QED BY <1>10, <1>12, <1>13, <1>14 DEF Inv

\* A unit for a gap: what it holds after the step is at most the position judged.
LEMMA ForeignAdded ==
    ASSUME Inv, NEW size \in 0..MaxNet, GroupState(size) = "under_allocated",
           NEW r \in UnitType, r.remaining = Unexplained(size), r.status = "open",
           r.order = 0, r.due = 0, r.live = 0, r.out = 0,
           unit' = Append(unit, r), acc' = acc \/ acc' = Idle, acc.pc # "judged",
           acts' = acts \/ acts' = acts + 1, acts' \in Nat,
           UNCHANGED <<net, opens, trades>>
    PROVE  /\ Rows' /\ AccSound' /\ Bought'
           /\ Held' = size /\ Owed' = Owed /\ Ordered' = Ordered /\ Taken' = Taken
           /\ Held <= size
  <1>1. /\ Unexplained(size) = size - Held /\ Unexplained(size) \in 1..MaxNet
        /\ Held <= size /\ size \in Nat
    BY GapIsPositive, InvNumbers DEF Inv
  <1>2. ExitBudget(acts') \in Nat
    BY Budgets
  <1>3. RowSound(r, acts')
    BY <1>1, <1>2, InvNumbers DEF RowSound
  <1>4. Rows' /\ AccSound'
    BY <1>3, AddedRow
  <1>5. /\ Held' = Held + r.remaining /\ Owed' = Owed + r.due
        /\ Ordered' = Ordered + r.order /\ Taken' = Taken + r.out
    BY AddedRowSums DEF Inv, Rows
  <1>6. Held' = size /\ Owed' = Owed /\ Ordered' = Ordered /\ Taken' = Taken
    BY <1>1, <1>5, InvNumbers
  <1>7. Bought'
    <2>1. Ordered' + Owed' <= EntryBudget(opens')
      BY <1>6, InvNumbers
    <2>2. net' + Ordered' <= EntryBudget(opens') + trades'
      BY <1>6, InvNumbers
    <2>3. size <= MaxNet /\ Ordered + Owed <= EntryBudget(opens) /\ EntryBudget(opens) \in Nat
          /\ MaxNet \in Nat /\ Ordered \in Nat /\ Owed \in Nat /\ size \in Nat
      BY <1>1, InvNumbers
    <2>4. size + Owed + Ordered <= MaxNet + EntryBudget(opens)
      BY ONLY <2>3
    <2>5. Held' + Owed' + Ordered' <= MaxNet + EntryBudget(opens')
      BY <1>6, <2>4
    <2> QED BY <2>1, <2>2, <2>5 DEF Bought
  <1> QED BY <1>1, <1>4, <1>6, <1>7

LEMMA ImportStep ==
    ASSUME Inv, ImportUnexplained PROVE Inv'
  <1>p. PICK proven \in BOOLEAN :
        unit' = Append(unit, [Foreign("import", Unexplained(net)) EXCEPT !.verified = proven])
    BY DEF ImportUnexplained
  <1> DEFINE r == [Foreign("import", Unexplained(net)) EXCEPT !.verified = proven]
  <1>1. /\ UNCHANGED <<net, acc, opens, trades, strangers>> /\ acts' = acts + 1
        /\ acts < MaxAct /\ acc.pc # "judged" /\ GroupState(net) = "under_allocated"
    BY DEF ImportUnexplained, LockFree
  <1>2. net \in 0..MaxNet
    BY NetBound
  <1>3. Unexplained(net) \in 1..MaxNet
    BY <1>1, <1>2, GapIsPositive DEF Inv
  <1>4. r \in UnitType
    BY <1>3, NewRowTypes DEF UnitType
  <1>5. /\ r.remaining = Unexplained(net) /\ r.status = "open" /\ r.order = 0 /\ r.due = 0
        /\ r.live = 0 /\ r.out = 0
    BY DEF Foreign, NewUnit
  <1>6. acts' \in Nat /\ acts' \in 0..MaxAct
    BY <1>1, InvNumbers, BoundsAssumption
  <1> HIDE DEF r
  <1>7. /\ Rows' /\ AccSound' /\ Bought'
        /\ Held' = net /\ Owed' = Owed /\ Ordered' = Ordered /\ Taken' = Taken
        /\ Held <= net
    BY <1>p, <1>1, <1>2, <1>4, <1>5, <1>6, ForeignAdded DEF r
  <1>8. Counters'
    BY <1>1, <1>6 DEF Inv, Counters
  <1>9. Explained'
    BY <1>1, <1>7, InvNumbers DEF Explained
  <1>10. SeenExplained'
    BY <1>1, <1>7, InvNumbers DEF SeenExplained, Inv
  <1> QED BY <1>7, <1>8, <1>9, <1>10 DEF Inv

\* A step on one row that leaves its quantities but for the exit orders.
LEMMA StatusStep ==
    ASSUME Inv, NEW u \in DOMAIN unit, NEW r \in UnitType, RowSound(r, acts'),
           unit' = [unit EXCEPT ![u] = r], acc' = acc,
           acts' = acts \/ acts' = acts + 1, acts' \in 0..MaxAct,
           \/ acc.pc # "judged"
           \/ r.status = unit[u].status
           \/ unit[u].status = "open" /\ r.status = "closing",
           r.remaining = unit[u].remaining, r.due = unit[u].due, r.out = unit[u].out,
           r.order <= unit[u].order,
           UNCHANGED <<net, opens, trades, strangers>>
    PROVE  Inv'
  <1>1. Rows' /\ AccSound'
    BY OneRow
  <1>2. unit[u] \in UnitType /\ unit \in Seq(UnitType)
    BY DEF Inv, Rows
  <1>3. /\ unit[u].remaining \in Nat /\ unit[u].due \in Nat /\ unit[u].out \in Nat
        /\ unit[u].order \in Nat /\ r.order \in Nat
    BY <1>2, RowNumbers
  <1>4. /\ Held' = Held - unit[u].remaining + r.remaining
        /\ Owed' = Owed - unit[u].due + r.due
        /\ Ordered' = Ordered - unit[u].order + r.order
        /\ Taken' = Taken - unit[u].out + r.out
    BY <1>2, OneRowSums
  <1>5. Held' = Held /\ Owed' = Owed /\ Ordered' <= Ordered /\ Taken' = Taken
        /\ Ordered' \in Int
    BY <1>3, <1>4, InvNumbers
  <1>6. Counters'
    BY DEF Inv, Counters
  <1>7. Bought'
    BY <1>5, InvNumbers DEF Bought
  <1>8. Explained' /\ SeenExplained'
    BY <1>5 DEF Explained, SeenExplained, Inv
  <1> QED BY <1>1, <1>6, <1>7, <1>8 DEF Inv

\* What is known of one row, and its numbers.
RowNats(x) ==
    /\ x.remaining \in Nat /\ x.order \in Nat /\ x.due \in Nat /\ x.live \in Nat
    /\ x.out \in Nat /\ acts \in Nat /\ MaxNet \in Nat /\ MaxSize \in Nat

RowFacts(x) ==
    /\ x \in UnitType /\ RowSound(x, acts) /\ unit \in Seq(UnitType)
    /\ x.order \in 0..MaxSize /\ x.remaining \in 0..MaxNet /\ acts \in 0..MaxAct
    /\ RowNats(x)

LEMMA TheRow ==
    ASSUME Inv, NEW u \in DOMAIN unit PROVE RowFacts(unit[u]) /\ RowNats(unit[u])
  <1>1. unit[u] \in UnitType /\ RowSound(unit[u], acts) /\ unit \in Seq(UnitType)
    BY DEF Inv, Rows
  <1>2. /\ unit[u].remaining \in Nat /\ unit[u].order \in Nat /\ unit[u].due \in Nat
        /\ unit[u].live \in Nat /\ unit[u].out \in Nat
    BY <1>1, RowNumbers
  <1>3. unit[u].order \in 0..MaxSize /\ unit[u].remaining \in 0..MaxNet
    BY <1>1 DEF UnitType
  <1>4. acts \in 0..MaxAct /\ acts \in Nat /\ MaxNet \in Nat /\ MaxSize \in Nat
    BY InvNumbers DEF Inv, Counters
  <1> QED BY <1>1, <1>2, <1>3, <1>4 DEF RowFacts, RowNats

LEMMA FailStep ==
    ASSUME Inv, NEW u \in DOMAIN unit, FailEntry(u) PROVE Inv'
  <1> DEFINE x == unit[u]
  <1>p. PICK left \in {0, x.order} :
        unit' = [unit EXCEPT ![u].status = "failed", ![u].order = left]
    BY DEF FailEntry
  <1> DEFINE r == [x EXCEPT !.status = "failed", !.order = left]
  <1>1. /\ UNCHANGED <<net, acc, opens, acts, trades, strangers>> /\ acc.pc # "judged"
        /\ x.status = "pending_open" /\ x.order > 0
    BY DEF FailEntry, LockFree
  <1>t. RowFacts(x)
    BY TheRow
  <1>n. RowNats(x)
    BY TheRow
  <1>2. unit' = [unit EXCEPT ![u] = r]
    BY <1>p, <1>t DEF RowFacts, UnitType
  <1> HIDE DEF x
  <1>3. left \in 0..MaxSize /\ left <= x.order /\ left \in Nat
    BY <1>t, <1>n DEF RowFacts, RowNats
  <1>4. r \in UnitType
    BY <1>3, <1>t DEF RowFacts, UnitType
  <1>5. /\ r.remaining = x.remaining /\ r.due = x.due /\ r.out = x.out /\ r.live = x.live
        /\ r.order = left /\ r.status = "failed"
    BY <1>t DEF RowFacts, UnitType
  <1>6. /\ x.due = 0 /\ x.remaining = 0 /\ x.remaining + x.due + x.order <= MaxNet
        /\ x.due + x.order <= MaxSize /\ x.live + x.out <= ExitBudget(acts)
    BY <1>1, <1>t, <1>n DEF RowFacts, RowNats, RowSound
  <1> HIDE DEF r
  <1>7. RowSound(r, acts')
    BY <1>1, <1>3, <1>5, <1>6, <1>t, <1>n DEF RowFacts, RowNats, RowSound
  <1>8. acts' = acts /\ acts' \in 0..MaxAct /\ acc' = acc
    BY <1>1, <1>t DEF RowFacts
  <1> QED BY <1>1, <1>2, <1>3, <1>4, <1>5, <1>7, <1>8, StatusStep DEF x

LEMMA CloseStep ==
    ASSUME Inv, NEW u \in DOMAIN unit, CloseUnit(u) PROVE Inv'
  <1> DEFINE x == unit[u]
             r == [x EXCEPT !.status = "closing", !.live = @ + x.remaining]
  <1>1. /\ UNCHANGED <<net, acc, opens, trades, strangers>> /\ acts' = acts + 1
        /\ acts < MaxAct /\ x.status = "open"
    BY DEF CloseUnit
  <1>t. RowFacts(x)
    BY TheRow
  <1>n. RowNats(x)
    BY TheRow
  <1>2. unit' = [unit EXCEPT ![u] = r]
    BY <1>t DEF CloseUnit, RowFacts, UnitType
  <1> HIDE DEF x
  <1>3. acts' \in 0..MaxAct /\ acts + 1 \in 0..MaxAct
    BY <1>1, <1>t, BoundsAssumption DEF RowFacts
  <1>4. /\ x.remaining + x.due + x.order <= MaxNet /\ x.live + x.out <= ExitBudget(acts)
        /\ x.due + x.order <= MaxSize /\ ~(x.order > 0)
    BY <1>1, <1>t, <1>n DEF RowFacts, RowNats, RowSound
  <1>5. /\ ExitBudget(acts + 1) = ExitBudget(acts) + MaxNet /\ ExitBudget(acts) \in Nat
        /\ ExitBudget(acts + 1) <= MaxOrdered /\ MaxOrdered \in Nat /\ MaxNet \in Nat
    BY <1>3, <1>n, Budgets DEF RowNats
  <1>6. x.live + x.remaining + x.out <= ExitBudget(acts + 1)
    BY <1>4, <1>5, <1>n DEF RowNats
  <1>7. x.live + x.remaining \in 0..MaxOrdered
    BY <1>5, <1>6, <1>n DEF RowNats
  <1>8. r \in UnitType
    BY <1>7, <1>t DEF RowFacts, UnitType
  <1>9. /\ r.remaining = x.remaining /\ r.due = x.due /\ r.out = x.out
        /\ r.live = x.live + x.remaining /\ r.order = x.order /\ r.status = "closing"
    BY <1>t DEF RowFacts, UnitType
  <1> HIDE DEF r
  <1>10. RowSound(r, acts')
    BY <1>1, <1>4, <1>6, <1>9 DEF RowSound
  <1>11. r.order <= x.order
    BY <1>9, <1>n DEF RowNats
  <1> QED BY <1>1, <1>2, <1>3, <1>8, <1>9, <1>10, <1>11, StatusStep DEF x

LEMMA ReopenStep ==
    ASSUME Inv, NEW u \in DOMAIN unit, ReopenUnit(u) PROVE Inv'
  <1> DEFINE x == unit[u]
             r == [x EXCEPT !.status = "open"]
  <1>1. /\ UNCHANGED <<net, acc, opens, acts, trades, strangers>> /\ acc.pc # "judged"
        /\ x.status = "closing"
    BY DEF ReopenUnit
  <1>t. RowFacts(x)
    BY TheRow
  <1>n. RowNats(x)
    BY TheRow
  <1>2. unit' = [unit EXCEPT ![u] = r]
    BY <1>t DEF ReopenUnit, RowFacts, UnitType
  <1> HIDE DEF x
  <1>3. r \in UnitType
    BY <1>t DEF RowFacts, UnitType
  <1>4. /\ r.remaining = x.remaining /\ r.due = x.due /\ r.out = x.out
        /\ r.live = x.live /\ r.order = x.order /\ r.status = "open"
    BY <1>t DEF RowFacts, UnitType
  <1> HIDE DEF r
  <1>5. RowSound(r, acts')
    BY <1>1, <1>4, <1>t, <1>n DEF RowFacts, RowNats, RowSound
  <1>6. r.order <= x.order /\ acts' = acts /\ acts' \in 0..MaxAct /\ acc' = acc
    BY <1>1, <1>4, <1>t, <1>n DEF RowFacts, RowNats
  <1> QED BY <1>1, <1>2, <1>3, <1>4, <1>5, <1>6, StatusStep DEF x

LEMMA AdoptStep ==
    ASSUME Inv, NEW u \in DOMAIN unit, AdoptRecoveredPosition(u) PROVE Inv'
  <1> DEFINE x == unit[u]
             r == [x EXCEPT !.verified = TRUE]
  <1>1. UNCHANGED <<net, acc, opens, acts, trades, strangers>>
    BY DEF AdoptRecoveredPosition
  <1>t. RowFacts(x)
    BY TheRow
  <1>n. RowNats(x)
    BY TheRow
  <1>2. unit' = [unit EXCEPT ![u] = r]
    BY <1>t DEF AdoptRecoveredPosition, RowFacts, UnitType
  <1> HIDE DEF x
  <1>3. r \in UnitType
    BY <1>t DEF RowFacts, UnitType
  <1>4. /\ r.remaining = x.remaining /\ r.due = x.due /\ r.out = x.out
        /\ r.live = x.live /\ r.order = x.order /\ r.status = x.status
    BY <1>t DEF RowFacts, UnitType
  <1> HIDE DEF r
  <1>5. RowSound(r, acts')
    BY <1>1, <1>4, <1>t, <1>n DEF RowFacts, RowNats, RowSound
  <1>6. r.order <= x.order /\ acts' = acts /\ acts' \in 0..MaxAct /\ acc' = acc
    BY <1>1, <1>4, <1>t, <1>n DEF RowFacts, RowNats
  <1> QED BY <1>1, <1>2, <1>3, <1>4, <1>5, <1>6, StatusStep DEF x

-----------------------------------------------------------------------------
\* A fill of an entry moves contracts from owed to held.
LEMMA RecordEntryStep ==
    ASSUME Inv, NEW u \in DOMAIN unit, RecordEntryFill(u) PROVE Inv'
  <1> DEFINE x == unit[u]
  <1>p. PICK q \in 1..x.due :
        unit' = [unit EXCEPT ![u].due = @ - q, ![u].remaining = @ + q,
                             ![u].status = IF @ = "pending_open" THEN "open" ELSE @]
    BY DEF RecordEntryFill
  <1> DEFINE r == [x EXCEPT !.due = @ - q, !.remaining = @ + q,
                            !.status = IF @ = "pending_open" THEN "open" ELSE @]
  <1>1. UNCHANGED <<net, acc, opens, acts, trades, strangers>> /\ acc.pc = "idle"
    BY DEF RecordEntryFill
  <1>t. RowFacts(x)
    BY TheRow
  <1>n. RowNats(x)
    BY TheRow
  <1>2. unit' = [unit EXCEPT ![u] = r]
    BY <1>p, <1>t DEF RowFacts, UnitType
  <1> HIDE DEF x
  <1>3. q \in Nat /\ q >= 1 /\ q <= x.due
    BY <1>n DEF RowNats
  <1>4. /\ x.remaining + x.due + x.order <= MaxNet /\ x.live + x.out <= ExitBudget(acts)
        /\ x.due + x.order <= MaxSize
        /\ x.status \notin {"failed", "closed"} /\ ~(x.order > 0)
    BY <1>3, <1>t, <1>n DEF RowFacts, RowNats, RowSound
  <1>5. x.due - q \in 0..MaxSize /\ x.remaining + q \in 0..MaxNet
    BY <1>3, <1>4, <1>n DEF RowNats
  <1>6. r \in UnitType
    BY <1>5, <1>t DEF RowFacts, UnitType
  <1>7. /\ r.remaining = x.remaining + q /\ r.due = x.due - q /\ r.out = x.out
        /\ r.live = x.live /\ r.order = x.order
        /\ r.status = IF x.status = "pending_open" THEN "open" ELSE x.status
    BY <1>t DEF RowFacts, UnitType
  <1>8. r.status \in {"open", "closing"}
    BY <1>4, <1>7, <1>t DEF RowFacts, UnitType
  <1> HIDE DEF r
  <1>9. RowSound(r, acts')
    <2>1. /\ r.remaining + r.due + r.order <= MaxNet /\ r.due + r.order <= MaxSize
          /\ r.live + r.out <= ExitBudget(acts') /\ ~(r.order > 0)
      BY <1>1, <1>3, <1>4, <1>7, <1>n DEF RowNats
    <2> QED BY <1>8, <2>1 DEF RowSound
  <1>10. Rows' /\ AccSound'
    BY <1>1, <1>2, <1>6, <1>9, OneRow
  <1>11. /\ Held' = Held - x.remaining + r.remaining /\ Owed' = Owed - x.due + r.due
         /\ Ordered' = Ordered - x.order + r.order /\ Taken' = Taken - x.out + r.out
    BY <1>2, <1>6, <1>t, OneRowSums DEF RowFacts, x
  <1>12. Held' = Held + q /\ Owed' = Owed - q /\ Ordered' = Ordered /\ Taken' = Taken
    BY <1>3, <1>7, <1>11, <1>n, InvNumbers DEF RowNats
  <1>13. Counters'
    BY <1>1 DEF Inv, Counters
  <1>14. Bought'
    BY <1>1, <1>3, <1>12, InvNumbers DEF Bought
  <1>15. Explained' /\ SeenExplained'
    BY <1>1, <1>3, <1>12, InvNumbers DEF Explained, SeenExplained
  <1> QED BY <1>10, <1>13, <1>14, <1>15 DEF Inv

\* A fill of an exit takes from the unit what it took from the position, or is refused;
\* what a closed unit was still owed becomes a stranger's.
LEMMA RecordExitStep ==
    ASSUME Inv, NEW u \in DOMAIN unit, RecordExitFill(u) PROVE Inv'
  <1> DEFINE x == unit[u]
  <1>1. UNCHANGED <<net, acc, opens, acts, trades>> /\ acc.pc = "idle"
    BY DEF RecordExitFill
  <1>p. PICK q \in 1..x.out :
          IF q = x.remaining
          THEN /\ unit' = [unit EXCEPT ![u].out = @ - q, ![u].remaining = 0,
                              ![u].status = "closed", ![u].due = 0]
               /\ strangers' = strangers + x.due
          ELSE /\ unit' = [unit EXCEPT ![u].out = @ - q,
                              ![u].remaining = IF q < @ THEN @ - q ELSE @]
               /\ UNCHANGED strangers
    BY DEF RecordExitFill
  <1>t. RowFacts(x)
    BY TheRow
  <1>n. RowNats(x)
    BY TheRow
  <1>2. q \in Nat /\ q >= 1 /\ q <= x.out
    BY <1>n DEF RowNats
  <1>4. /\ x.remaining + x.due + x.order <= MaxNet /\ x.live + x.out <= ExitBudget(acts)
        /\ x.due + x.order <= MaxSize /\ ExitBudget(acts) \in Nat
        /\ ExitBudget(acts) <= MaxOrdered /\ MaxOrdered \in Nat
    BY <1>t, <1>n, Budgets DEF RowFacts, RowNats, RowSound
  <1>3. x.out - q \in 0..MaxOrdered /\ 0 \in 0..MaxNet /\ 0 \in 0..MaxSize
    <2> HIDE DEF x
    <2> QED BY <1>2, <1>4, <1>n DEF RowNats
  <1>5. CASE q = x.remaining
    <2> DEFINE r == [x EXCEPT !.out = @ - q, !.remaining = 0, !.status = "closed", !.due = 0]
    <2>1. unit' = [unit EXCEPT ![u] = r] /\ strangers' = strangers + x.due
      BY <1>p, <1>5, <1>t DEF RowFacts, UnitType
    <2> HIDE DEF x
    <2>2. r \in UnitType
      BY <1>3, <1>t DEF RowFacts, UnitType
    <2>3. /\ r.remaining = 0 /\ r.due = 0 /\ r.out = x.out - q /\ r.live = x.live
          /\ r.order = x.order /\ r.status = "closed"
      BY <1>t DEF RowFacts, UnitType
    <2>4. ~(x.order > 0)
      BY <1>2, <1>5, <1>t, <1>n DEF RowFacts, RowNats, RowSound
    <2> HIDE DEF r
    <2>5. RowSound(r, acts')
      <3>1. /\ r.remaining + r.due + r.order <= MaxNet /\ r.due + r.order <= MaxSize
            /\ r.live + r.out <= ExitBudget(acts') /\ ~(r.order > 0)
        BY <1>1, <1>2, <1>4, <2>3, <2>4, <1>n DEF RowNats
      <3> QED BY <2>3, <3>1 DEF RowSound
    <2>6. Rows' /\ AccSound'
      BY <1>1, <2>1, <2>2, <2>5, OneRow
    <2>7. /\ Held' = Held - x.remaining + r.remaining /\ Owed' = Owed - x.due + r.due
          /\ Ordered' = Ordered - x.order + r.order /\ Taken' = Taken - x.out + r.out
      BY <2>1, <2>2, <1>t, OneRowSums DEF RowFacts, x
    <2>8. /\ Held' = Held - q /\ Owed' = Owed - x.due /\ Ordered' = Ordered
          /\ Taken' = Taken - q
      BY <1>2, <1>5, <2>3, <2>7, <1>n, InvNumbers DEF RowNats
    <2>9. Counters'
      BY <1>1, <2>1, <1>n, InvNumbers DEF RowNats, Inv, Counters
    <2>10. Bought'
      BY <1>1, <1>2, <2>8, <1>n, InvNumbers DEF RowNats, Bought
    <2>11. Explained' /\ SeenExplained'
      BY <1>1, <1>2, <2>1, <2>8, <1>n, InvNumbers DEF RowNats, Explained, SeenExplained
    <2> QED BY <2>6, <2>9, <2>10, <2>11 DEF Inv
  <1>6. CASE q # x.remaining
    <2> DEFINE left == IF q < x.remaining THEN x.remaining - q ELSE x.remaining
               r == [x EXCEPT !.out = @ - q, !.remaining = left]
    <2>1. unit' = [unit EXCEPT ![u] = r] /\ strangers' = strangers
      BY <1>p, <1>6, <1>t DEF RowFacts, UnitType
    <2> HIDE DEF x
    <2>2. left \in 0..MaxNet /\ left <= x.remaining /\ x.remaining - left <= q
          /\ left \in Nat
      BY <1>2, <1>4, <1>n DEF RowNats
    <2> HIDE DEF left
    <2>3. r \in UnitType
      BY <1>3, <2>2, <1>t DEF RowFacts, UnitType
    <2>4. /\ r.remaining = left /\ r.due = x.due /\ r.out = x.out - q /\ r.live = x.live
          /\ r.order = x.order /\ r.status = x.status
      BY <1>t DEF RowFacts, UnitType
    <2> HIDE DEF r
    <2>5. r.status \in {"pending_open", "failed", "closed"} => left = 0
      BY <2>2, <2>4, <1>t, <1>n DEF RowFacts, RowNats, RowSound
    <2>6. RowSound(r, acts')
      <3>1. /\ r.remaining + r.due + r.order <= MaxNet /\ r.due + r.order <= MaxSize
            /\ r.live + r.out <= ExitBudget(acts')
        BY <1>1, <1>2, <1>4, <2>2, <2>4, <1>n DEF RowNats
      <3> QED BY <2>4, <2>5, <3>1, <1>t, <1>n DEF RowFacts, RowNats, RowSound
    <2>7. Rows' /\ AccSound'
      BY <1>1, <2>1, <2>3, <2>6, OneRow
    <2>8. /\ Held' = Held - x.remaining + r.remaining /\ Owed' = Owed - x.due + r.due
          /\ Ordered' = Ordered - x.order + r.order /\ Taken' = Taken - x.out + r.out
      BY <2>1, <2>3, <1>t, OneRowSums DEF RowFacts, x
    <2>9. /\ Held' = Held - (x.remaining - left) /\ Owed' = Owed /\ Ordered' = Ordered
          /\ Taken' = Taken - q
      BY <1>2, <2>2, <2>4, <2>8, <1>n, InvNumbers DEF RowNats
    <2>10. Counters'
      BY <1>1, <2>1 DEF Inv, Counters
    <2>11. Bought'
      BY <1>1, <1>2, <2>2, <2>9, <1>n, InvNumbers DEF RowNats, Bought
    <2>12. Explained' /\ SeenExplained'
      BY <1>1, <1>2, <2>1, <2>2, <2>9, <1>n, InvNumbers DEF RowNats, Explained, SeenExplained
    <2> QED BY <2>7, <2>10, <2>11, <2>12 DEF Inv
  <1> QED BY <1>5, <1>6

-----------------------------------------------------------------------------
\* The account service reads the position, which the invariant explains.
LEMMA FetchStep ==
    ASSUME Inv, Fetch PROVE Inv'
  <1>1. /\ UNCHANGED <<net, unit, opens, acts, trades, strangers>>
        /\ acc' = [pc |-> "fetched", seen |-> net, rows |-> {}]
    BY DEF Fetch, Idle
  <1>2. Held' = Held /\ Owed' = Owed /\ Ordered' = Ordered /\ Taken' = Taken
    BY <1>1, SumsStay
  <1>3. Rows' /\ Counters'
    BY <1>1 DEF Inv, Rows, Counters
  <1>4. AccSound'
    <2>1. net \in 0..MaxNet
      BY NetBound
    <2> QED BY <1>1, <2>1 DEF AccSound
  <1>5. Bought' /\ Explained'
    BY <1>1, <1>2 DEF Inv, Bought, Explained
  <1>6. net <= Held + Owed + strangers
    BY InvNumbers
  <1>7. SeenExplained'
    BY <1>1, <1>2, <1>6 DEF SeenExplained
  <1> QED BY <1>3, <1>4, <1>5, <1>7 DEF Inv

\* A recovery takes no more than the strangers bought: what was seen is explained, and
\* no entry is opening, so that all that is owed is owed to half-recorded units.
LEMMA RecoveryStep ==
    ASSUME Inv, acc.pc = "fetched", GroupState(acc.seen) = "under_allocated", ~PendingKey,
           CreateRecovery, UNCHANGED <<net, opens, acts, trades>>
    PROVE  Inv'
  <1> DEFINE r == Foreign("recovery", Unexplained(acc.seen))
  <1>1. /\ unit' = Append(unit, r) /\ acc' = Idle
        /\ strangers' = strangers - Unexplained(acc.seen) + Total(HalfRecorded, Due)
    BY DEF CreateRecovery
  <1>2. acc.seen \in 0..MaxNet /\ acc.seen \in Nat
    BY InvNumbers
  <1>3. Unexplained(acc.seen) = acc.seen - Held /\ Unexplained(acc.seen) \in 1..MaxNet
    BY <1>2, GapIsPositive DEF Inv
  <1>4. r \in UnitType
    BY <1>3, NewRowTypes
  <1>5. /\ r.remaining = Unexplained(acc.seen) /\ r.status = "open" /\ r.order = 0
        /\ r.due = 0 /\ r.live = 0 /\ r.out = 0
    BY DEF Foreign, NewUnit
  <1>6. acts' = acts /\ acts' \in Nat
    BY InvNumbers
  <1> HIDE DEF r
  <1>7. /\ Rows' /\ AccSound' /\ Bought'
        /\ Held' = acc.seen /\ Owed' = Owed /\ Ordered' = Ordered /\ Taken' = Taken
    BY <1>1, <1>2, <1>4, <1>5, <1>6, ForeignAdded
  <1>8. Total(HalfRecorded, Due) = Owed
    BY HalfIsOwed DEF Inv
  <1>9. strangers' = strangers - (acc.seen - Held) + Owed
    BY <1>1, <1>3, <1>8
  <1>10. acc.seen <= Held + Owed + strangers
    BY DEF Inv, SeenExplained
  <1>11. strangers' \in Nat
    BY <1>2, <1>9, <1>10, InvNumbers
  <1>12. Counters'
    BY <1>11 DEF Inv, Counters
  <1>13. Explained'
    <2>1. net + Taken <= acc.seen + Owed + strangers'
      BY <1>2, <1>9, InvNumbers
    <2> QED BY <1>7, <2>1 DEF Explained
  <1>14. SeenExplained'
    BY <1>1 DEF SeenExplained, Idle
  <1> QED BY <1>7, <1>12, <1>13, <1>14 DEF Inv

\* A judgement without consequences, and one that copies rows.
LEMMA JudgeStep ==
    ASSUME Inv, Judge PROVE Inv'
  <1>1. acc.pc = "fetched" /\ UNCHANGED <<net, opens, acts, trades>>
    BY DEF Judge
  <1>2. CASE GroupState(acc.seen) = "under_allocated" /\ ~PendingKey /\ CreateRecovery
    BY <1>1, <1>2, RecoveryStep
  <1>3. ASSUME UNCHANGED <<unit, strangers>>
        PROVE  /\ Rows' /\ Counters' /\ Bought' /\ Explained'
    <2>1. Held' = Held /\ Owed' = Owed /\ Ordered' = Ordered /\ Taken' = Taken
      BY <1>3, SumsStay
    <2>2. Rows' /\ Counters'
      BY <1>1, <1>3 DEF Inv, Rows, Counters
    <2> QED BY <1>1, <1>3, <2>1, <2>2 DEF Inv, Bought, Explained
  <1>4. CASE acc' = Idle /\ UNCHANGED <<unit, strangers>>
    <2>1. 0 \in 0..MaxNet
      BY InvNumbers
    <2>2. AccSound'
      BY <1>4, <2>1 DEF AccSound, Idle
    <2>3. SeenExplained'
      BY <1>4 DEF SeenExplained, Idle
    <2> QED BY <1>3, <1>4, <2>2, <2>3 DEF Inv
  <1>5. CASE /\ UNCHANGED <<unit, strangers>>
             /\ acc' = [acc EXCEPT !.pc = "judged",
                           !.rows = {<<u, unit[u].status>> : u \in Unmarked}]
    <2> DEFINE rows == {<<u, unit[u].status>> : u \in Unmarked}
    <2>1. acc \in [pc : {"idle", "fetched", "judged"}, seen : 0..MaxNet,
                   rows : SUBSET (Nat \X Waiting)]
      BY DEF Inv, AccSound
    <2>2. ASSUME NEW u \in Unmarked
          PROVE  u \in Nat /\ u \in DOMAIN unit /\ unit[u].status \in Waiting
      <3>1. u \in DOMAIN unit /\ unit[u].status \in Waiting
        BY DEF Unmarked, Listed, Waiting
      <3>2. unit \in Seq(UnitType)
        BY DEF Inv, Rows
      <3>3. DOMAIN unit = 1..Len(unit) /\ Len(unit) \in Nat
        BY <3>2
      <3> QED BY <3>1, <3>3
    <2>3. rows \in SUBSET (Nat \X Waiting)
      BY <2>2
    <2>4. \A r \in rows : r[1] \in DOMAIN unit /\ unit[r[1]].status \in Waiting
                            /\ r[2] = unit[r[1]].status
      BY <2>2
    <2> HIDE DEF rows
    <2>5. /\ acc'.pc = "judged" /\ acc'.rows = rows /\ acc'.seen = acc.seen
          /\ acc' \in [pc : {"idle", "fetched", "judged"}, seen : 0..MaxNet,
                       rows : SUBSET (Nat \X Waiting)]
      BY <1>5, <2>1, <2>3 DEF rows
    <2>6. AccSound'
      BY <1>5, <2>4, <2>5 DEF AccSound
    <2>7. SeenExplained'
      BY <2>5 DEF SeenExplained
    <2> QED BY <1>3, <1>5, <2>6, <2>7 DEF Inv
  <1> QED BY <1>2, <1>4, <1>5 DEF Judge

\* The copies are written back: what a unit holds and what is under way for it stay,
\* and its status is one that agrees with them.
LEMMA MarkStep ==
    ASSUME Inv, MarkManualReview PROVE Inv'
  <1> DEFINE Copied(u) == \E c \in acc.rows : c[1] = u
             Status(u) == (CHOOSE c \in acc.rows : c[1] = u)[2]
             Marked(u) == [unit[u] EXCEPT !.sig = SignatureOf(acc.seen),
                                          !.status = Status(u)]
  <1>1. /\ UNCHANGED <<net, opens, acts, trades, strangers>> /\ acc' = Idle
        /\ unit' = [u \in DOMAIN unit |-> IF Copied(u) THEN Marked(u) ELSE unit[u]]
    BY DEF MarkManualReview
  <1>2. SignatureOf(acc.seen) \in Signature
    <2>1. GroupRemaining \in 0..2 * MaxNet
      BY GroupIsHeld, NetBound DEF Inv
    <2>2. acc.seen \in 0..MaxNet
      BY InvNumbers
    <2> QED BY <2>1, <2>2 DEF SignatureOf, Signature
  <1>3. ASSUME NEW u \in DOMAIN unit, Copied(u)
        PROVE  /\ Status(u) \in Waiting /\ unit[u].status \in Waiting
               /\ (Status(u) = "pending_open") <=> (unit[u].status = "pending_open")
    <2>1. PICK c \in acc.rows : c = (CHOOSE d \in acc.rows : d[1] = u) /\ c[1] = u
      BY <1>3
    <2>2. c[2] \in Waiting
      BY DEF Inv, AccSound
    <2>3. unit[u].status \in Waiting
          /\ ((c[2] = "pending_open") <=> (unit[u].status = "pending_open"))
      BY <2>1 DEF Inv, AccSound
    <2> QED BY <2>1, <2>2, <2>3
  <1> HIDE DEF Status, Copied
  <1>4. ASSUME NEW u \in DOMAIN unit
        PROVE  /\ unit'[u] \in UnitType /\ RowSound(unit'[u], acts)
               /\ unit'[u].remaining = unit[u].remaining /\ unit'[u].due = unit[u].due
               /\ unit'[u].order = unit[u].order /\ unit'[u].out = unit[u].out
    <2>1. unit[u] \in UnitType /\ RowSound(unit[u], acts)
      BY DEF Inv, Rows
    <2>2. CASE ~Copied(u)
      <3>1. unit'[u] = unit[u]
        BY <1>1, <2>2
      <3> QED BY <2>1, <3>1
    <2>3. CASE Copied(u)
      <3>1. unit'[u] = Marked(u)
        BY <1>1, <2>3
      <3>2. Status(u) \in {"pending_open", "open", "closing"}
        BY <1>3, <2>3 DEF Waiting
      <3>3. Marked(u) \in UnitType
        BY <1>2, <2>1, <3>2 DEF UnitType
      <3>4. /\ Marked(u).remaining = unit[u].remaining /\ Marked(u).due = unit[u].due
            /\ Marked(u).order = unit[u].order /\ Marked(u).out = unit[u].out
            /\ Marked(u).live = unit[u].live /\ Marked(u).status = Status(u)
        BY <2>1 DEF UnitType
      <3> DEFINE m == Marked(u)
      <3> HIDE DEF m
      <3>5. RowSound(m, acts)
        BY <1>3, <2>1, <2>3, <3>2, <3>4 DEF RowSound, Waiting, m
      <3> QED BY <3>1, <3>3, <3>4, <3>5 DEF m
    <2> QED BY <2>2, <2>3
  <1>5. DOMAIN unit' = DOMAIN unit
    BY <1>1
  <1>6. unit' \in Seq(UnitType)
    <2>1. DOMAIN unit = 1..Len(unit) /\ Len(unit) \in Nat
      BY DEF Inv, Rows
    <2>2. unit' \in [1..Len(unit) -> UnitType]
      BY <1>1, <1>4, <1>5, <2>1
    <2> QED BY <2>1, <2>2
  <1>7. Rows'
    BY <1>1, <1>4, <1>5, <1>6 DEF Rows
  <1>8. Held' = Held /\ Owed' = Owed /\ Ordered' = Ordered /\ Taken' = Taken
    <2>1. Remaining' = Remaining /\ Due' = Due /\ Order' = Order /\ Out' = Out
      BY <1>4, <1>5 DEF Remaining, Due, Order, Out
    <2> QED BY <1>5, <2>1 DEF Held, Owed, Ordered, Taken
  <1>9. Counters'
    BY <1>1 DEF Inv, Counters
  <1>10. AccSound' /\ SeenExplained'
    <2>1. 0 \in 0..MaxNet
      BY InvNumbers
    <2> QED BY <1>1, <2>1 DEF AccSound, SeenExplained, Idle
  <1>11. Bought' /\ Explained'
    BY <1>1, <1>8 DEF Inv, Bought, Explained
  <1> QED BY <1>7, <1>9, <1>10, <1>11 DEF Inv

-----------------------------------------------------------------------------
LEMMA NextInv ==
    ASSUME Inv, [Next]_vars PROVE Inv'
  <1>1. CASE Exchange
    BY <1>1, TradeStep, ExecuteEntryStep, ExecuteExitStep DEF Exchange
  <1>2. CASE Operator
    BY <1>2, OpenStep, ImportStep, FailStep, CloseStep, AdoptStep DEF Operator
  <1>3. CASE FillService
    BY <1>3, RecordEntryStep, RecordExitStep, ReopenStep DEF FillService, RecordFill
  <1>4. CASE AccountTick
    BY <1>4, FetchStep, JudgeStep, MarkStep DEF AccountTick
  <1>5. CASE UNCHANGED vars
    <2>1. UNCHANGED <<net, unit, acc, opens, acts, trades, strangers>>
      BY <1>5 DEF vars
    <2>2. Held' = Held /\ Owed' = Owed /\ Ordered' = Ordered /\ Taken' = Taken
      BY <2>1, SumsStay
    <2>3. Rows' /\ Counters' /\ AccSound'
      BY <2>1 DEF Inv, Rows, Counters, AccSound
    <2> QED BY <2>1, <2>2, <2>3 DEF Inv, Bought, Explained, SeenExplained
  <1> QED BY <1>1, <1>2, <1>3, <1>4, <1>5 DEF Next

\* The types and the bounds of every quantity, for every number of entries, exits,
\* imports and trades: in particular no unit ever holds less than nothing, whatever
\* position the import and the recovery have read (position_import.py:141-174).
THEOREM ExposureTypes == Spec => []TypeOK
  <1>1. ASSUME Inv PROVE TypeOK
    <2>1. net \in 0..MaxNet
      BY <1>1, NetBound
    <2>2. \A u \in DOMAIN unit : unit[u] \in UnitType
      BY <1>1 DEF Inv, Rows
    <2>3. /\ acc.pc \in {"idle", "fetched", "judged"} /\ acc.seen \in 0..MaxNet
          /\ \A r \in acc.rows : r[1] \in DOMAIN unit
      BY <1>1 DEF Inv, AccSound
    <2>4. /\ opens \in 0..MaxOpen /\ acts \in 0..MaxAct /\ trades \in 0..MaxTrade
          /\ strangers \in Int
      BY <1>1 DEF Inv, Counters
    <2> QED BY <2>1, <2>2, <2>3, <2>4 DEF TypeOK
  <1> QED BY <1>1, InitInv, NextInv, PTL DEF Spec

\* The account service recovers only what orders of no unit have bought, although it
\* compares a position read earlier with rows that lag behind the exchange
\* (position_import.py:141-174, account_service.py:44-50).
THEOREM RecoveredAreForeign == Spec => []RecoveredIsForeign
  <1>1. ASSUME Inv PROVE RecoveredIsForeign
    <2>1. strangers \in Nat
      BY <1>1 DEF Inv, Counters
    <2> QED BY <2>1 DEF RecoveredIsForeign
  <1> QED BY <1>1, InitInv, NextInv, PTL DEF Spec
=============================================================================
