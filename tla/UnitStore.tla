------------------------------ MODULE UnitStore ------------------------------
(***************************************************************************)
(* The row of one logical unit and the transactions on it, as pure         *)
(* operators: LogicalPositionStore                                         *)
(* (src/src/trading/logical_position_store.py) and the rules by which      *)
(* ExecutionAllocationService (src/src/trading/execution_allocation.py)    *)
(* turns confirmed fills into quantities and statuses.                     *)
(***************************************************************************)
EXTENDS Integers, FiniteSets

CONSTANTS
    Entry,      \* the entry order (its client id and its exchange id)
    Exits,      \* ids that exit requests draw from: a fresh uuid4 per request
    NoOrder,    \* the empty string in exchange_order_id and client_order_id
    EntrySize,  \* contracts the entry asks for (metadata expected_quantity)
    MaxFills    \* bound on the fills the exchange reports

Order == {Entry} \cup Exits
Fill == 1..MaxFills
ExitAct == {"reduce", "close"}

ASSUME OrderAssumption == Entry \notin Exits /\ NoOrder \notin Order
ASSUME SizeAssumption == EntrySize \in Nat \ {0}
ASSUME FillAssumption == MaxFills \in Nat

Status == {"pending_open", "open", "reducing", "closing", "closed", "failed"}
Actions == {"none", "open", "reduce", "close"}

NoAlloc == [act |-> "none", qty |-> 0, ord |-> NoOrder, applied |-> FALSE]

(***************************************************************************)
(* Quantities.  Sum counts contracts: a fill of quantity q contributes the *)
(* q pairs <<f, 1>>, ..., <<f, q>>.                                        *)
(***************************************************************************)
Lots(t, S) == UNION {{f} \X (1..t[f].qty) : f \in S}
Sum(t, S) == Cardinality(Lots(t, S))

Opens(t) == {f \in Fill : t[f].applied /\ t[f].act = "open"}
Closes(t) == {f \in Fill : t[f].applied /\ t[f].act \in ExitAct}
Deferred(t) == {f \in Fill : t[f].act # "none" /\ ~t[f].applied}

\* position.remaining_quantity or position.opened_quantity: zero falls through.
Available(r) == IF r.remaining # 0 THEN r.remaining ELSE r.opened

-----------------------------------------------------------------------------
(***************************************************************************)
(* LogicalPositionStore, one operator per transaction.                     *)
(***************************************************************************)

\* Mutant: the metadata keep the previous order's action.
ClaimWithoutAction(r, st, o, act, corr, prev) ==
    [r EXCEPT !.status = st, !.ord = NoOrder, !.cl = o,
              !.corr = corr, !.prev = prev, !.unknown = FALSE]

ClaimPendingExecution(r, st, o, act, corr, prev) ==
    [r EXCEPT !.status = st, !.ord = NoOrder, !.cl = o, !.action = act,
              !.corr = corr, !.prev = prev, !.unknown = FALSE]

ReleasePendingExecution(r, o) ==
    IF r.corr # o THEN r
    ELSE [r EXCEPT !.status = "open", !.ord = r.prev, !.cl = NoOrder,
                   !.unknown = FALSE]

MarkPendingExecution(r, st, o) ==
    [r EXCEPT !.status = st, !.ord = o, !.unknown = FALSE]

LinkExchangeOrder(r, o) ==
    IF r.cl = o THEN [r EXCEPT !.ord = o, !.unknown = FALSE] ELSE r

LinkExecutionOrder(l, o, act) ==
    [l EXCEPT ![o] = IF @ = "none" THEN act ELSE @]

RecoverClientOrderIntent(r, o) ==
    IF r.cl # o \/ r.ord # NoOrder THEN r
    ELSE IF r.status = "pending_open"
    THEN [r EXCEPT !.status = "failed", !.cl = NoOrder, !.unknown = FALSE]
    ELSE IF r.status = "closing" /\ r.emergency
    THEN [r EXCEPT !.unknown = FALSE]
    ELSE IF r.status \in {"closing", "reducing"}
    THEN [r EXCEPT !.status = "open", !.cl = NoOrder, !.unknown = FALSE]
    ELSE r

\* Mutant: an exit order that ended always gives the unit back as open.
TerminalStatusOpen(r) ==
    CASE r.status = "pending_open" -> IF r.opened > 0 THEN "open" ELSE "failed"
      [] r.status \in {"closing", "reducing"} -> "open"
      [] OTHER -> r.status

TerminalStatus(r) ==
    CASE r.status = "pending_open" -> IF r.opened > 0 THEN "open" ELSE "failed"
      [] r.status \in {"closing", "reducing"} ->
            IF r.remaining = 0 THEN "closed" ELSE "open"
      [] OTHER -> r.status

RecoverTerminalOrder(r, o) ==
    IF r.ord # o \/ r.status \notin {"pending_open", "closing", "reducing", "open"}
    THEN r
    ELSE [r EXCEPT !.status = TerminalStatus(r), !.ord = NoOrder,
                   !.cl = NoOrder, !.unknown = FALSE]

UpdateExecutionTracking(r, o, completed) ==
    IF r.ord # o THEN r
    ELSE [r EXCEPT !.ord = IF completed THEN NoOrder ELSE @,
                   !.cl = IF completed THEN NoOrder ELSE @,
                   !.unknown = FALSE]

\* Mutant: the remaining quantity is not checked.
ValidAllocationAnyQuantity(r, act, q) ==
    act = "open" => r.status \in {"planned", "pending_open", "open", "reducing", "closing"}

\* _validate_allocation, as ingest calls it: opens are admitted while closing.
ValidAllocation(r, act, q) ==
    IF act = "open"
    THEN r.status \in {"planned", "pending_open", "open", "reducing", "closing"}
    ELSE q <= r.remaining

StatusAfterExit(act, left) ==
    IF left = 0 THEN "closed" ELSE IF act = "close" THEN "closing" ELSE "open"

ApplyAllocationFields(r, act, q) ==
    IF act = "open"
    THEN [r EXCEPT !.opened = @ + q, !.remaining = @ + q,
                   !.status = IF @ \in {"planned", "pending_open"} THEN "open" ELSE @]
    ELSE [r EXCEPT !.remaining = @ - q,
                   !.status = StatusAfterExit(act, r.remaining - q)]

\* Mutant: a deferred fill of exactly the remaining quantity is left out.
DeferredBatchStrict(r, t) ==
    UNION {P \in {{g \in Deferred(t) : g <= k} : k \in Fill} :
              Sum(t, P) < r.remaining}

\* apply_deferred_allocations walks the deferred rows in time order and stops
\* at the first that exceeds the remaining quantity: the largest prefix that
\* fits in it.
DeferredBatch(r, t) ==
    UNION {P \in {{g \in Deferred(t) : g <= k} : k \in Fill} :
              Sum(t, P) <= r.remaining}

MarkApplied(t, B) ==
    [f \in Fill |-> [t[f] EXCEPT !.applied = @ \/ f \in B]]

-----------------------------------------------------------------------------
(***************************************************************************)
(* ExecutionAllocationService.                                             *)
(***************************************************************************)

\* Total of one order's reduce allocations, applied or deferred.
ReducedByOrder(t, o) == Sum(t, {g \in Fill : t[g].act = "reduce" /\ t[g].ord = o})

\* Mutant: the closed status is not looked at first.
PartiallyReducedAnyStatus(r, t, f) ==
    t[f].act = "reduce" /\ ReducedByOrder(t, t[f].ord) < r.execQty

PartiallyReduced(r, t, f) ==
    /\ r.status # "closed"
    /\ t[f].act = "reduce"
    /\ ReducedByOrder(t, t[f].ord) < r.execQty

\* _update_trade_and_status: "filled", "closed" and a complete reduce end the
\* order; a partial close never does.
OrderCompleted(r, t, f) ==
    CASE t[f].act = "open"   -> r.opened >= EntrySize
      [] t[f].act = "reduce" -> ~PartiallyReduced(r, t, f)
      [] OTHER               -> r.status = "closed"

AfterRecord(r, t, f) ==
    LET s == IF PartiallyReduced(r, t, f) THEN [r EXCEPT !.status = "reducing"] ELSE r
    IN  UpdateExecutionTracking(s, t[f].ord, OrderCompleted(r, t, f))

ApplyDeferredAllocations(r, t) ==
    LET B    == DeferredBatch(r, t)
        left == r.remaining - Sum(t, B)
        last == CHOOSE f \in B : \A g \in B : g <= f
        s    == [r EXCEPT !.remaining = left, !.unknown = FALSE,
                          !.status = StatusAfterExit(t[last].act, left)]
    IN  IF B = {} THEN r
        ELSE IF \E f \in B : PartiallyReduced(s, t, f)
        THEN [s EXCEPT !.status = "reducing"] ELSE s

DeferClose(r, l, act, q) ==
    act \in ExitAct /\ Available(r) < q /\ \E o \in Order : l[o] = "open"

\* The row's quantities are those of its applied allocations.
Balanced(r, t) ==
    /\ r.opened = Sum(t, Opens(t))
    /\ r.opened = r.remaining + Sum(t, Closes(t))

-----------------------------------------------------------------------------
OrderOrNone == Order \cup {NoOrder}

RowType ==
    [status : Status, ord : OrderOrNone, cl : OrderOrNone, opened : Nat,
     remaining : Nat, action : Actions \ {"none"}, corr : Order, prev : OrderOrNone,
     execQty : Nat, unknown : BOOLEAN, attempts : Nat, emergency : BOOLEAN]

AllocType == [act : Actions, qty : 0..EntrySize, ord : OrderOrNone, applied : BOOLEAN]
=============================================================================
