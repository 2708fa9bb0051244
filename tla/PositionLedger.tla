--------------------------- MODULE PositionLedger ---------------------------
(***************************************************************************)
(* The life of one logical unit, from the submission of its entry to its   *)
(* last exit: ingestion of confirmed fills                                 *)
(* (src/src/trading/execution_allocation.py), order reconciliation by the  *)
(* fill service (src/src/daemon/execution_fill_service.py), submission of  *)
(* entries (src/src/trading/entry_submission.py) and exits                 *)
(* (src/src/daemon/position_manager_service.py).                           *)
(*                                                                         *)
(* One store method is one transaction, except mark_pending_execution,     *)
(* whose get() and save() are two, and which is therefore two steps where  *)
(* another thread may run in between.  The exchange executes orders on its *)
(* own; every fill it reports can be delivered in any order and any number *)
(* of times, because the private stream and the REST pages both carry it.  *)
(***************************************************************************)
EXTENDS UnitStore, Sequences

CONSTANTS
    MaxCrash,   \* bound on the crashes of the process
    ApiExit     \* TRUE: submissions run on API threads, concurrently with the
                \* daemon; FALSE: on the daemon thread, like rule exits and
                \* strategy entries

ASSUME CrashAssumption == MaxCrash \in Nat
ASSUME ThreadAssumption == ApiExit \in BOOLEAN

VARIABLES
    row,      \* the unit's row, with the metadata keys that steer the code
    links,    \* logical_position_orders: order -> action, "none" if absent
    alloc,    \* logical_position_allocations: fill -> its row
    rejected, \* fills put in quarantine
    book,     \* the exchange's orders, "intent" while only a client id exists
    tape,     \* the fills the exchange executed, in execution order
    net,      \* the exchange's net position made by this unit's orders
    entryPc,  \* where EntrySubmitter.submit stands
    flow,     \* where the exit request in progress stands
    crashes   \* crashes so far

vars == <<row, links, alloc, rejected, book, tape, net, entryPc, flow, crashes>>
store == <<row, links, alloc, rejected>>
exchange == <<book, tape, net>>
threads == <<entryPc, flow, crashes>>

-----------------------------------------------------------------------------
\* The rest of ingest once the allocation row is committed.
FinishIngest(r, t, f) ==
    LET s == AfterRecord(r, t, f)
    IN  IF t[f].act = "open"
        THEN /\ row' = ApplyDeferredAllocations(s, t)
             /\ alloc' = MarkApplied(t, DeferredBatch(s, t))
        ELSE row' = s /\ alloc' = t

\* _resolve_position: by linked order, by the row's order id, by client id.
KnownOrder(o) == links[o] # "none" \/ row.ord = o
Matched(o) == KnownOrder(o) \/ row.cl = o

ResolvedRow(o) == IF KnownOrder(o) THEN row ELSE LinkExchangeOrder(row, o)
ResolvedLinks(o) ==
    IF KnownOrder(o) THEN links ELSE LinkExecutionOrder(links, o, row.action)

\* Mutant: the order's link is not looked up.
ResolveActionOfRow(o) == row.action

ResolveAction(o) == IF links[o] # "none" THEN links[o] ELSE row.action

Executed == 1..Len(tape)

\* _prepare_open_unit has saved the unit and its client id.
PreparedRow ==
    [status |-> "pending_open", ord |-> NoOrder, cl |-> Entry, opened |-> 0,
     remaining |-> 0, action |-> "open", corr |-> Entry, prev |-> NoOrder,
     execQty |-> 0, unknown |-> FALSE, attempts |-> 0, emergency |-> FALSE]

NoFlow == [pc |-> "idle", ord |-> Entry, act |-> "close", qty |-> 0,
           onEmpty |-> "release", snap |-> PreparedRow]

\* The daemon thread is free to tick: no submission is running on it.
DaemonFree == ApiExit \/ (entryPc = "done" /\ flow.pc = "idle")

-----------------------------------------------------------------------------
(***************************************************************************)
(* ExecutionFillService._ingest_fills: what one delivery of fill f does.   *)
(* An order of nobody (LookupError) is dropped, and a deferred fill        *)
(* delivered again changes nothing.                                        *)
(***************************************************************************)
AllocationOf(f, applied) ==
    [act |-> ResolveAction(tape[f].ord), qty |-> tape[f].qty,
     ord |-> tape[f].ord, applied |-> applied]

\* Mutant: the allocation row is not looked up before the insert.
NewFillEveryTime(f) ==
    /\ DaemonFree
    /\ f \in Executed
    /\ Matched(tape[f].ord)
    /\ links' = ResolvedLinks(tape[f].ord)

NewFill(f) ==
    /\ DaemonFree
    /\ f \in Executed
    /\ alloc[f].act = "none"
    /\ Matched(tape[f].ord)
    /\ links' = ResolvedLinks(tape[f].ord)

Defers(f) ==
    LET o == tape[f].ord
    IN  DeferClose(ResolvedRow(o), ResolvedLinks(o), ResolveAction(o), tape[f].qty)

Accepts(f) ==
    LET o == tape[f].ord
    IN  ValidAllocation(ResolvedRow(o), ResolveAction(o), tape[f].qty)

\* record_allocation of a fill that is admitted, up to its commit.
RecordedRow(f) ==
    ApplyAllocationFields(ResolvedRow(tape[f].ord), ResolveAction(tape[f].ord),
                          tape[f].qty)
RecordedAlloc(f) == [alloc EXCEPT ![f] = AllocationOf(f, TRUE)]

ApplyFill(f) ==
    /\ NewFill(f)
    /\ ~Defers(f) /\ Accepts(f)
    /\ FinishIngest(RecordedRow(f), RecordedAlloc(f), f)
    /\ UNCHANGED <<rejected, exchange, threads>>

DeferFill(f) ==
    /\ NewFill(f)
    /\ Defers(f)
    /\ alloc' = [alloc EXCEPT ![f] = AllocationOf(f, FALSE)]
    /\ row' = UpdateExecutionTracking(ResolvedRow(tape[f].ord), tape[f].ord, TRUE)
    /\ UNCHANGED <<rejected, exchange, threads>>

RejectFill(f) ==
    /\ NewFill(f)
    /\ ~Defers(f) /\ ~Accepts(f)
    /\ rejected' = rejected \cup {f}
    /\ row' = ResolvedRow(tape[f].ord)
    /\ UNCHANGED <<alloc, exchange, threads>>

\* The same fill again, from the other channel or the next REST page: the
\* allocation is recognised, and the rest of ingest runs once more.
RedeliverFill(f) ==
    /\ DaemonFree
    /\ f \in Executed
    /\ alloc[f].applied
    /\ FinishIngest(row, alloc, f)
    /\ UNCHANGED <<links, rejected, exchange, threads>>

Restart == entryPc' = "done" /\ flow' = NoFlow /\ crashes' = crashes + 1

\* The process dies between the commit of the allocation and what follows it.
CrashInIngest(f) ==
    /\ crashes < MaxCrash
    /\ NewFill(f)
    /\ ~Defers(f) /\ Accepts(f)
    /\ row' = RecordedRow(f)
    /\ alloc' = RecordedAlloc(f)
    /\ Restart
    /\ UNCHANGED <<rejected, exchange>>

Crash ==
    /\ crashes < MaxCrash
    /\ entryPc # "done" \/ flow.pc # "idle"
    /\ Restart
    /\ UNCHANGED <<store, exchange>>

-----------------------------------------------------------------------------
(***************************************************************************)
(* The exchange.  The entry is fill-or-kill, executed in one trade or two; *)
(* an exit is a reduce-only market order, which may end short of its size. *)
(***************************************************************************)
OnExchange == {"live", "filled", "canceled"}

AcceptOrder(o) == [book EXCEPT ![o].st = IF @ = "intent" THEN "live" ELSE @]

FillEntry ==
    /\ book[Entry].st = "live"
    /\ \E k \in 1..EntrySize :
          LET trades == IF k = EntrySize
                        THEN <<[ord |-> Entry, qty |-> k]>>
                        ELSE <<[ord |-> Entry, qty |-> k],
                               [ord |-> Entry, qty |-> EntrySize - k]>>
          IN  /\ Len(tape) + Len(trades) <= MaxFills
              /\ tape' = tape \o trades
    /\ book' = [book EXCEPT ![Entry].st = "filled"]
    /\ net' = net + EntrySize
    /\ UNCHANGED <<store, threads>>

FillExit(o) ==
    /\ book[o].st = "live"
    /\ Len(tape) < MaxFills
    /\ \E q \in 1..EntrySize :
          /\ q <= book[o].left /\ q <= net
          /\ tape' = Append(tape, [ord |-> o, qty |-> q])
          /\ net' = net - q
          /\ book' = [book EXCEPT ![o].left = @ - q,
                                  ![o].st = IF book[o].left = q THEN "filled" ELSE @]
    /\ UNCHANGED <<store, threads>>

CancelOrder(o) ==
    /\ book[o].st = "live"
    /\ book' = [book EXCEPT ![o].st = "canceled"]
    /\ UNCHANGED <<store, tape, net, threads>>

-----------------------------------------------------------------------------
(***************************************************************************)
(* EntrySubmitter.submit, from the prepared intent on.  The executor       *)
(* answers {} both when the order is refused and when its reply is lost.   *)
(***************************************************************************)
SubmitEntry ==
    /\ entryPc = "submit"
    /\ book' = AcceptOrder(Entry)
    /\ entryPc' = "link"
    /\ UNCHANGED <<store, tape, net, flow, crashes>>

EntryReplyEmpty ==
    /\ entryPc = "submit"
    /\ book' \in {book, AcceptOrder(Entry)}
    /\ row' = RecoverClientOrderIntent(row, Entry)
    /\ entryPc' = "done"
    /\ UNCHANGED <<links, alloc, rejected, tape, net, flow, crashes>>

\* An entry seen filled whose attached stop cannot be verified requires an
\* emergency close.
RecordEntrySubmission ==
    /\ entryPc = "link"
    /\ row' = LinkExchangeOrder(row, Entry)
    /\ links' = IF row.cl = Entry
                THEN LinkExecutionOrder(links, Entry, row.action) ELSE links
    /\ entryPc' \in {"done"} \cup
            (IF row.cl = Entry /\ book[Entry].st = "filled" THEN {"emergency"} ELSE {})
    /\ UNCHANGED <<alloc, rejected, exchange, flow, crashes>>

SubmitEmergencyClose(o) ==
    /\ entryPc = "emergency"
    /\ flow.pc = "idle"
    /\ book[o].st = "unused"
    /\ entryPc' = "done"
    /\ IF row.status # "pending_open"
       THEN UNCHANGED <<row, book, flow>>
       ELSE /\ row' = [ClaimPendingExecution(row, "closing", o, "close", Entry, Entry)
                          EXCEPT !.emergency = TRUE]
            /\ book' = [book EXCEPT ![o] = [st |-> "intent", left |-> EntrySize]]
            /\ flow' = [pc |-> "submit", ord |-> o, act |-> "close",
                        qty |-> EntrySize, onEmpty |-> "retry", snap |-> row]
    /\ UNCHANGED <<links, alloc, rejected, tape, net, crashes>>

-----------------------------------------------------------------------------
(***************************************************************************)
(* PositionManagerService._handle_close_trigger, for a rule or for the     *)
(* operator's request_close and request_reduce.                            *)
(***************************************************************************)
PendingStatus(act) == IF act = "close" THEN "closing" ELSE "reducing"

RequestExit(o, act) ==
    /\ flow.pc = "idle"
    /\ ApiExit \/ entryPc = "done"
    /\ row.status = "open"
    /\ book[o].st = "unused"
    /\ \E q \in 1..EntrySize :
          /\ IF act = "close" THEN q = Available(row) ELSE q < Available(row)
          /\ flow' = [pc |-> "read", ord |-> o, act |-> act, qty |-> q,
                      onEmpty |-> "release", snap |-> row]
          /\ book' = [book EXCEPT ![o] = [st |-> "intent", left |-> q]]
    /\ UNCHANGED <<store, tape, net, entryPc, crashes>>

ClaimExit ==
    /\ flow.pc = "read"
    /\ IF row.status # "open"
       THEN UNCHANGED row /\ flow' = NoFlow
       ELSE /\ row' = [ClaimPendingExecution(row, PendingStatus(flow.act), flow.ord,
                                             flow.act, flow.ord, flow.snap.ord)
                          EXCEPT !.execQty = flow.qty]
            /\ flow' = [flow EXCEPT !.pc = "stop"]
    /\ UNCHANGED <<links, alloc, rejected, exchange, entryPc, crashes>>

\* cancel_for_close proves the unit's stop gone; or there is no stop to cancel;
\* or it fails, and the claim is released.
CancelStopForExit ==
    /\ flow.pc = "stop"
    /\ \/ /\ flow' = [flow EXCEPT !.pc = "submit", !.onEmpty = "unknown"]
          /\ UNCHANGED row
       \/ /\ flow' = [flow EXCEPT !.pc = "submit"]
          /\ UNCHANGED row
       \/ /\ flow' = NoFlow
          /\ row' = ReleasePendingExecution(row, flow.ord)
    /\ UNCHANGED <<links, alloc, rejected, exchange, entryPc, crashes>>

SubmitExit ==
    /\ flow.pc = "submit"
    /\ book' = AcceptOrder(flow.ord)
    /\ flow' = [flow EXCEPT !.pc = "mark"]
    /\ UNCHANGED <<store, tape, net, entryPc, crashes>>

\* Executor.close_position answers {} when the order is refused and when the
\* reply to an accepted order is lost.
RowAfterEmptyReply ==
    CASE flow.onEmpty = "release" -> ReleasePendingExecution(row, flow.ord)
      [] flow.onEmpty = "unknown" -> [row EXCEPT !.unknown = TRUE, !.attempts = 1]
      [] OTHER                    -> [row EXCEPT !.unknown = FALSE]

ExitReplyEmpty ==
    /\ flow.pc = "submit"
    /\ book' \in {book, AcceptOrder(flow.ord)}
    /\ row' = RowAfterEmptyReply
    /\ flow' = NoFlow
    /\ UNCHANGED <<links, alloc, rejected, tape, net, entryPc, crashes>>

\* mark_pending_execution: get() ...
MarkRead ==
    /\ flow.pc = "mark"
    /\ flow' = [flow EXCEPT !.pc = "save", !.snap = row]
    /\ UNCHANGED <<store, exchange, entryPc, crashes>>

\* ... and save(), which rewrites every column from the copy read before.
MarkedRow ==
    LET r == MarkPendingExecution(flow.snap, PendingStatus(flow.act), flow.ord)
    IN  IF flow.onEmpty = "retry" THEN [r EXCEPT !.cl = flow.ord]
        ELSE [r EXCEPT !.action = flow.act, !.corr = flow.ord, !.execQty = flow.qty]

MarkSave ==
    /\ flow.pc = "save"
    /\ row' = MarkedRow
    /\ links' = LinkExecutionOrder(links, flow.ord, MarkedRow.action)
    /\ flow' = NoFlow
    /\ UNCHANGED <<alloc, rejected, exchange, entryPc, crashes>>

-----------------------------------------------------------------------------
(***************************************************************************)
(* The daemon's retries: _retry_unknown_closes, _resolve_unknown_close,    *)
(* StrategyService._retry_emergency_closes.  A client id already known to  *)
(* the exchange is refused, so a resubmission never opens a second order.  *)
(***************************************************************************)
MaxAttempts == 3

AwaitsRetry ==
    /\ DaemonFree
    /\ row.status \in {"closing", "reducing"}
    /\ row.ord = NoOrder
    /\ row.cl # NoOrder

MarkInDaemon(o) ==
    /\ row' = [MarkPendingExecution(row, row.status, o) EXCEPT !.cl = o]
    /\ links' = LinkExecutionOrder(links, o, row.action)

RetryUnknownExit ==
    /\ AwaitsRetry
    /\ row.unknown /\ row.attempts < MaxAttempts
    /\ \/ /\ book[row.cl].st = "intent"
          /\ book' = AcceptOrder(row.cl)
          /\ row' = [MarkPendingExecution(row, PendingStatus(row.action), row.cl)
                        EXCEPT !.attempts = @ + 1]
          /\ links' = LinkExecutionOrder(links, row.cl, row.action)
       \/ /\ book' \in {book, AcceptOrder(row.cl)}
          /\ row' = [row EXCEPT !.attempts = @ + 1]
          /\ UNCHANGED links
    /\ UNCHANGED <<alloc, rejected, tape, net, threads>>

\* Mutant: a lookup that fails is taken for an order that is missing.
ResolveFailureAsMissing ==
    /\ AwaitsRetry
    /\ row.unknown /\ row.attempts >= MaxAttempts
    /\ \/ /\ book[row.cl].st \in OnExchange
          /\ MarkInDaemon(row.cl)
       \/ /\ row' = RecoverClientOrderIntent(row, row.cl)
          /\ UNCHANGED links
    /\ UNCHANGED <<alloc, rejected, exchange, threads>>

\* The lookup names the order, or finds none; or it raises, as it does for every
\* error code of the exchange, or its reply has no order id: nothing is changed then,
\* and the next tick looks again.
ResolveUnknownExit ==
    /\ AwaitsRetry
    /\ row.unknown /\ row.attempts >= MaxAttempts
    /\ \/ /\ book[row.cl].st \in OnExchange
          /\ MarkInDaemon(row.cl)
       \/ /\ book[row.cl].st \notin OnExchange
          /\ row' = RecoverClientOrderIntent(row, row.cl)
          /\ UNCHANGED links
       \/ UNCHANGED <<row, links>>
    /\ UNCHANGED <<alloc, rejected, exchange, threads>>

RetryEmergencyClose ==
    /\ AwaitsRetry
    /\ row.status = "closing" /\ row.emergency
    /\ \/ /\ book[row.cl].st = "intent"
          /\ book' = AcceptOrder(row.cl)
          /\ MarkInDaemon(row.cl)
       \/ /\ book' \in {book, AcceptOrder(row.cl)}
          /\ row' = [row EXCEPT !.unknown = FALSE]
          /\ UNCHANGED links
    /\ UNCHANGED <<alloc, rejected, tape, net, threads>>

-----------------------------------------------------------------------------
(***************************************************************************)
(* ExecutionFillService._reconcile_pending_orders and the terminal order   *)
(* events of _drain_private_order_events.                                  *)
(***************************************************************************)
PendingOrder == IF row.ord # NoOrder THEN row.ord ELSE row.cl

ListedPending ==
    /\ DaemonFree
    /\ PendingOrder # NoOrder
    /\ row.status \in {"pending_open", "open", "reducing", "closing"}

\* The exchange has no such order and the intent is stale: no submission lasts
\* the five minutes of stale_after_seconds.
RecoverIntent ==
    /\ ListedPending
    /\ entryPc = "done" /\ flow.pc = "idle"
    /\ row.ord = NoOrder
    /\ book[row.cl].st \notin OnExchange
    /\ row' = RecoverClientOrderIntent(row, row.cl)
    /\ UNCHANGED <<links, alloc, rejected, exchange, threads>>

ReconcileOrder ==
    /\ ListedPending
    /\ book[PendingOrder].st \in OnExchange
    /\ LET o == PendingOrder
           r == IF row.ord = NoOrder THEN LinkExchangeOrder(row, o) ELSE row
       IN  /\ row' = IF book[o].st = "canceled" THEN RecoverTerminalOrder(r, o) ELSE r
           /\ links' = IF row.ord = NoOrder
                       THEN LinkExecutionOrder(links, o, row.action) ELSE links
    /\ UNCHANGED <<alloc, rejected, exchange, threads>>

-----------------------------------------------------------------------------
Init ==
    /\ row = PreparedRow
    /\ links = [o \in Order |-> "none"]
    /\ alloc = [f \in Fill |-> NoAlloc]
    /\ rejected = {}
    /\ book = [o \in Order |-> IF o = Entry THEN [st |-> "intent", left |-> EntrySize]
                               ELSE [st |-> "unused", left |-> 0]]
    /\ tape = <<>>
    /\ net = 0
    /\ entryPc = "submit"
    /\ flow = NoFlow
    /\ crashes = 0

IngestNext ==
    \E f \in Fill : \/ ApplyFill(f)
                    \/ DeferFill(f)
                    \/ RejectFill(f)
                    \/ RedeliverFill(f)
                    \/ CrashInIngest(f)

ExchangeNext ==
    \/ FillEntry
    \/ \E o \in Exits : FillExit(o)
    \/ \E o \in Order : CancelOrder(o)

EntryNext ==
    \/ SubmitEntry
    \/ EntryReplyEmpty
    \/ RecordEntrySubmission
    \/ \E o \in Exits : SubmitEmergencyClose(o)

ExitNext ==
    \/ \E o \in Exits, act \in ExitAct : RequestExit(o, act)
    \/ ClaimExit
    \/ CancelStopForExit
    \/ SubmitExit
    \/ ExitReplyEmpty
    \/ MarkRead
    \/ MarkSave

DaemonNext ==
    \/ RetryUnknownExit
    \/ ResolveUnknownExit
    \/ RetryEmergencyClose
    \/ RecoverIntent
    \/ ReconcileOrder

Next == IngestNext \/ ExchangeNext \/ EntryNext \/ ExitNext \/ DaemonNext \/ Crash

Spec == Init /\ [][Next]_vars

Deliver(f) == ApplyFill(f) \/ DeferFill(f) \/ RejectFill(f)

\* A request that started runs on; the daemon ticks for ever, and each REST poll
\* delivers the newest page of fills again.  Nothing makes a lookup succeed: the
\* exchange may answer each one with an error.
LiveSpec ==
    /\ Spec
    /\ WF_vars(EntryNext) /\ WF_vars(ClaimExit \/ CancelStopForExit)
    /\ WF_vars(SubmitExit \/ ExitReplyEmpty) /\ WF_vars(MarkRead \/ MarkSave)
    /\ \A f \in Fill : WF_vars(Deliver(f)) /\ WF_vars(RedeliverFill(f))

-----------------------------------------------------------------------------
(***************************************************************************)
(* Properties.                                                             *)
(***************************************************************************)
BookType == [st : {"unused", "intent"} \cup OnExchange, left : Nat]
ExecType == [ord : Order, qty : 1..EntrySize]
FlowType ==
    [pc : {"idle", "read", "stop", "submit", "mark", "save"},
     ord : Order, act : ExitAct, qty : Nat,
     onEmpty : {"release", "unknown", "retry"}, snap : RowType]

\* Every variable keeps its type; quantities never go below zero.
TypeOK ==
    /\ row \in RowType
    /\ links \in [Order -> Actions]
    /\ alloc \in [Fill -> AllocType]
    /\ rejected \subseteq Fill
    /\ book \in [Order -> BookType]
    /\ tape \in Seq(ExecType)
    /\ net \in Nat
    /\ entryPc \in {"submit", "link", "emergency", "done"}
    /\ flow \in FlowType
    /\ crashes \in 0..MaxCrash

\* The quantities of the row are those of its applied allocations: no fill is
\* counted twice, lost or applied half (record_allocation and
\* apply_deferred_allocations commit both together; replays, crashes, retries
\* and mark_pending_execution leave them alone).
LedgerConserved == Balanced(row, alloc)

\* The status is backed by the quantities: a failed unit holds nothing, a
\* closed one has nothing left, an open one has something to manage.
StatusMatchesQuantity ==
    /\ row.status \in {"pending_open", "failed"} => row.opened = 0
    /\ row.status = "closed" => row.remaining = 0
    /\ row.status \in {"open", "reducing"} => row.remaining > 0

\* An allocation moves the quantity in the direction its order traded: the
\* action inferred from links and metadata is never that of another order.
AllocationMatchesOrder ==
    \A f \in Fill : alloc[f].act # "none" =>
        /\ alloc[f].ord = tape[f].ord /\ alloc[f].qty = tape[f].qty
        /\ alloc[f].act = "open" <=> tape[f].ord = Entry

\* Once every executed fill is applied, the unit's remaining quantity is the
\* exchange's net position.
CaughtUpAgrees ==
    (\A f \in Executed : alloc[f].applied) => row.remaining = net

\* A unit that reached a final status keeps it, whatever arrives late.
FinalStatusIsFinal ==
    [][row.status \in {"closed", "failed"} => row'.status = row.status]_vars

\* What an exit of unknown acceptance executed is counted, though every lookup of its
\* order may fail: the unit keeps the client id through retries, failed lookups and
\* restarts, and the fill finds the unit by it.
UnknownExitIsCounted ==
    \A f \in Fill :
        (row.unknown /\ f \in Executed /\ tape[f].ord = row.cl) ~> alloc[f].applied

\* An exit fill that overtook the entry's fills is applied once they are,
\* although only a delivery of an entry fill looks at the deferred ones.
EntryAllocated ==
    /\ book[Entry].st = "filled"
    /\ \A f \in Executed : tape[f].ord = Entry => alloc[f].applied

DeferredIsApplied ==
    \A f \in Fill : (EntryAllocated /\ f \in Deferred(alloc)) ~> alloc[f].applied

-----------------------------------------------------------------------------
Unit == INSTANCE LogicalUnit WITH
    counted <- {f \in Fill : alloc[f].applied},
    quantity <- row.remaining,
    over <- row.status \in {"closed", "failed"}

\* The ledger implements the account of fills that exits, protection and risk
\* rely on: whatever is deferred, replayed, retried or cut short by a crash,
\* each step counts some executed fills once, in the direction of their order
\* and together with the quantity (ExecutionAllocationService.ingest,
\* record_allocation, apply_deferred_allocations, recover_terminal_order).
ImplementsUnit == Unit!Spec
=============================================================================
