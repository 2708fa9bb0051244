----------------------------- MODULE Protection -----------------------------
(***************************************************************************)
(* The protective stop of one open unit: PositionProtectionService         *)
(* (src/src/trading/position_protection.py) and its callers, the fill      *)
(* service (src/src/daemon/execution_fill_service.py), the exits of the    *)
(* position manager (src/src/daemon/position_manager_service.py), the      *)
(* operator's routes, and the start-up preflight                           *)
(* (src/src/runtime/live_preflight.py).                                    *)
(*                                                                         *)
(* Every operation of the service holds ENTRY_EXECUTION_LOCK, so that one  *)
(* call is in progress at a time; but the exchange moves between any two   *)
(* of its requests, and the daemon applies fills and links triggered stops *)
(* without the lock.  An exit's cancel frees the lock before the position  *)
(* manager closes the entries: an entry that waits for the lock runs in    *)
(* between, and only its own approval (AccountRiskGuard.approve_entry,     *)
(* src/src/trading/account_risk.py) looks at the stop then.  The unit is   *)
(* long, a stop is tighter the higher it is, and a fill is one contract:   *)
(* quantities beyond the stop's are PositionLedger's subject, and the unit *)
(* that an entry opens is another one.                                     *)
(***************************************************************************)
EXTENDS Integers

CONSTANTS
    Size,       \* contracts of the open unit
    Levels,     \* stop prices: 1..Levels
    MaxExits,   \* bound on software exits
    MaxAmends,  \* bound on the operator's requests and of amends
    MaxFaults   \* bound on failed requests, lost replies and crashes

ASSUME SizeAssumption == Size \in Nat \ {0} /\ Levels \in Nat \ {0}
ASSUME BoundAssumption == MaxExits \in Nat /\ MaxAmends \in Nat /\ MaxFaults \in Nat

\* The client ids of stops: the one attached to the entry, and _algo_client_id,
\* which is a hash of the unit's id.
StopId == {"att", "own"}
\* Orders that reduce the unit: software exits, and the orders of triggered stops.
Orders == StopId \cup {"exit"}
Price == 1..Levels
NoRule == 0

VARIABLES
    exPos,   \* the exchange's position
    algo,    \* the exchange's stops, by client id
    book,    \* the exchange's reduce-only orders
    unit,    \* the unit's row
    prot,    \* its row of logical_position_protections
    rule,    \* price of its enabled stop_loss condition, and the prices that the
             \* trailing and the break-even rules say they applied
    entries, \* new entries are enabled
    armed,   \* the process runs in an order-capable mode
    call,    \* the call that holds the lock, of a protection or an entry
    flow,    \* where the daemon stands
    count    \* exits, amends and faults so far

vars == <<exPos, algo, book, unit, prot, rule, entries, armed, call, flow, count>>
exchange == <<exPos, algo, book>>
store == <<unit, prot, rule, entries>>

NoStop == [st |-> "none", stop |-> NoRule, qty |-> 0]
NoOrder == [st |-> "none", left |-> 0, qty |-> 0, unseen |-> 0, seen |-> 0,
            act |-> "close", linked |-> FALSE]
NoProtection == [status |-> "none", id |-> "own", stop |-> NoRule, qty |-> 0,
                 trig |-> "none"]
NoCall == [op |-> "none", by |-> "api", why |-> "edit", pc |-> "idle", id |-> "own",
           stop |-> NoRule, qty |-> 0, old |-> NoRule]
Idle == [pc |-> "idle", canceled |-> FALSE]

Active == {"open", "reducing", "closing"}
LockFree == call.op = "none"
DaemonFree == flow.pc = "idle" /\ ~(call.by = "daemon" /\ ~LockFree)
CanFail == count.faults < MaxFaults
Fault == count' = [count EXCEPT !.faults = @ + 1]

\* _find_pending and _verify_for_kind on what the exchange reports.
Pending(i) == algo[i].st \in {"live", "canceling"}
Verified(i, stop, qty) == Pending(i) /\ algo[i].stop = stop /\ algo[i].qty = qty

-----------------------------------------------------------------------------
(***************************************************************************)
(* The exchange.  A canceled stop leaves the pending list some time after  *)
(* the cancel was accepted, and may still trigger before.  A slot of book  *)
(* is used again once its order ended and its fills were seen.             *)
(***************************************************************************)
CancelTakes(i) ==
    /\ algo[i].st = "canceling"
    /\ algo' = [algo EXCEPT ![i] = NoStop]
    /\ UNCHANGED <<exPos, book, store, armed, call, flow, count>>

Reusable(o) == book[o].st # "live" /\ book[o].unseen = 0

TriggerStop(i) ==
    /\ Pending(i) /\ exPos > 0 /\ Reusable(i)
    /\ algo' = [algo EXCEPT ![i] = NoStop]
    /\ book' = [book EXCEPT ![i] = [NoOrder EXCEPT !.st = "live", !.left = algo[i].qty,
                                                   !.qty = algo[i].qty]]
    /\ UNCHANGED <<exPos, store, armed, call, flow, count>>

\* Mutant: the orders are not reduce-only.
ExecuteOrderAnyway(o) ==
    /\ book[o].st = "live"
    /\ exPos' = exPos - 1
    /\ book' = [book EXCEPT ![o].left = @ - 1, ![o].unseen = @ + 1,
                            ![o].st = IF book[o].left = 1 THEN "filled" ELSE "live"]
    /\ UNCHANGED <<algo, store, armed, call, flow, count>>

ExecuteOrder(o) ==
    /\ book[o].st = "live"
    /\ IF exPos > 0
       THEN /\ exPos' = exPos - 1
            /\ book' = [book EXCEPT ![o].left = @ - 1, ![o].unseen = @ + 1,
                                    ![o].st = IF book[o].left = 1 THEN "filled" ELSE "live"]
       ELSE /\ book' = [book EXCEPT ![o].st = "canceled"]
            /\ UNCHANGED exPos
    /\ UNCHANGED <<algo, store, armed, call, flow, count>>

\* An order ends short of its size.
EndOrder(o) ==
    /\ book[o].st = "live"
    /\ CanFail /\ Fault
    /\ book' = [book EXCEPT ![o].st = "canceled"]
    /\ UNCHANGED <<exPos, algo, store, armed, call, flow>>

-----------------------------------------------------------------------------
(***************************************************************************)
(* amend_stop_condition: an edit or a break-even by the operator, or the   *)
(* trailing and break-even rules of the daemon.  Only the trailing rule    *)
(* compares its price with the stop in place.                              *)
(***************************************************************************)
AmendStart(by, why, stop) ==
    /\ armed /\ LockFree
    /\ by = "daemon" => DaemonFree /\ why # "edit"
    /\ why = "trail" => by = "daemon" /\ stop > rule.stop
    /\ count.amends < MaxAmends
    /\ unit.status \in Active /\ prot.status = "active" /\ rule.stop # NoRule
    /\ unit.remaining > 0 /\ prot.qty = unit.remaining
    /\ call' = [op |-> "amend", by |-> by, why |-> why, pc |-> "verify", id |-> prot.id,
                stop |-> stop, qty |-> prot.qty, old |-> prot.stop]
    /\ count' = [count EXCEPT !.amends = @ + 1]
    /\ UNCHANGED <<exchange, store, armed, flow>>

AmendVerify ==
    /\ call.op = "amend" /\ call.pc = "verify"
    /\ \/ /\ Verified(call.id, call.old, call.qty)
          /\ prot' = [prot EXCEPT !.status = "amending"]
          /\ call' = [call EXCEPT !.pc = "send"]
          /\ UNCHANGED count
       \/ /\ ~Verified(call.id, call.old, call.qty)
          /\ call' = NoCall
          /\ UNCHANGED <<prot, count>>
       \/ /\ CanFail /\ Fault
          /\ call' = NoCall
          /\ UNCHANGED prot
    /\ UNCHANGED <<exchange, unit, rule, entries, armed, flow>>

AmendedStop == [algo EXCEPT ![call.id].stop = call.stop, ![call.id].qty = call.qty]

\* The request is accepted, refused because the stop is gone, or its reply is lost.
AmendSend ==
    /\ call.op = "amend" /\ call.pc = "send"
    /\ \/ /\ Pending(call.id)
          /\ algo' = AmendedStop
          /\ call' = [call EXCEPT !.pc = "confirm"]
          /\ UNCHANGED count
       \/ /\ ~Pending(call.id)
          /\ call' = [call EXCEPT !.pc = "resolve"]
          /\ UNCHANGED <<algo, count>>
       \/ /\ CanFail /\ Fault
          /\ algo' \in {algo} \cup (IF Pending(call.id) THEN {AmendedStop} ELSE {})
          /\ call' = [call EXCEPT !.pc = "resolve"]
    /\ UNCHANGED <<exPos, book, store, armed, flow>>

AmendConfirm ==
    /\ call.op = "amend" /\ call.pc = "confirm"
    /\ \/ /\ call' = [call EXCEPT !.pc = IF Verified(call.id, call.stop, call.qty)
                                         THEN "publish" ELSE "resolve"]
          /\ UNCHANGED count
       \/ /\ CanFail /\ Fault
          /\ call' = [call EXCEPT !.pc = "resolve"]
    /\ UNCHANGED <<exchange, store, armed, flow>>

\* _fail_amend.
FailAmend ==
    /\ prot' = [prot EXCEPT !.status = "failed"]
    /\ entries' = FALSE
    /\ call' = NoCall
    /\ UNCHANGED rule

\* Mutant: a request that failed is taken for one that was not applied.
ResolveAmendUnchecked ==
    /\ call.op = "amend" /\ call.pc = "resolve"
    /\ prot' = [prot EXCEPT !.status = "active"]
    /\ call' = NoCall
    /\ UNCHANGED <<exchange, unit, rule, entries, armed, flow, count>>

\* _resolve_amend_error.
ResolveAmend ==
    /\ call.op = "amend" /\ call.pc = "resolve"
    /\ \/ /\ Verified(call.id, call.stop, call.qty)
          /\ call' = [call EXCEPT !.pc = "publish"]
          /\ UNCHANGED <<prot, rule, entries, count>>
       \/ /\ ~Verified(call.id, call.stop, call.qty) /\ Verified(call.id, call.old, call.qty)
          /\ prot' = [prot EXCEPT !.status = "active"]
          /\ call' = NoCall
          /\ UNCHANGED <<rule, entries, count>>
       \/ /\ ~Verified(call.id, call.stop, call.qty) /\ ~Verified(call.id, call.old, call.qty)
          /\ FailAmend
          /\ UNCHANGED count
       \/ /\ CanFail /\ Fault
          /\ FailAmend
    /\ UNCHANGED <<exchange, unit, armed, flow>>

\* The condition's new price, and the evidence of a break-even on it.
AmendedRule ==
    [rule EXCEPT !.stop = call.stop, !.even = IF call.why = "even" THEN call.stop ELSE @]

\* Condition and protection in one transaction, which may fail; then the audit
\* event, which may fail too.  The trailing rule notes its price at the end.
PublishAmend ==
    /\ call.op = "amend" /\ call.pc = "publish"
    /\ \/ /\ rule' = [AmendedRule EXCEPT !.trail = IF call.why = "trail" THEN call.stop ELSE @]
          /\ prot' = [prot EXCEPT !.status = "active", !.stop = call.stop]
          /\ call' = NoCall
          /\ UNCHANGED <<entries, count>>
       \/ /\ CanFail /\ Fault
          /\ FailAmend
       \/ /\ CanFail /\ Fault
          /\ rule' = AmendedRule
          /\ prot' = [prot EXCEPT !.status = "failed", !.stop = call.stop]
          /\ entries' = FALSE
          /\ call' = NoCall
    /\ UNCHANGED <<exchange, unit, armed, flow>>

-----------------------------------------------------------------------------
(***************************************************************************)
(* protect: the stop of the unit's rule is found, amended or placed, proven*)
(* pending, and only then recorded as active.                              *)
(***************************************************************************)
BeginProtect(by) ==
    call' = [NoCall EXCEPT !.op = "protect", !.by = by, !.pc = "balance",
                           !.qty = unit.remaining]

\* The operator's POST /positions/logical/{id}/protection.
OperatorProtect ==
    /\ armed /\ LockFree
    /\ unit.status \in Active
    /\ count.amends < MaxAmends
    /\ count' = [count EXCEPT !.amends = @ + 1]
    /\ BeginProtect("api")
    /\ UNCHANGED <<exchange, store, armed, flow>>

\* adopt_recovered_position writes the rule before it protects.
AdoptRecovered(stop) ==
    /\ armed /\ LockFree
    /\ unit.review /\ unit.status \in Active
    /\ count.amends < MaxAmends
    /\ count' = [count EXCEPT !.amends = @ + 1]
    /\ rule' = [rule EXCEPT !.stop = stop]
    /\ BeginProtect("adopt")
    /\ UNCHANGED <<exchange, unit, prot, entries, armed, flow>>

\* The generic rule routes create, change or delete the stop rule; they refuse to
\* touch the one of a protected unit (_protected_stop_mutation_blocked).  With a
\* deleted condition goes its break-even evidence, unless a break-even rule has it.
EditStopRule(stop) ==
    /\ LockFree
    /\ prot.status \in {"none", "canceled", "exhausted"}
    /\ count.amends < MaxAmends
    /\ count' = [count EXCEPT !.amends = @ + 1]
    /\ rule' \in {[rule EXCEPT !.stop = stop],
                 [rule EXCEPT !.stop = stop, !.even = IF stop = NoRule THEN NoRule ELSE @]}
    /\ UNCHANGED <<exchange, unit, prot, entries, armed, call, flow>>

\* _verify_persisted_stop_claims: a confirmed stop is not looser than what the
\* trailing and the break-even rules applied.
ClaimsHold(stop) == stop >= rule.trail /\ stop >= rule.even

\* _verify_active, when every request succeeds.
VerifyActive ==
    /\ prot.status = "active" /\ prot.qty = unit.remaining
    /\ Verified(prot.id, prot.stop, prot.qty)
    /\ rule.stop = prot.stop /\ ClaimsHold(prot.stop)

\* Mutant: a failed protection is left to the operator.
ReconcileSkipsFailed ==
    /\ DaemonFree /\ LockFree
    /\ unit.status = "open" /\ unit.remaining > 0
    /\ \/ /\ prot.status \in {"triggered", "failed"}
          /\ entries' = FALSE
          /\ UNCHANGED <<call, count>>
       \/ /\ armed /\ prot.status \notin {"triggered", "failed"}
          /\ ~VerifyActive /\ UNCHANGED count
          /\ BeginProtect("daemon")
          /\ UNCHANGED entries
    /\ UNCHANGED <<exchange, unit, prot, rule, armed, flow>>

\* _reconcile_owned_protections: a triggered stop of an open unit is an error; a
\* stop that is not proven is protected again.
ReconcileProtection ==
    /\ DaemonFree /\ LockFree
    /\ unit.status = "open" /\ unit.remaining > 0
    /\ \/ /\ prot.status = "triggered"
          /\ entries' = FALSE
          /\ UNCHANGED <<call, count>>
       \/ /\ armed /\ prot.status # "triggered"
          /\ \/ ~VerifyActive /\ UNCHANGED count
             \/ CanFail /\ Fault
          /\ BeginProtect("daemon")
          /\ UNCHANGED entries
    /\ UNCHANGED <<exchange, unit, prot, rule, armed, flow>>

\* _rearm_protection_if_needed and _restore_protection_after_failed_close.
Rearm ==
    /\ flow.pc = "rearm" /\ LockFree
    /\ BeginProtect("daemon")
    /\ flow' = Idle
    /\ UNCHANGED <<exchange, store, armed, count>>

\* protect raises: the daemon's callers disable entries.
ProtectError ==
    /\ call' = NoCall
    /\ entries' = (entries /\ call.by # "daemon")

\* Mutant: the rule's price is taken whatever stop was confirmed.
TargetStopOfRule == rule.stop

\* A confirmed stop is not loosened.
TargetStop ==
    IF prot.status = "active" /\ rule.stop < prot.stop THEN prot.stop ELSE rule.stop

AlgoClientId ==
    IF prot.status \in {"none", "canceled", "exhausted"} THEN "own" ELSE prot.id

Balanced == unit.status \in Active /\ exPos = unit.remaining /\ exPos > 0

ProtectBalance ==
    /\ call.op = "protect" /\ call.pc = "balance"
    /\ \/ /\ Balanced /\ rule.stop # NoRule
          /\ rule' = [rule EXCEPT !.stop = TargetStop]
          /\ call' = [call EXCEPT !.pc = "find", !.stop = TargetStop, !.id = AlgoClientId]
          /\ UNCHANGED <<entries, count>>
       \/ /\ ~(Balanced /\ rule.stop # NoRule)
          /\ ProtectError
          /\ UNCHANGED <<rule, count>>
       \/ /\ CanFail /\ Fault
          /\ ProtectError
          /\ UNCHANGED rule
    /\ UNCHANGED <<exchange, unit, prot, armed, flow>>

ProtectFind ==
    /\ call.op = "protect" /\ call.pc = "find"
    /\ \/ /\ call' = [call EXCEPT !.pc =
                         CASE Verified(call.id, call.stop, call.qty) -> "save"
                           [] ~Pending(call.id)                      -> "place"
                           [] OTHER                                  -> "amend"]
          /\ UNCHANGED <<entries, count>>
       \/ /\ CanFail /\ Fault
          /\ ProtectError
    /\ UNCHANGED <<exchange, unit, prot, rule, armed, flow>>

PlacedStop ==
    [algo EXCEPT ![call.id] = [st |-> "live", stop |-> call.stop, qty |-> call.qty]]

\* amend_position_stop or place_position_stop: accepted, refused, or its reply lost.
ProtectSend ==
    /\ call.op = "protect" /\ call.pc \in {"amend", "place"}
    /\ LET accepted == (call.pc = "amend") = Pending(call.id)
           done     == IF call.pc = "amend" THEN AmendedStop ELSE PlacedStop
       IN  \/ /\ accepted
              /\ algo' = done
              /\ call' = [call EXCEPT !.pc = "recheck"]
              /\ UNCHANGED <<entries, count>>
           \/ /\ ~accepted
              /\ ProtectError
              /\ UNCHANGED <<algo, count>>
           \/ /\ CanFail /\ Fault
              /\ algo' \in {algo} \cup (IF accepted THEN {done} ELSE {})
              /\ ProtectError
    /\ UNCHANGED <<exPos, book, unit, prot, rule, armed, flow>>

ProtectRecheck ==
    /\ call.op = "protect" /\ call.pc = "recheck"
    /\ \/ /\ Verified(call.id, call.stop, call.qty)
          /\ call' = [call EXCEPT !.pc = "save"]
          /\ UNCHANGED <<entries, count>>
       \/ /\ ~Verified(call.id, call.stop, call.qty)
          /\ ProtectError
          /\ UNCHANGED count
       \/ /\ CanFail /\ Fault
          /\ ProtectError
    /\ UNCHANGED <<exchange, unit, prot, rule, armed, flow>>

\* save_protection writes every column, then the claims are checked; adoption
\* clears the review at last.
ProtectSave ==
    /\ call.op = "protect" /\ call.pc = "save"
    /\ prot' = [status |-> "active", id |-> call.id, stop |-> call.stop,
                qty |-> call.qty, trig |-> "none"]
    /\ \/ /\ ClaimsHold(call.stop)
          /\ unit' = [unit EXCEPT !.review = @ /\ call.by # "adopt"]
          /\ call' = NoCall
          /\ UNCHANGED entries
       \/ /\ ~ClaimsHold(call.stop)
          /\ ProtectError
          /\ UNCHANGED unit
    /\ UNCHANGED <<exchange, rule, armed, flow, count>>

-----------------------------------------------------------------------------
(***************************************************************************)
(* A software exit (_handle_close_trigger) claims the unit, cancels the    *)
(* stop and proves it gone (cancel_for_close), then submits.               *)
(***************************************************************************)
ClaimExit(act, qty) ==
    /\ armed /\ DaemonFree
    /\ count.exits < MaxExits
    /\ unit.status = "open" /\ Reusable("exit")
    /\ IF act = "close" THEN qty = unit.remaining ELSE qty < unit.remaining
    /\ unit' = [unit EXCEPT !.status = IF act = "close" THEN "closing" ELSE "reducing",
                            !.ord = "none", !.cl = TRUE, !.unknown = FALSE]
    /\ book' = [book EXCEPT !["exit"] = [NoOrder EXCEPT !.st = "intent", !.left = qty,
                                                        !.qty = qty, !.act = act]]
    /\ flow' = [pc |-> "stop", canceled |-> FALSE]
    /\ count' = [count EXCEPT !.exits = @ + 1]
    /\ UNCHANGED <<exPos, algo, prot, rule, entries, armed, call>>

\* release_pending_execution.
Released == [unit EXCEPT !.status = "open", !.ord = "none", !.cl = FALSE]

\* cancel_for_close raises with the protection in status st, and frees the lock.
BlockExit(st) ==
    /\ prot' = [prot EXCEPT !.status = st]
    /\ flow' = [flow EXCEPT !.pc = "blocked"]
    /\ call' = NoCall

CancelBegin ==
    /\ flow.pc = "stop" /\ LockFree
    /\ \/ /\ prot.status \in {"none", "canceled", "exhausted"}
          /\ flow' = [flow EXCEPT !.pc = "submit"]
          /\ UNCHANGED <<prot, call, count>>
       \/ /\ prot.status = "active" /\ Verified(prot.id, prot.stop, prot.qty)
          /\ prot' = [prot EXCEPT !.status = "canceling"]
          /\ call' = [NoCall EXCEPT !.op = "cancel", !.by = "daemon", !.pc = "send",
                                    !.id = prot.id]
          /\ UNCHANGED <<flow, count>>
       \/ /\ prot.status \notin {"none", "canceled", "exhausted"}
          /\ prot.status = "active" => ~Verified(prot.id, prot.stop, prot.qty)
          /\ BlockExit(prot.status)
          /\ UNCHANGED count
       \/ /\ prot.status = "active" /\ CanFail /\ Fault
          /\ BlockExit(prot.status)
    /\ UNCHANGED <<exchange, unit, rule, entries, armed>>

CanceledStop == [algo EXCEPT ![call.id].st = "canceling"]

\* cancel_position_stop: an error leaves its outcome unknown.
CancelSend ==
    /\ call.op = "cancel" /\ call.pc = "send"
    /\ \/ /\ Pending(call.id)
          /\ algo' = CanceledStop
          /\ call' = [call EXCEPT !.pc = "poll"]
          /\ UNCHANGED <<prot, flow, count>>
       \/ /\ ~Pending(call.id)
          /\ BlockExit("failed")
          /\ UNCHANGED <<algo, count>>
       \/ /\ CanFail /\ Fault
          /\ algo' \in {algo} \cup (IF Pending(call.id) THEN {CanceledStop} ELSE {})
          /\ BlockExit("failed")
    /\ UNCHANGED <<exPos, book, unit, rule, entries, armed>>

\* Five polls of the pending list; the lock is free once the stop is proven gone.
CancelPoll ==
    /\ call.op = "cancel" /\ call.pc = "poll"
    /\ \/ /\ ~Pending(call.id)
          /\ prot' = [prot EXCEPT !.status = "canceled"]
          /\ flow' = [pc |-> "disable", canceled |-> TRUE]
          /\ call' = NoCall
          /\ UNCHANGED count
       \/ /\ Pending(call.id)
          /\ BlockExit("active")
          /\ UNCHANGED count
       \/ /\ CanFail /\ Fault
          /\ BlockExit("failed")
    /\ UNCHANGED <<exchange, unit, rule, entries, armed>>

\* The caller of cancel_for_close, without the lock: the claim is given back ...
ReleaseExit ==
    /\ flow.pc = "blocked"
    /\ unit' = Released
    /\ flow' = [flow EXCEPT !.pc = "reread"]
    /\ UNCHANGED <<exchange, prot, rule, entries, armed, call, count>>

\* ... the protection is read again ...
RereadProtection ==
    /\ flow.pc = "reread"
    /\ flow' = IF prot.status \in {"canceling", "failed"}
               THEN [flow EXCEPT !.pc = "disable"] ELSE Idle
    /\ UNCHANGED <<exchange, store, armed, call, count>>

\* ... and the entries are closed, as they are before an exit whose stop is canceled.
DisableEntries ==
    /\ flow.pc = "disable"
    /\ entries' = FALSE
    /\ flow' = IF flow.canceled THEN [flow EXCEPT !.pc = "submit"] ELSE Idle
    /\ UNCHANGED <<exchange, unit, prot, rule, armed, call, count>>

AcceptExit == [book EXCEPT !["exit"].st = IF @ = "intent" THEN "live" ELSE @]

\* The reply names the order; or it is empty, and the order may have been
\* accepted: the exit is retried if its stop was canceled, else released.
SubmitExit ==
    /\ flow.pc = "submit"
    /\ flow' = Idle
    /\ \/ /\ book' = [AcceptExit EXCEPT !["exit"].linked = TRUE]
          /\ unit' = [unit EXCEPT !.ord = "exit"]
          /\ UNCHANGED count
       \/ /\ CanFail /\ Fault
          /\ book' \in {book, AcceptExit}
          /\ unit' = IF flow.canceled THEN [unit EXCEPT !.unknown = TRUE] ELSE Released
    /\ UNCHANGED <<exPos, algo, prot, rule, entries, armed, call>>

\* _retry_unknown_closes sends the same client id again, or gives up once the
\* order is proven missing and restores the stop.
RetryExit ==
    /\ DaemonFree /\ armed
    /\ unit.status \in {"closing", "reducing"} /\ unit.unknown /\ unit.ord = "none"
    /\ \/ /\ book' = [AcceptExit EXCEPT !["exit"].linked = TRUE]
          /\ unit' = [unit EXCEPT !.ord = "exit", !.unknown = FALSE]
          /\ UNCHANGED flow
       \/ /\ book["exit"].st = "intent"
          /\ unit' = [Released EXCEPT !.unknown = FALSE]
          /\ flow' = [Idle EXCEPT !.pc = "rearm"]
          /\ UNCHANGED book
    /\ UNCHANGED <<exPos, algo, prot, rule, entries, armed, call, count>>

-----------------------------------------------------------------------------
(***************************************************************************)
(* The daemon applies what the exchange reports, without the lock.         *)
(***************************************************************************)
\* _link_protection_trigger: the order of a stop belongs to the unit whose
\* protection has its client id.
TriggersOwned(o) == o \in StopId /\ prot.status # "none" /\ prot.id = o
Matched(o) == book[o].linked \/ TriggersOwned(o) \/ (o = "exit" /\ unit.cl)

LinkedUnit(o) ==
    IF book[o].linked THEN unit
    ELSE IF o = "exit" THEN [unit EXCEPT !.ord = o, !.unknown = FALSE]
    ELSE IF unit.status \in {"open", "reducing"}
    THEN [unit EXCEPT !.status = "closing", !.ord = o, !.cl = FALSE, !.unknown = FALSE]
    ELSE unit

LinkedProtection(o) ==
    IF book[o].linked \/ o = "exit" THEN prot
    ELSE [prot EXCEPT !.status = "triggered", !.trig = o]

\* The allocation of one contract of order o.
ReduceIncomplete(o) == book[o].act = "reduce" /\ book[o].seen + 1 < book[o].qty

StatusAfterFill(o, left) ==
    CASE left = 0                 -> "closed"
      [] book[o].act = "close"    -> "closing"
      [] ReduceIncomplete(o)      -> "reducing"
      [] OTHER                    -> "open"

FilledUnit(o, u) ==
    LET st == StatusAfterFill(o, u.remaining - 1)
        r  == [u EXCEPT !.remaining = @ - 1, !.status = st]
    IN  IF u.remaining = 0 THEN u
        ELSE IF u.ord = o /\ st \in {"closed", "open"}
        THEN [r EXCEPT !.ord = "none", !.cl = FALSE, !.unknown = FALSE]
        ELSE r

FilledProtection(o, u, p) ==
    IF p.status = "none" THEN p
    ELSE IF u.status = "closed" /\ p.status \in {"canceled", "triggered"}
    THEN [p EXCEPT !.status = "exhausted"]
    ELSE IF p.trig = o THEN [p EXCEPT !.status = "triggered"] ELSE p

NeedsRearm(u, p) ==
    armed /\ u.status = "open" /\ p.status \in {"canceled", "triggered"}

\* Of an order that ended only its state matters once its fills were seen.
SeenFill(o, linked) ==
    LET b == [book[o] EXCEPT !.unseen = @ - 1, !.seen = @ + 1, !.linked = linked]
    IN  [book EXCEPT ![o] = IF b.st = "live" \/ b.unseen > 0 THEN b
                            ELSE [NoOrder EXCEPT !.st = b.st]]

IngestFill(o) ==
    /\ DaemonFree
    /\ book[o].unseen > 0
    /\ book' = SeenFill(o, Matched(o))
    /\ IF Matched(o)
       THEN LET u == FilledUnit(o, LinkedUnit(o))
                p == FilledProtection(o, u, LinkedProtection(o))
            IN  /\ unit' = u
                /\ prot' = p
                /\ flow' = IF NeedsRearm(u, p) THEN [Idle EXCEPT !.pc = "rearm"] ELSE flow
       ELSE UNCHANGED <<unit, prot, flow>>
    /\ UNCHANGED <<exPos, algo, rule, entries, armed, call, count>>

\* _recover_terminal_order: the unit's order ended short of its size.
RecoverTerminalOrder(o) ==
    /\ DaemonFree
    /\ unit.ord = o /\ book[o].st = "canceled" /\ unit.status \in Active
    /\ LET u == [unit EXCEPT !.status = IF @ = "open" THEN @
                                        ELSE IF unit.remaining = 0 THEN "closed" ELSE "open",
                             !.ord = "none", !.cl = FALSE, !.unknown = FALSE]
       IN  /\ unit' = u
           /\ flow' = IF NeedsRearm(u, prot) THEN [Idle EXCEPT !.pc = "rearm"] ELSE flow
    /\ UNCHANGED <<exchange, prot, rule, entries, armed, call, count>>

\* The client id of an exit is looked up: its order is linked, or the exchange
\* never had it and the unit is given back.
RecoverExitIntent ==
    /\ DaemonFree
    /\ unit.cl /\ unit.ord = "none" /\ unit.status \in {"closing", "reducing"}
    /\ LET u == [Released EXCEPT !.unknown = FALSE]
       IN  IF book["exit"].st # "intent"
           THEN /\ unit' = [unit EXCEPT !.ord = "exit", !.unknown = FALSE]
                /\ book' = [book EXCEPT !["exit"].linked = TRUE]
                /\ UNCHANGED flow
           ELSE /\ unit' = u
                /\ flow' = IF NeedsRearm(u, prot) THEN [Idle EXCEPT !.pc = "rearm"] ELSE flow
                /\ UNCHANGED book
    /\ UNCHANGED <<exPos, algo, prot, rule, entries, armed, call, count>>

\* _track_protection_gaps, at the end of every tick.
TrackProtectionGap ==
    /\ DaemonFree
    /\ unit.status \in Active /\ unit.remaining > 0
    /\ prot.status # "active"
    /\ entries' = FALSE
    /\ UNCHANGED <<exchange, unit, prot, rule, armed, call, flow, count>>

-----------------------------------------------------------------------------
(***************************************************************************)
(* An entry of another unit, by a strategy or an operator, holds the lock  *)
(* from its approval to its order.  The approval reads the entries flag    *)
(* and the exchange's positions, then the active units, then the stop of   *)
(* each of them.                                                           *)
(***************************************************************************)
EntryBegin ==
    /\ armed /\ LockFree /\ entries
    /\ call' = [NoCall EXCEPT !.op = "entry", !.pc = "units", !.qty = exPos]
    /\ UNCHANGED <<exchange, store, armed, flow, count>>

\* reconcile_account: the position is that of the active units.
EntryUnits ==
    /\ call.op = "entry" /\ call.pc = "units"
    /\ \/ /\ unit.status \in Active /\ unit.remaining = call.qty
          /\ call' = [call EXCEPT !.pc = "stop"]
       \/ /\ unit.status \notin Active /\ call.qty = 0
          /\ call' = [call EXCEPT !.pc = "send"]
    /\ UNCHANGED <<exchange, store, armed, flow, count>>

\* Mutant: a stop that is pending as recorded will do, whatever its record says.
EntryStopPending ==
    /\ call.op = "entry" /\ call.pc = "stop"
    /\ prot.status # "none" /\ prot.qty = call.qty
    /\ Verified(prot.id, prot.stop, prot.qty)
    /\ call' = [call EXCEPT !.pc = "send"]
    /\ UNCHANGED <<exchange, store, armed, flow, count>>

\* _position_worst_case_loss: recorded as active, of the unit's size, and pending.
EntryStop ==
    /\ call.op = "entry" /\ call.pc = "stop"
    /\ prot.status = "active" /\ prot.qty = call.qty
    /\ Verified(prot.id, prot.stop, prot.qty)
    /\ call' = [call EXCEPT !.pc = "send"]
    /\ UNCHANGED <<exchange, store, armed, flow, count>>

\* The order is sent, and closes the entries when its own stop cannot be verified;
\* or any check of the approval refused it.
EntryEnd ==
    /\ call.op = "entry"
    /\ call' = NoCall
    /\ entries' \in {entries} \cup (IF call.pc = "send" THEN {FALSE} ELSE {})
    /\ UNCHANGED <<exchange, unit, prot, rule, armed, flow, count>>

-----------------------------------------------------------------------------
(***************************************************************************)
(* The process.  Start-up in an order-capable mode runs the preflight,     *)
(* which recovers a completely filled triggered stop, then requires the    *)
(* exposure to reconcile and the stop of every active unit to be proven.   *)
(* While it is not armed the process is down or runs in Live Safe, which   *)
(* has no preflight of stops, applies fills and never changes an order.    *)
(***************************************************************************)
Crash ==
    /\ armed
    /\ CanFail /\ Fault
    /\ armed' = FALSE
    /\ call' = NoCall
    /\ flow' = Idle
    /\ UNCHANGED <<exchange, store>>

\* The operator's enable_entries, which asks nothing of the stops.
EnableEntries ==
    /\ armed /\ LockFree
    /\ count.amends < MaxAmends
    /\ count' = [count EXCEPT !.amends = @ + 1]
    /\ entries' = TRUE
    /\ UNCHANGED <<exchange, unit, prot, rule, armed, call, flow>>

\* _recover_triggered_protection_fills: the first fill of an order links it, and
\* its other fills are then skipped.
RecoversTrigger ==
    LET o == prot.id
    IN  /\ prot.status \in {"active", "triggered"}
        /\ unit.status \in Active
        /\ book[o].st = "filled" /\ book[o].unseen > 0 /\ ~book[o].linked

PreflightPasses ==
    IF unit.status \in Active THEN Balanced /\ VerifyActive ELSE exPos = 0

RecoverAtStartup ==
    /\ ~armed /\ RecoversTrigger
    /\ LET o == prot.id
           u == FilledUnit(o, LinkedUnit(o))
       IN  /\ unit' = u
           /\ prot' = FilledProtection(o, u, LinkedProtection(o))
           /\ book' = SeenFill(o, TRUE)
    /\ entries' = FALSE
    /\ UNCHANGED <<exPos, algo, rule, armed, call, flow, count>>

StartArmed ==
    /\ ~armed /\ ~RecoversTrigger
    /\ PreflightPasses
    /\ armed' = TRUE
    /\ entries' = FALSE
    /\ UNCHANGED <<exchange, unit, prot, rule, call, flow, count>>

-----------------------------------------------------------------------------
\* A unit opened by a strategy, its attached stop recorded, perhaps already moved by
\* a trailing rule; or one recovered from exposure nobody explains, such as an entry
\* whose reply was lost: its attached stop may be live, and the operator may have
\* given it a stop rule.
OpenUnit(review) ==
    [status |-> "open", remaining |-> Size, ord |-> "none", cl |-> FALSE,
     unknown |-> FALSE, review |-> review]

Rule(stop) == [stop |-> stop, trail |-> NoRule, even |-> NoRule]

Init ==
    /\ exPos = Size
    /\ book = [o \in Orders |-> NoOrder]
    /\ \E s \in Price, st \in {"live", "none"} :
          /\ algo = [i \in StopId |->
                        IF i = "att" /\ st = "live"
                        THEN [st |-> st, stop |-> s, qty |-> Size] ELSE NoStop]
          /\ \/ /\ st = "live"
                /\ unit = OpenUnit(FALSE)
                /\ rule \in {Rule(s), [Rule(s) EXCEPT !.trail = s]}
                /\ prot = [status |-> "active", id |-> "att", stop |-> s, qty |-> Size,
                           trig |-> "none"]
             \/ /\ unit = OpenUnit(TRUE)
                /\ rule \in {Rule(s), Rule(NoRule)}
                /\ prot = NoProtection
    /\ entries = TRUE
    /\ armed = TRUE
    /\ call = NoCall
    /\ flow = Idle
    /\ count = [exits |-> 0, amends |-> 0, faults |-> 0]

Exchange ==
    \/ \E i \in StopId : CancelTakes(i) \/ TriggerStop(i)
    \/ \E o \in Orders : ExecuteOrder(o) \/ EndOrder(o)

Amend ==
    \/ \E by \in {"api", "daemon"}, why \in {"edit", "even", "trail"}, s \in Price :
          AmendStart(by, why, s)
    \/ AmendVerify \/ AmendSend \/ AmendConfirm \/ ResolveAmend \/ PublishAmend

Protect ==
    \/ OperatorProtect
    \/ \E s \in Price : AdoptRecovered(s)
    \/ \E s \in Price \cup {NoRule} : EditStopRule(s)
    \/ ReconcileProtection \/ Rearm
    \/ ProtectBalance \/ ProtectFind \/ ProtectSend \/ ProtectRecheck \/ ProtectSave

Exit ==
    \/ \E act \in {"close", "reduce"}, q \in 1..Size : ClaimExit(act, q)
    \/ CancelBegin \/ CancelSend \/ CancelPoll
    \/ ReleaseExit \/ RereadProtection \/ DisableEntries
    \/ SubmitExit \/ RetryExit

Daemon ==
    \/ \E o \in Orders : IngestFill(o) \/ RecoverTerminalOrder(o)
    \/ RecoverExitIntent \/ TrackProtectionGap

EntryCall == EntryBegin \/ EntryUnits \/ EntryStop \/ EntryEnd

Process == EnableEntries \/ Crash \/ RecoverAtStartup \/ StartArmed

Next == Exchange \/ Amend \/ Protect \/ Exit \/ Daemon \/ EntryCall \/ Process

Spec == Init /\ [][Next]_vars

(***************************************************************************)
(* Fairness.  The exchange executes market orders and completes cancels; a *)
(* call that holds the lock goes on, and so does the daemon's exit; the    *)
(* daemon's thread gets the lock it waits for, however many entries take   *)
(* it in between (strong fairness); the armed daemon ticks every second,   *)
(* and every tick runs all of its parts; an operator or a supervisor tries *)
(* again and again to start a process that is down.                        *)
(***************************************************************************)
CallStep ==
    \/ AmendVerify \/ AmendSend \/ AmendConfirm \/ ResolveAmend \/ PublishAmend
    \/ ProtectBalance \/ ProtectFind \/ ProtectSend \/ ProtectRecheck \/ ProtectSave
    \/ CancelSend \/ CancelPoll
    \/ EntryUnits \/ EntryStop \/ EntryEnd

ExitProceeds == ReleaseExit \/ RereadProtection \/ DisableEntries \/ SubmitExit

Fairness ==
    /\ \A i \in StopId : WF_vars(CancelTakes(i))
    /\ \A o \in Orders : WF_vars(ExecuteOrder(o))
    /\ WF_vars(CallStep) /\ WF_vars(ExitProceeds)
    /\ SF_vars(CancelBegin) /\ SF_vars(Rearm)
    /\ \A o \in Orders : /\ WF_vars(armed /\ IngestFill(o))
                         /\ WF_vars(armed /\ RecoverTerminalOrder(o))
    /\ WF_vars(armed /\ RecoverExitIntent)
    /\ WF_vars(RetryExit)
    /\ SF_vars(armed /\ ReconcileProtection)
    /\ WF_vars(RecoverAtStartup)
    /\ SF_vars(StartArmed)

FairSpec == Spec /\ Fairness

-----------------------------------------------------------------------------
ProtectionStatus ==
    {"none", "active", "amending", "canceling", "canceled", "triggered",
     "exhausted", "failed"}

\* Types of the store's rows, the exchange's records and the calls.
TypeOK ==
    /\ exPos \in 0..Size
    /\ algo \in [StopId -> [st : {"none", "live", "canceling"},
                            stop : Price \cup {NoRule}, qty : 0..Size]]
    /\ book \in [Orders -> [st : {"none", "intent", "live", "filled", "canceled"},
                            left : 0..Size, qty : 0..Size, unseen : 0..Size,
                            seen : 0..Size, act : {"close", "reduce"}, linked : BOOLEAN]]
    /\ unit \in [status : Active \cup {"closed"}, remaining : 0..Size,
                 ord : Orders \cup {"none"}, cl : BOOLEAN, unknown : BOOLEAN,
                 review : BOOLEAN]
    /\ prot \in [status : ProtectionStatus, id : StopId, stop : Price \cup {NoRule},
                 qty : 0..Size, trig : StopId \cup {"none"}]
    /\ rule \in [stop : Price \cup {NoRule}, trail : Price \cup {NoRule},
                 even : Price \cup {NoRule}]
    /\ entries \in BOOLEAN
    /\ armed \in BOOLEAN

\* What the record says of a pending stop is never better than the stop: while no
\* call is in progress, a stop recorded as active is at least as tight as recorded
\* and large enough for what remains of the unit, whatever was lost or crashed
\* between the exchange and the store.
RecordedStopCovers ==
    LockFree /\ prot.status = "active" /\ unit.status \in Active /\ Pending(prot.id) =>
        /\ algo[prot.id].stop >= prot.stop
        /\ algo[prot.id].qty >= unit.remaining

\* Repairing a protection never loosens the stop that was confirmed, also when the
\* rule was changed or restored to a looser price meanwhile.
ConfirmedStopKept ==
    [][call.op = "protect" /\ prot.status = "active" => prot'.stop >= prot.stop]_vars

\* No order of an entry goes out beside a unit whose stop is uncertain or canceled
\* for an exit, although the entries are closed only after the lock was free: the
\* approval looked at the record of the stop, and only a trigger, which the daemon
\* links without the lock, changes that before the order.
EntriesMeetProvenStops ==
    call.op = "entry" /\ call.pc = "send" /\ unit.status \in Active =>
        prot.status \in {"active", "triggered"}

\* A unit the exchange agrees with, whose stop did not trigger, and that has a stop
\* rule not looser than what its trailing and break-even rules applied.
Repairable ==
    /\ armed /\ unit.status = "open" /\ Balanced /\ rule.stop # NoRule
    /\ prot.status # "triggered" /\ ClaimsHold(rule.stop)

\* An open unit does not stay without a proven stop: after a failed cancel or
\* amend, a lost reply, an exit that ended short or a rule edit, the daemon
\* places, amends or records the stop until _verify_active holds.
GapIsRepaired == []<>(Repairable => VerifyActive)
=============================================================================
