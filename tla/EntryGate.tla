----------------------------- MODULE EntryGate ------------------------------
(***************************************************************************)
(* The gate that every entry order passes: the process-local flags of      *)
(* src/src/exchange/client.py and the persisted switch and limits of       *)
(* src/src/trading/account_risk.py.  Three threads of a process meet here: *)
(* the daemon, which ticks its services one after the other (strategy      *)
(* entries, and the services that close the gate when they lose track of   *)
(* an order or a stop), an API thread that opens a position by hand, and   *)
(* an API thread with the operator's commands                              *)
(* (src/src/trading/entry_control.py).  Whoever enters, enables, kills or  *)
(* changes the limits holds ENTRY_EXECUTION_LOCK; the services do not.     *)
(*                                                                         *)
(* A database write may fail at any time.  The exchange has taken or       *)
(* refused a request by the time the client gives up on it or dies.        *)
(***************************************************************************)
EXTENDS RuntimeLease

CONSTANTS
    Unit,       \* entries attempted in a run
    Active      \* the processes whose threads run; the others only start and
                \* stop, which is all that the first see of them

ASSUME ActiveAssumption == Active \subseteq Process
ASSUME VersionAssumption == Version # {}
ASSUME UnitAssumption == Nobody \notin Unit \cup {"daemon", "manual", "operator"}

VARIABLES
    pc,         \* where each thread of each process stands
    holder,     \* the thread holding ENTRY_EXECUTION_LOCK
    entering,   \* the unit a thread is opening
    approved,   \* the limits that the approval in use was given under
    unit,       \* the unit's row: its status, file, order id and cancel mark
    order,      \* the unit's order on the exchange
    toCancel,   \* units that a kill has still to look at
    unresolved, \* the kill in progress has found an order it cannot cancel
    shut,       \* history: the gate was closed after the last enabling began
    killed      \* history: a kill has returned and no enabling has begun

threadVars == <<pc, holder, entering, approved, unit, order, toCancel,
                unresolved, shut, killed>>
vars == <<leaseVars, threadVars>>

Thread == {"daemon", "manual", "operator"}
EntryThread == {"daemon", "manual"}
NoUnit == Nobody

EntryPc == {"waiting", "approving", "sending", "placing", "verifying",
            "recording", "failRow", "failFlag"}
GatePc == {"enableFlag", "enableRow", "undoFlag", "undoRow", "killFlag",
           "killRow", "killCancel", "disableRow", "disableFlag", "amendFlag",
           "amendRow"}
Pc == {"idle"} \cup EntryPc \cup GatePc

UnitRow == [status : {"none", "pending_open", "failed", "open"},
            file : Database, linked : BOOLEAN, cancelRequested : BOOLEAN]
OrderState == {"none", "live", "filled", "canceled"}

TypeOK ==
    /\ LeaseTypeOK
    /\ pc \in [Process -> [Thread -> Pc]]
    /\ holder \in [Process -> Thread \cup {Nobody}]
    /\ entering \in [Process -> [EntryThread -> Unit \cup {NoUnit}]]
    /\ approved \in [Process -> Version]
    /\ unit \in [Unit -> UnitRow]
    /\ order \in [Unit -> OrderState]
    /\ toCancel \in [Process -> SUBSET Unit]
    /\ unresolved \in [Process -> BOOLEAN]
    /\ shut \in [Process -> BOOLEAN]
    /\ killed \in [Process -> BOOLEAN]

Idle == [t \in Thread |-> "idle"]

Init ==
    /\ LeaseInit
    /\ pc = [p \in Process |-> Idle]
    /\ holder = [p \in Process |-> Nobody]
    /\ entering = [p \in Process |-> [t \in EntryThread |-> NoUnit]]
    /\ approved \in [Process -> {CHOOSE v \in Version : TRUE}]
    /\ \E d \in Database :
          unit = [u \in Unit |-> [status |-> "none", file |-> d,
                                  linked |-> FALSE, cancelRequested |-> FALSE]]
    /\ order = [u \in Unit |-> "none"]
    /\ toCancel = [p \in Process |-> {}]
    /\ unresolved = [p \in Process |-> FALSE]
    /\ shut = [p \in Process |-> TRUE]
    /\ killed = [p \in Process |-> FALSE]

-----------------------------------------------------------------------------
Goto(p, t, label) == pc' = [pc EXCEPT ![p][t] = label]

At(p, t, label) == phase[p] = "serving" /\ pc[p][t] = label

Row(p) == entriesRow[database[p]]
SetRow(p, b) == entriesRow' = [entriesRow EXCEPT ![database[p]] = b]
SetFlag(p, b) == entryFlag' = [entryFlag EXCEPT ![p] = b]

\* entry_order_placement_enabled.
FlagsOpen(p) == armed[p] /\ entryFlag[p]
GateOpen(p) == FlagsOpen(p) /\ Row(p)

Lock(p, t) == holder[p] = Nobody /\ holder' = [holder EXCEPT ![p] = t]
Unlock(p) == holder' = [holder EXCEPT ![p] = Nobody]

Shut(p) == shut' = [shut EXCEPT ![p] = TRUE]
Opening(p) ==
    /\ shut' = [shut EXCEPT ![p] = FALSE]
    /\ killed' = [killed EXCEPT ![p] = FALSE]

lease == <<phase, mode, database, passed, databaseLock, accountLock, armed>>
gate == <<entryFlag, entriesRow, limits>>
entries == <<entering, approved, unit, order>>
killing == <<toCancel, unresolved, killed>>

Fresh(u) == unit[u].status = "none"
Save(p, u) == unit' = [unit EXCEPT ![u].status = "pending_open",
                                   ![u].file = database[p]]

\* recover_client_order_intent and mark_trade_failed, then the lock is left.
Abandon(p, t) ==
    /\ Goto(p, t, "idle")
    /\ Unlock(p)
    /\ unit' = [u \in Unit |-> IF u = entering[p][t]
                               THEN [unit[u] EXCEPT !.status = "failed"]
                               ELSE unit[u]]
    /\ entering' = [entering EXCEPT ![p][t] = NoUnit]

-----------------------------------------------------------------------------
(* Entries. *)

\* manual_open_position saves the unit before it takes the lock.
OpenManually(p, u) ==
    /\ At(p, "manual", "idle") /\ Fresh(u)
    /\ mode[p] = "demo" \/ (mode[p] = "live_armed" /\ FlagsOpen(p))
    /\ Save(p, u)
    /\ entering' = [entering EXCEPT ![p]["manual"] = u]
    /\ Goto(p, "manual", "waiting")
    /\ UNCHANGED <<lease, gate, holder, approved, order, killing, shut>>

\* StrategyService._process_match; the service runs only where the preflight
\* passed.
MatchStrategy(p) ==
    /\ At(p, "daemon", "idle")
    /\ SubmitsOrders(mode[p]) /\ passed[p]
    /\ Lock(p, "daemon")
    /\ Goto(p, "daemon", "approving")
    /\ UNCHANGED <<lease, gate, entries, killing, shut>>

EnterLock(p) ==
    /\ At(p, "manual", "waiting")
    /\ Lock(p, "manual")
    /\ Goto(p, "manual", "approving")
    /\ UNCHANGED <<lease, gate, entries, killing, shut>>

\* AccountRiskGuard.approve_entry: the limits and the switch it reads; the
\* envelope it computes from the account and its positions is left out.
MayApprove(p) == limits[database[p]] \in Version /\ Row(p)

Approve(p, t) ==
    /\ At(p, t, "approving") /\ MayApprove(p)
    /\ approved' = [approved EXCEPT ![p] = limits[database[p]]]
    /\ Goto(p, t, "sending")
    /\ IF t = "daemon"
       THEN \E u \in Unit : /\ Fresh(u) /\ Save(p, u)
                            /\ entering' = [entering EXCEPT ![p][t] = u]
       ELSE UNCHANGED <<unit, entering>>
    /\ UNCHANGED <<lease, gate, holder, order, killing, shut>>

\* The approval is refused, or the daemon cannot save the unit.
Blocked(p, t) ==
    /\ At(p, t, "approving")
    /\ Abandon(p, t)
    /\ UNCHANGED <<lease, gate, approved, order, killing, shut>>

\* Executor.execute, up to the guards of place_limit_order.  The approval is
\* used up; a size or price that cannot be normalised ends it here.
CheckFlags(p, t) ==
    /\ At(p, t, "sending")
    /\ \/ /\ FlagsOpen(p)
          /\ Goto(p, t, "placing")
          /\ UNCHANGED <<holder, unit, entering>>
       \/ Abandon(p, t)
    /\ UNCHANGED <<lease, gate, approved, order, killing, shut>>

\* The exchange takes the order and its answer arrives.
Accept(p, t) ==
    /\ At(p, t, "placing")
    /\ order' = [order EXCEPT ![entering[p][t]] = "live"]
    /\ Goto(p, t, "verifying")
    /\ UNCHANGED <<lease, gate, holder, entering, approved, unit, killing, shut>>

\* It refuses it, or the answer is lost: execute returns nothing either way.
NoAnswer(p, t) ==
    /\ At(p, t, "placing")
    /\ order' \in {order, [order EXCEPT ![entering[p][t]] = "live"]}
    /\ Abandon(p, t)
    /\ UNCHANGED <<lease, gate, approved, killing, shut>>

\* A fill-or-kill order does one or the other.
FillOrKill(u) ==
    /\ order[u] = "live"
    /\ order' \in {[order EXCEPT ![u] = s] : s \in {"filled", "canceled"}}
    /\ UNCHANGED <<leaseVars, pc, holder, entering, approved, unit, killing, shut>>

\* Attached protection verified: the submission is recorded.
Verify(p, t) ==
    /\ At(p, t, "verifying") /\ order[entering[p][t]] = "filled"
    /\ Goto(p, t, "recording")
    /\ UNCHANGED <<lease, gate, holder, entries, killing, shut>>

\* Not verified.  An order that may have filled closes the gate; one that is
\* seen live or canceled does not.  seen: "" when the order could not be read.
VerifyFails(p, t) ==
    /\ At(p, t, "verifying")
    /\ \E seen \in {"", order[entering[p][t]]} :
          Goto(p, t, IF seen \in {"", "filled"} THEN "failRow" ELSE "recording")
    /\ UNCHANGED <<lease, gate, holder, entries, killing, shut>>

\* An exception of the store leaves execute with nothing to return.
CloseRowAfterFailure(p, t) ==
    /\ At(p, t, "failRow")
    /\ \/ /\ SetRow(p, FALSE)
          /\ Goto(p, t, "failFlag")
          /\ UNCHANGED <<holder, unit, entering>>
       \/ Abandon(p, t) /\ UNCHANGED entriesRow
    /\ UNCHANGED <<lease, entryFlag, limits, approved, order, killing, shut>>

CloseFlagAfterFailure(p, t) ==
    /\ At(p, t, "failFlag")
    /\ SetFlag(p, FALSE) /\ Shut(p)
    /\ Goto(p, t, "recording")
    /\ UNCHANGED <<lease, entriesRow, limits, holder, entries, killing>>

\* record_entry_submission: the order id is linked, or its write fails.
Record(p, t) ==
    /\ At(p, t, "recording")
    /\ unit' \in {unit, [unit EXCEPT ![entering[p][t]].linked = TRUE]}
    /\ entering' = [entering EXCEPT ![p][t] = NoUnit]
    /\ Goto(p, t, "idle")
    /\ Unlock(p)
    /\ UNCHANGED <<lease, gate, approved, order, killing, shut>>

Busy(u) == \E p \in Process, t \in EntryThread : entering[p][t] = u

\* Mutant: the state of the order is taken for the status of the unit.
ReconcileToOrder(p, u) ==
    /\ At(p, "daemon", "idle")
    /\ unit[u].status = "pending_open" /\ unit[u].file = database[p]
    /\ ~Busy(u) /\ order[u] # "live"
    /\ unit' = [unit EXCEPT ![u].status = order[u]]
    /\ UNCHANGED <<leaseVars, pc, holder, entering, approved, order, killing, shut>>

\* The fill service brings a pending unit up to date with its order.
Reconcile(p, u) ==
    /\ At(p, "daemon", "idle")
    /\ unit[u].status = "pending_open" /\ unit[u].file = database[p]
    /\ ~Busy(u) /\ order[u] # "live"
    /\ unit' = [unit EXCEPT ![u].status =
                    IF order[u] = "filled" THEN "open" ELSE "failed"]
    /\ UNCHANGED <<leaseVars, pc, holder, entering, approved, order, killing, shut>>

-----------------------------------------------------------------------------
(* The operator's commands. *)

\* enable_entries.
BeginEnable(p) ==
    /\ At(p, "operator", "idle") /\ limits[database[p]] \in Version
    /\ Lock(p, "operator")
    /\ Goto(p, "operator", "enableFlag")
    /\ UNCHANGED <<lease, gate, entries, killing, shut>>

EnableFlag(p) ==
    /\ At(p, "operator", "enableFlag")
    /\ IF armed[p]
       THEN SetFlag(p, TRUE) /\ Opening(p) /\ Goto(p, "operator", "enableRow")
       ELSE Goto(p, "operator", "undoFlag") /\ UNCHANGED <<entryFlag, shut, killed>>
    /\ UNCHANGED <<lease, entriesRow, limits, holder, entries, toCancel,
                   unresolved>>

\* Mutant: the flag is written after the row.
EnableFlagLate(p) ==
    /\ At(p, "operator", "enableRow")
    /\ SetRow(p, TRUE) /\ SetFlag(p, TRUE)
    /\ Goto(p, "operator", "idle") /\ Unlock(p)
    /\ UNCHANGED <<lease, limits, entries, killing, shut>>

EnableRow(p) ==
    /\ At(p, "operator", "enableRow")
    /\ SetRow(p, TRUE)
    /\ Goto(p, "operator", "idle") /\ Unlock(p)
    /\ UNCHANGED <<lease, entryFlag, limits, entries, killing, shut>>

\* The row or the audit event is not written.
EnableRowFails(p) ==
    /\ At(p, "operator", "enableRow")
    /\ SetRow(p, TRUE) \/ UNCHANGED entriesRow
    /\ Goto(p, "operator", "undoFlag")
    /\ UNCHANGED <<lease, entryFlag, limits, holder, entries, killing, shut>>

UndoFlag(p) ==
    /\ At(p, "operator", "undoFlag")
    /\ SetFlag(p, FALSE)
    /\ Goto(p, "operator", "undoRow")
    /\ UNCHANGED <<lease, entriesRow, limits, holder, entries, killing, shut>>

UndoRow(p) ==
    /\ At(p, "operator", "undoRow")
    /\ SetRow(p, FALSE) \/ UNCHANGED entriesRow
    /\ Shut(p)
    /\ Goto(p, "operator", "idle") /\ Unlock(p)
    /\ UNCHANGED <<lease, entryFlag, limits, entries, killing>>

\* Mutant: the kill does not wait for an entry in progress.
KillWithoutLock(p) ==
    /\ At(p, "operator", "idle")
    /\ Goto(p, "operator", "killFlag")
    /\ UNCHANGED <<lease, gate, holder, entries, killing, shut>>

\* kill_entries.
BeginKill(p) ==
    /\ At(p, "operator", "idle")
    /\ Lock(p, "operator")
    /\ Goto(p, "operator", "killFlag")
    /\ UNCHANGED <<lease, gate, entries, killing, shut>>

KillFlag(p) ==
    /\ At(p, "operator", "killFlag")
    /\ SetFlag(p, FALSE)
    /\ Goto(p, "operator", "killRow")
    /\ UNCHANGED <<lease, entriesRow, limits, holder, entries, killing, shut>>

\* A row that cannot be written does not stop the kill.
KillRow(p) ==
    /\ At(p, "operator", "killRow")
    /\ SetRow(p, FALSE) \/ UNCHANGED entriesRow
    /\ toCancel' = [toCancel EXCEPT ![p] =
           {u \in Unit : unit[u].status = "pending_open"
                           /\ unit[u].file = database[p]}]
    /\ unresolved' = [unresolved EXCEPT ![p] = FALSE]
    /\ Goto(p, "operator", "killCancel")
    /\ UNCHANGED <<lease, entryFlag, limits, holder, entries, killed, shut>>

\* Mutant: a unit without an order id is passed over.
CancelsLinkedOnly(p, u) ==
    \/ /\ unit[u].linked /\ order[u] = "live"
       /\ unit' = [unit EXCEPT ![u].cancelRequested = TRUE]
       /\ UNCHANGED unresolved
    \/ ~unit[u].linked /\ UNCHANGED <<unit, unresolved>>

\* The order of u is found by its client id if it is not linked, and canceled
\* unless it is terminal; any of the calls may fail.
CancelsEntry(p, u) ==
    \/ unit[u].cancelRequested /\ UNCHANGED <<unit, unresolved>>
    \/ ~unit[u].linked /\ order[u] \in {"filled", "canceled"}
         /\ UNCHANGED <<unit, unresolved>>
    \/ /\ armed[p] /\ order[u] = "live" /\ ~unit[u].cancelRequested
       /\ unit' = [unit EXCEPT ![u].linked = TRUE, ![u].cancelRequested = TRUE]
       /\ UNCHANGED unresolved
    \/ /\ ~unit[u].cancelRequested
       /\ unit' \in {unit, [unit EXCEPT ![u].linked = @ \/ order[u] = "live"]}
       /\ unresolved' = [unresolved EXCEPT ![p] = TRUE]

KillCancel(p) ==
    /\ At(p, "operator", "killCancel")
    /\ \E u \in toCancel[p] :
          /\ toCancel' = [toCancel EXCEPT ![p] = @ \ {u}]
          /\ CancelsEntry(p, u)
    /\ UNCHANGED <<lease, gate, pc, holder, entering, approved, order, killed, shut>>

KillReturns(p) ==
    /\ At(p, "operator", "killCancel") /\ toCancel[p] = {}
    /\ killed' = [killed EXCEPT ![p] = TRUE] /\ Shut(p)
    /\ unresolved' = [unresolved EXCEPT ![p] = FALSE]
    /\ Goto(p, "operator", "idle") /\ Unlock(p)
    /\ UNCHANGED <<lease, gate, entries, toCancel>>

\* Mutant: the limits are changed beside an entry in progress.
PutLimitsUnlocked(p) ==
    /\ At(p, "operator", "idle")
    /\ limits[database[p]] # "none" => ~Row(p)
    /\ \E l \in {"disabled"} \cup Version :
          limits' = [limits EXCEPT ![database[p]] = l]
    /\ UNCHANGED <<lease, entryFlag, entriesRow, threadVars>>

\* put_account_risk_limits: one transaction, refused while entries are on.
PutLimits(p) ==
    /\ At(p, "operator", "idle") /\ holder[p] = Nobody
    /\ limits[database[p]] # "none" => ~Row(p)
    /\ \E l \in {"disabled"} \cup Version :
          limits' = [limits EXCEPT ![database[p]] = l]
    /\ UNCHANGED <<lease, entryFlag, entriesRow, threadVars>>

-----------------------------------------------------------------------------
(* The daemon's services close the gate. *)

\* ExecutionFillService and PositionManagerService: the row, then the flag,
\* without the lock.
BeginDisable(p) ==
    /\ At(p, "daemon", "idle") /\ mode[p] # "simulation"
    /\ Goto(p, "daemon", "disableRow")
    /\ UNCHANGED <<lease, gate, holder, entries, killing, shut>>

DisableRow(p) ==
    /\ At(p, "daemon", "disableRow")
    /\ \/ SetRow(p, FALSE) /\ Goto(p, "daemon", "disableFlag")
       \/ UNCHANGED entriesRow /\ Goto(p, "daemon", "idle")
    /\ UNCHANGED <<lease, entryFlag, limits, holder, entries, killing, shut>>

DisableFlag(p) ==
    /\ At(p, "daemon", "disableFlag")
    /\ SetFlag(p, FALSE) /\ Shut(p)
    /\ Goto(p, "daemon", "idle")
    /\ UNCHANGED <<lease, entriesRow, limits, holder, entries, killing>>

\* PositionProtectionService._fail_amend: the flag, then the row, locked.
BeginFailAmend(p) ==
    /\ At(p, "daemon", "idle") /\ armed[p]
    /\ Lock(p, "daemon")
    /\ Goto(p, "daemon", "amendFlag")
    /\ UNCHANGED <<lease, gate, entries, killing, shut>>

FailAmendFlag(p) ==
    /\ At(p, "daemon", "amendFlag")
    /\ SetFlag(p, FALSE)
    /\ Goto(p, "daemon", "amendRow")
    /\ UNCHANGED <<lease, entriesRow, limits, holder, entries, killing, shut>>

FailAmendRow(p) ==
    /\ At(p, "daemon", "amendRow")
    /\ SetRow(p, FALSE) \/ UNCHANGED entriesRow
    /\ Shut(p)
    /\ Goto(p, "daemon", "idle") /\ Unlock(p)
    /\ UNCHANGED <<lease, entryFlag, limits, entries, killing>>

-----------------------------------------------------------------------------
\* What a process was doing ends with it; a request on its way was taken or
\* refused.
Ends(p) ==
    /\ pc' = [pc EXCEPT ![p] = Idle]
    /\ holder' = [holder EXCEPT ![p] = Nobody]
    /\ entering' = [entering EXCEPT ![p] = [t \in EntryThread |-> NoUnit]]
    /\ toCancel' = [toCancel EXCEPT ![p] = {}]
    /\ shut' = [shut EXCEPT ![p] = TRUE]
    /\ killed' = [killed EXCEPT ![p] = FALSE]
    /\ LET sent == {u \in Unit : \E t \in EntryThread :
                        pc[p][t] = "placing" /\ entering[p][t] = u}
       IN  \E taken \in SUBSET sent :
              order' = [u \in Unit |-> IF u \in taken THEN "live" ELSE order[u]]
    /\ unresolved' = [unresolved EXCEPT ![p] = FALSE]
    /\ UNCHANGED <<approved, unit>>

Starting(p) == (Start(p) \/ StartStep(p)) /\ UNCHANGED threadVars
Stopping(p) == (Teardown(p) \/ Die(p)) /\ Ends(p)

Entering(p) ==
    \/ \E u \in Unit : OpenManually(p, u) \/ Reconcile(p, u)
    \/ MatchStrategy(p) \/ EnterLock(p)
    \/ \E t \in EntryThread :
          \/ Approve(p, t) \/ Blocked(p, t) \/ CheckFlags(p, t)
          \/ Accept(p, t) \/ NoAnswer(p, t) \/ Verify(p, t)
          \/ VerifyFails(p, t) \/ CloseRowAfterFailure(p, t)
          \/ CloseFlagAfterFailure(p, t) \/ Record(p, t)

Commanding(p) ==
    \/ BeginEnable(p) \/ EnableFlag(p) \/ EnableRow(p) \/ EnableRowFails(p)
    \/ UndoFlag(p) \/ UndoRow(p)
    \/ BeginKill(p) \/ KillFlag(p) \/ KillRow(p) \/ KillCancel(p)
    \/ KillReturns(p) \/ PutLimits(p)

Closing(p) ==
    \/ BeginDisable(p) \/ DisableRow(p) \/ DisableFlag(p)
    \/ BeginFailAmend(p) \/ FailAmendFlag(p) \/ FailAmendRow(p)

Next ==
    \/ \E p \in Process : Starting(p) \/ Stopping(p)
    \/ \E p \in Active : Entering(p) \/ Commanding(p) \/ Closing(p)
    \/ \E u \in Unit : FillOrKill(u)

Spec == Init /\ [][Next]_vars

-----------------------------------------------------------------------------
(***************************************************************************)
(* Once a service or the operator has closed the gate, it is open again    *)
(* only if an enabling began after that: the unlocked writes of the        *)
(* services (row, then flag) and those of enable_entries (flag, then row)  *)
(* cannot interleave to leave it open.                                     *)
(***************************************************************************)
GateStaysShut == \A p \in Process : GateOpen(p) => ~shut[p]

\* The exchange takes the order of the unit that thread t of p is opening.
Takes(p, t) ==
    LET u == entering[p][t]
    IN  u \in Unit /\ order[u] = "none" /\ order'[u] = "live"

(***************************************************************************)
(* Once kill_entries has returned, whether or not it could persist the     *)
(* switch, no entry order of the process reaches the exchange until the    *)
(* operator enables entries again, even if an entry was between its check  *)
(* of the flag and its request when the kill was thrown.                   *)
(***************************************************************************)
KillHolds ==
    [][\A p \in Process, t \in EntryThread : Takes(p, t) => ~killed[p]]_vars

(***************************************************************************)
(* An order reaches the exchange only under the account limits it was      *)
(* approved against: PUT /risk/limits cannot change them between the       *)
(* approval and the order.                                                 *)
(***************************************************************************)
LimitsInForce ==
    [][\A p \in Process, t \in EntryThread :
           Takes(p, t) => approved[p] = limits[database[p]]]_vars

(***************************************************************************)
(* A kill that reports nothing unresolved has requested the cancellation   *)
(* of every pending entry of its database that is still live on the        *)
(* exchange, the ones whose order id was never stored included.            *)
(***************************************************************************)
KillMissesNothing ==
    [][\A p \in Process :
           KillReturns(p) /\ ~unresolved[p] =>
               \A u \in Unit :
                   /\ unit[u].status = "pending_open"
                   /\ unit[u].file = database[p]
                   /\ order[u] = "live"
                   => unit[u].cancelRequested]_vars
=============================================================================
