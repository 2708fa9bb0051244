---------------------------- MODULE StrategyRun ----------------------------
(***************************************************************************)
(* The strategy service (src/src/daemon/strategy_service.py), the strategy *)
(* store (src/src/trading/strategy_store.py) and the strategy routes of    *)
(* src/src/api/app.py.  One tick cancels the delayed executions of         *)
(* disabled strategies, reads the enabled strategies once, and then works  *)
(* on that snapshot: for each strategy the delayed execution that has      *)
(* become due, then the entry signal.  Operators edit, disable, enable and *)
(* delete strategies meanwhile; only an entry being submitted (and every   *)
(* route but DELETE) holds ENTRY_EXECUTION_LOCK.  A strategy has one       *)
(* instrument.  Ids are the decision ids of a strategy, numbered in the    *)
(* order in which they are drawn.                                          *)
(***************************************************************************)
EXTENDS Naturals, FiniteSets

CONSTANTS
    Strategy,
    MaxRise,    \* bound: how often the market makes an entry signal true
    MaxEdit,    \* bound: operations of the operators
    MaxCrash    \* bound: crashes of the daemon

ASSUME BoundsAssumption == MaxRise \in Nat /\ MaxEdit \in Nat /\ MaxCrash \in Nat

VARIABLES
    strat,      \* the row of strategies: "absent", "disabled", "enabled"
    delayed,    \* execution_delay_seconds > 0
    matched,    \* strategy_evaluation_state.matched
    pending,    \* strategy_pending_executions.correlation_id, 0 for no row
    due,        \* its due_at has passed
    unit,       \* ids that a logical position has as its client_order_id
    signal,     \* what the entry expression evaluates to now
    rises,      \* history: how often it has become true
    lives,      \* history: how often the strategy was created
    ids,        \* decision ids drawn so far
    orders,     \* entry orders the exchange accepted, by client order id
    pc,         \* where the daemon's tick is
    todo,       \* strategies left in the loop the tick is in
    listed,     \* snapshot: strategy -> "no", "now" or "delayed"
    stale,      \* strategies edited since the snapshot was taken
    cur,        \* strategy being worked on
    corr,       \* delayed execution being processed, 0 when there is none
    work,       \* decision id of the entry under way, 0 when there is none
    edits, crashes

stored == <<strat, delayed, matched, pending, due, unit>>
world == <<signal, rises, lives, ids, orders>>
tick == <<pc, todo, listed, stale, cur, corr, work>>
vars == <<stored, world, tick, edits, crashes>>

\* An id is drawn at an edge, and an edge needs a rise or a new life.
MaxId == MaxRise + MaxEdit \div 2
Locked == {"locked", "prepared", "sent"}
Loop == {"due", "settle", "checked", "evaluate", "edge"} \cup Locked
PC == {"down", "idle", "canceling", "loop"} \cup Loop

TypeOK ==
    /\ strat \in [Strategy -> {"absent", "disabled", "enabled"}]
    /\ delayed \in [Strategy -> BOOLEAN]
    /\ matched \in [Strategy -> BOOLEAN]
    /\ pending \in [Strategy -> 0..MaxId]
    /\ due \in [Strategy -> BOOLEAN]
    /\ unit \in [Strategy -> SUBSET (1..MaxId)]
    /\ signal \in [Strategy -> BOOLEAN]
    /\ rises \in [Strategy -> 0..MaxRise]
    /\ lives \in [Strategy -> 0..MaxEdit]
    /\ ids \in [Strategy -> 0..MaxId]
    /\ orders \in [Strategy -> SUBSET (1..MaxId)]
    /\ pc \in PC
    /\ todo \subseteq Strategy
    /\ listed \in [Strategy -> {"no", "now", "delayed"}]
    /\ stale \subseteq Strategy
    /\ cur \in Strategy
    /\ corr \in 0..MaxId
    /\ work \in 0..MaxId
    /\ edits \in 0..MaxEdit
    /\ crashes \in 0..MaxCrash

Init ==
    /\ strat = [s \in Strategy |-> "absent"]
    /\ delayed = [s \in Strategy |-> FALSE]
    /\ matched = [s \in Strategy |-> FALSE]
    /\ pending = [s \in Strategy |-> 0]
    /\ due = [s \in Strategy |-> FALSE]
    /\ unit = [s \in Strategy |-> {}]
    /\ signal = [s \in Strategy |-> FALSE]
    /\ rises = [s \in Strategy |-> 0]
    /\ lives = [s \in Strategy |-> 0]
    /\ ids = [s \in Strategy |-> 0]
    /\ orders = [s \in Strategy |-> {}]
    /\ pc = "down"
    /\ todo = {}
    /\ listed = [s \in Strategy |-> "no"]
    /\ stale = {}
    /\ cur \in Strategy
    /\ corr = 0
    /\ work = 0
    /\ edits = 0
    /\ crashes = 0

----------------------------------------------------------------------------
(* The market and the clock.                                               *)

Rise(s) ==
    /\ ~signal[s] /\ rises[s] < MaxRise
    /\ signal' = [signal EXCEPT ![s] = TRUE]
    /\ rises' = [rises EXCEPT ![s] = @ + 1]
    /\ UNCHANGED <<stored, lives, ids, orders, tick, edits, crashes>>

Fall(s) ==
    /\ signal[s]
    /\ signal' = [signal EXCEPT ![s] = FALSE]
    /\ UNCHANGED <<stored, rises, lives, ids, orders, tick, edits, crashes>>

BecomesDue(s) ==
    /\ pending[s] # 0 /\ ~due[s]
    /\ due' = [due EXCEPT ![s] = TRUE]
    /\ UNCHANGED <<strat, delayed, matched, pending, unit, world, tick, edits,
                   crashes>>

\* The fill service completes the tracking of an entry, or finds that the
\* order of an intent does not exist: either clears client_order_id.
ClearClientId(s, i) ==
    /\ i \in unit[s]
    /\ i \in orders[s] \/ ~(cur = s /\ work = i /\ pc \in Locked)
    /\ unit' = [unit EXCEPT ![s] = @ \ {i}]
    /\ UNCHANGED <<strat, delayed, matched, pending, due, world, tick, edits,
                   crashes>>

----------------------------------------------------------------------------
(* The routes.  Each holds the lock and one transaction, and checks that   *)
(* the operator has seen the row it changes.                               *)

LockFree == pc \notin Locked

Edited(s) ==
    /\ edits < MaxEdit
    /\ edits' = edits + 1
    /\ stale' = stale \cup {s}
    /\ UNCHANGED <<pc, todo, listed, cur, corr, work, crashes>>

SetRow(s, status) ==
    /\ Edited(s)
    /\ strat' = [strat EXCEPT ![s] = status]
    /\ UNCHANGED <<matched, pending, due, unit, world>>

CreateStrategy(s) ==
    /\ LockFree /\ strat[s] = "absent"
    /\ \E status \in {"disabled", "enabled"}, d \in BOOLEAN :
        /\ strat' = [strat EXCEPT ![s] = status]
        /\ delayed' = [delayed EXCEPT ![s] = d]
    /\ lives' = [lives EXCEPT ![s] = @ + 1]
    /\ Edited(s)
    /\ UNCHANGED <<matched, pending, due, unit, signal, rises, ids, orders>>

\* An enabled strategy is disabled by the edit; a payload with enabled true
\* enables it again once the new definition validates.
UpdateStrategy(s) ==
    /\ LockFree /\ strat[s] # "absent"
    /\ \E status \in {"disabled", "enabled"}, d \in BOOLEAN :
        SetRow(s, status) /\ delayed' = [delayed EXCEPT ![s] = d]

EnableStrategy(s) ==
    /\ LockFree /\ strat[s] # "absent"
    /\ SetRow(s, "enabled")
    /\ UNCHANGED delayed

DisableStrategy(s) ==
    /\ LockFree /\ strat[s] # "absent"
    /\ SetRow(s, "disabled")
    /\ UNCHANGED delayed

\* An edit of the rules or of a child signal leaves a strategy disabled.  What
\* it changes in the definition shows as a change of the signal.
DisableForReview(s) ==
    /\ LockFree /\ strat[s] # "absent"
    /\ SetRow(s, "disabled")
    /\ UNCHANGED delayed

PromoteStrategyRiskStop(s) == DisableForReview(s)
CreateStrategySignal(s) == DisableForReview(s)
UpdateStrategySignal(s) == DisableForReview(s)
DeleteStrategySignal(s) == DisableForReview(s)

PositionHistory(s) == unit[s] # {} \/ orders[s] # {}

\* No lock is taken.  The evaluation state and the pending execution go with
\* the row.
DeleteStrategy(s) ==
    /\ strat[s] = "disabled" /\ ~PositionHistory(s)
    /\ strat' = [strat EXCEPT ![s] = "absent"]
    /\ matched' = [matched EXCEPT ![s] = FALSE]
    /\ pending' = [pending EXCEPT ![s] = 0]
    /\ due' = [due EXCEPT ![s] = FALSE]
    /\ Edited(s)
    /\ UNCHANGED <<delayed, unit, world>>

----------------------------------------------------------------------------
(* The tick.                                                               *)

StartDaemon ==
    /\ pc = "down"
    /\ pc' = "idle"
    /\ UNCHANGED <<stored, world, todo, listed, stale, cur, corr, work, edits, crashes>>

Crash ==
    /\ pc # "down" /\ crashes < MaxCrash
    /\ crashes' = crashes + 1
    /\ pc' = "down"
    /\ todo' = {} /\ corr' = 0 /\ work' = 0 /\ stale' = {}
    /\ listed' = [s \in Strategy |-> "no"]
    /\ UNCHANGED <<stored, world, cur, edits>>

BeginTick ==
    /\ pc = "idle"
    /\ pc' = "canceling"
    /\ todo' = {s \in Strategy : pending[s] # 0}
    /\ UNCHANGED <<stored, world, listed, stale, cur, corr, work, edits, crashes>>

\* _finish_delayed_execution: the row and the audit event go together.
DeletePending(s, i) ==
    IF pending[s] = i
    THEN /\ pending' = [pending EXCEPT ![s] = 0]
         /\ due' = [due EXCEPT ![s] = FALSE]
    ELSE UNCHANGED <<pending, due>>

\* Mutant: the pending executions of deleted strategies only are canceled.
CancelDeleted(s) ==
    /\ pc = "canceling" /\ s \in todo
    /\ todo' = todo \ {s}
    /\ IF strat[s] # "absent"
       THEN UNCHANGED <<pending, due>>
       ELSE DeletePending(s, pending[s])
    /\ UNCHANGED <<strat, delayed, matched, unit, world, pc, listed, stale, cur,
                   corr, work, edits, crashes>>

CancelDisabled(s) ==
    /\ pc = "canceling" /\ s \in todo
    /\ todo' = todo \ {s}
    /\ IF strat[s] = "enabled"
       THEN UNCHANGED <<pending, due>>
       ELSE DeletePending(s, pending[s])
    /\ UNCHANGED <<strat, delayed, matched, unit, world, pc, listed, stale, cur,
                   corr, work, edits, crashes>>

\* The store raises and the rest of the tick is lost.
CancelFails ==
    /\ pc = "canceling" /\ todo # {}
    /\ pc' = "idle" /\ todo' = {}
    /\ UNCHANGED <<stored, world, listed, stale, cur, corr, work, edits, crashes>>

ListEnabled ==
    /\ pc = "canceling" /\ todo = {}
    /\ pc' = "loop"
    /\ todo' = {s \in Strategy : strat[s] = "enabled"}
    /\ listed' = [s \in Strategy |-> IF strat[s] # "enabled" THEN "no"
                                     ELSE IF delayed[s] THEN "delayed" ELSE "now"]
    /\ stale' = {}
    /\ UNCHANGED <<stored, world, cur, corr, work, edits, crashes>>

\* execution_ingestion_ready is false.
NotReady ==
    /\ pc = "canceling" /\ todo = {}
    /\ pc' = "idle"
    /\ UNCHANGED <<stored, world, todo, listed, stale, cur, corr, work, edits, crashes>>

TakeStrategy(s) ==
    /\ pc = "loop" /\ s \in todo
    /\ todo' = todo \ {s}
    /\ cur' = s
    /\ pc' = "due"
    /\ UNCHANGED <<stored, world, listed, stale, corr, work, edits, crashes>>

\* validate_strategy_for_execution finds errors in a definition that has
\* changed since it was read; what is stored as enabled was validated.
SkipStrategy(s) ==
    /\ pc = "loop" /\ s \in todo /\ s \in stale
    /\ todo' = todo \ {s}
    /\ UNCHANGED <<stored, world, pc, listed, stale, cur, corr, work, edits, crashes>>

EndTick ==
    /\ pc = "loop" /\ todo = {}
    /\ pc' = "idle"
    /\ listed' = [s \in Strategy |-> "no"]
    /\ stale' = {}
    /\ UNCHANGED <<stored, world, todo, cur, corr, work, edits, crashes>>

Goto(label) ==
    /\ pc' = label
    /\ UNCHANGED <<todo, listed, stale, cur, edits, crashes>>

IsDue(s) == pending[s] # 0 /\ due[s]

NothingDue ==
    /\ pc = "due" /\ ~IsDue(cur)
    /\ Goto("evaluate")
    /\ UNCHANGED <<stored, world, corr, work>>

\* An intent with this client order id proves that it was processed.
DueRecovered ==
    /\ pc = "due" /\ IsDue(cur) /\ pending[cur] \in unit[cur]
    /\ corr' = pending[cur]
    /\ Goto("settle")
    /\ UNCHANGED <<stored, world, work>>

\* Mutant: a delayed execution draws a new decision id each time it is tried.
DueDecisionFresh ==
    /\ work' = ids[cur] + 1
    /\ ids' = [ids EXCEPT ![cur] = @ + 1]

\* A delayed execution decides under its correlation id.
DueDecision ==
    /\ work' = pending[cur]
    /\ UNCHANGED ids

DueMatches ==
    /\ pc = "due" /\ IsDue(cur) /\ pending[cur] \notin unit[cur]
    /\ signal[cur]
    /\ matched' = [matched EXCEPT ![cur] = TRUE]
    /\ corr' = pending[cur]
    /\ DueDecision
    /\ Goto("checked")
    /\ UNCHANGED <<strat, delayed, pending, due, unit, signal, rises, lives, orders>>

DueNoLongerMatches ==
    /\ pc = "due" /\ IsDue(cur) /\ pending[cur] \notin unit[cur]
    /\ ~signal[cur]
    /\ matched' = [matched EXCEPT ![cur] = FALSE]
    /\ corr' = pending[cur]
    /\ Goto("settle")
    /\ UNCHANGED <<strat, delayed, pending, due, unit, world, work>>

\* No market data, or the store raises: the row stays for the next tick.
DueFails ==
    /\ pc = "due" /\ IsDue(cur)
    /\ Goto("evaluate")
    /\ UNCHANGED <<stored, world, corr, work>>

FinishDelayed ==
    /\ pc = "settle"
    /\ DeletePending(cur, corr)
    /\ corr' = 0
    /\ Goto("evaluate")
    /\ UNCHANGED <<strat, delayed, matched, unit, world, work>>

FinishFails ==
    /\ pc = "settle"
    /\ corr' = 0
    /\ Goto("evaluate")
    /\ UNCHANGED <<stored, world, work>>

\* record_evaluation answers TRUE on the edge from no match to a match.
Edge(s) == signal[s] /\ ~matched[s]

NextId(s) == ids[s] + 1

EvaluateNoEdge ==
    /\ pc = "evaluate" /\ strat[cur] # "absent" /\ ~Edge(cur)
    /\ matched' = [matched EXCEPT ![cur] = signal[cur]]
    /\ Goto("loop")
    /\ UNCHANGED <<strat, delayed, pending, due, unit, world, corr, work>>

EvaluateEdge ==
    /\ pc = "evaluate" /\ strat[cur] # "absent" /\ Edge(cur)
    /\ matched' = [matched EXCEPT ![cur] = TRUE]
    /\ ids' = [ids EXCEPT ![cur] = NextId(cur)]
    /\ work' = NextId(cur)
    /\ Goto(IF listed[cur] = "delayed" THEN "edge" ELSE "checked")
    /\ UNCHANGED <<strat, delayed, pending, due, unit, signal, rises, lives,
                   orders, corr>>

\* No candles or no price; a deleted strategy has no row to record into.
EvaluateFails ==
    /\ pc = "evaluate"
    /\ Goto("loop")
    /\ UNCHANGED <<stored, world, corr, work>>

\* One pending execution per strategy and instrument.
Schedule ==
    /\ pc = "edge"
    /\ IF pending[cur] = 0 /\ strat[cur] # "absent"
       THEN /\ pending' = [pending EXCEPT ![cur] = work]
            /\ due' = [due EXCEPT ![cur] = FALSE]
       ELSE UNCHANGED <<pending, due>>
    /\ work' = 0
    /\ Goto("loop")
    /\ UNCHANGED <<strat, delayed, matched, unit, world, corr>>

\* The policy or the risk check blocks, or the store raises.
ScheduleBlocked ==
    /\ pc = "edge"
    /\ work' = 0
    /\ Goto("loop")
    /\ UNCHANGED <<stored, world, corr>>

----------------------------------------------------------------------------
(* _process_match: an entry, immediate or delayed.                         *)

AfterEntry ==
    /\ work' = 0
    /\ Goto(IF corr = 0 THEN "loop" ELSE "settle")
    /\ UNCHANGED corr

TakeLock ==
    /\ pc = "checked"
    /\ Goto("locked")
    /\ UNCHANGED <<stored, world, corr, work>>

\* Ingestion is not ready, the policy or the account risk blocks, or the
\* decision could not be audited.
EntryBlocked ==
    /\ pc \in {"checked", "locked"}
    /\ AfterEntry
    /\ UNCHANGED <<stored, world>>

\* The trade, the unit and its close conditions are separate writes.
PersistenceFails ==
    /\ pc = "locked"
    /\ unit' \in {unit, [unit EXCEPT ![cur] = @ \cup {work}]}
    /\ AfterEntry
    /\ UNCHANGED <<strat, delayed, matched, pending, due, world>>

PrepareOpenUnit ==
    /\ pc = "locked"
    /\ unit' = [unit EXCEPT ![cur] = @ \cup {work}]
    /\ Goto("prepared")
    /\ UNCHANGED <<strat, delayed, matched, pending, due, world, corr, work>>

\* The exchange takes a client order id once.
SubmitAccepted ==
    /\ pc = "prepared" /\ work \notin orders[cur]
    /\ orders' = [orders EXCEPT ![cur] = @ \cup {work}]
    /\ Goto("sent")
    /\ UNCHANGED <<stored, signal, rises, lives, ids, corr, work>>

\* The intent is recovered as failed: refused, or accepted with no answer.
SubmitFails ==
    /\ pc = "prepared"
    /\ orders' \in {orders, [orders EXCEPT ![cur] = @ \cup {work}]}
    /\ unit' = [unit EXCEPT ![cur] = @ \ {work}]
    /\ AfterEntry
    /\ UNCHANGED <<strat, delayed, matched, pending, due, signal, rises, lives, ids>>

RecordSubmission ==
    /\ pc = "sent"
    /\ AfterEntry
    /\ UNCHANGED <<stored, world>>

----------------------------------------------------------------------------
Tick ==
    \/ BeginTick \/ CancelFails \/ ListEnabled \/ NotReady \/ EndTick
    \/ \E s \in Strategy : CancelDisabled(s) \/ TakeStrategy(s) \/ SkipStrategy(s)
    \/ NothingDue \/ DueRecovered \/ DueMatches \/ DueNoLongerMatches \/ DueFails
    \/ FinishDelayed \/ FinishFails
    \/ EvaluateNoEdge \/ EvaluateEdge \/ EvaluateFails \/ Schedule \/ ScheduleBlocked
    \/ TakeLock \/ EntryBlocked \/ PersistenceFails \/ PrepareOpenUnit
    \/ SubmitAccepted \/ SubmitFails \/ RecordSubmission

Next ==
    \/ Tick \/ StartDaemon \/ Crash
    \/ \E s \in Strategy :
        \/ Rise(s) \/ Fall(s) \/ BecomesDue(s)
        \/ \E i \in unit[s] : ClearClientId(s, i)
        \/ CreateStrategy(s) \/ UpdateStrategy(s) \/ EnableStrategy(s)
        \/ DisableStrategy(s) \/ DeleteStrategy(s) \/ PromoteStrategyRiskStop(s)
        \/ CreateStrategySignal(s) \/ UpdateStrategySignal(s) \/ DeleteStrategySignal(s)

\* The daemon is restarted and its thread keeps ticking; time passes; and
\* what fails in a tick does not fail in every later one.
Fairness ==
    /\ WF_vars(StartDaemon) /\ WF_vars(Tick)
    /\ \A s \in Strategy :
        /\ WF_vars(BecomesDue(s)) /\ SF_vars(CancelDisabled(s))
        /\ SF_vars(TakeStrategy(s))
    /\ SF_vars(ListEnabled)
    /\ SF_vars(DueRecovered \/ DueMatches \/ DueNoLongerMatches)
    /\ SF_vars(FinishDelayed)

Spec == Init /\ [][Next]_vars
FairSpec == Spec /\ Fairness

----------------------------------------------------------------------------
\* At most one entry is taken per rise of a strategy's signal, however the
\* service is restarted, the execution delayed or retried, and the strategy
\* edited meanwhile; creating the strategy again forgets that its signal
\* had matched.  (record_evaluation, the correlation id of a delayed
\* execution and the client order id at the exchange together.)
OnceForEachRise ==
    \A s \in Strategy :
        orders[s] # {} => Cardinality(orders[s]) < rises[s] + lives[s]

\* A pending execution is carried out, canceled or blocked in the end, over
\* restarts, failed ticks and edits of its strategy.
PendingIsSettled ==
    \A s \in Strategy : \A i \in 1..MaxId : (pending[s] = i) ~> (pending[s] # i)
============================================================================
