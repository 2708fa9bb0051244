---------------------------- MODULE PositionRules ----------------------------
(***************************************************************************)
(* The close conditions of one open unit and the tick that acts on them:   *)
(* PositionManagerService.tick                                             *)
(* (src/src/daemon/position_manager_service.py), with the rows of          *)
(* logical_position_close_conditions                                       *)
(* (src/src/trading/logical_position_store.py), their materialization      *)
(* (src/src/trading/position_rule_model.py), the completion of a one-shot  *)
(* rule by a fill (src/src/trading/execution_allocation.py) and the        *)
(* operator's endpoints (src/src/api/app.py).                              *)
(*                                                                         *)
(* Every transaction is one step, so that the operator's API threads run   *)
(* between the tick's reads and its writes.  Services share one thread:    *)
(* prices and fills change between ticks only.  Prices are whole numbers.  *)
(* A rule that is deleted is off for good; one that is posted in its place *)
(* is another rule, and not looked at.                                     *)
(***************************************************************************)
EXTENDS Integers, FiniteSets

CONSTANTS
    Setups,      \* the units looked at: side, live (TRUE for an order-capable
                 \* runtime), kind (trailing_kind), made (when each rule was
                 \* created) and behind ("waiting" if another unit follows in
                 \* the list)
    MaxPrice,    \* bound on prices
    EntryPrice,  \* confirmed average entry price
    Opened,      \* contracts the unit opened
    Part,        \* contracts a staged take-profit takes off
    MaxEdit,     \* bound on the operator's commands
    MaxCrash     \* bound on the crashes of the process

ASSUME PriceAssumption == MaxPrice \in Nat /\ EntryPrice \in 2..(MaxPrice - 1)
ASSUME PartAssumption == Opened \in Nat /\ Part \in 1..Opened

\* The close conditions, by purpose.
Rule == {"stop", "trail", "even", "stage", "review"}

ASSUME SetupAssumption ==
    Setups \subseteq [side : {"long", "short"}, live : BOOLEAN,
                      kind : {"stop", "take_profit"}, made : [Rule -> Nat],
                      behind : {"none", "waiting"}]
ASSUME BoundAssumption == MaxEdit \in Nat /\ MaxCrash \in Nat

VARIABLES
    setup,     \* the unit looked at, one of Setups
    market,    \* last observed price, and whether the observation is fresh
    unit,      \* the unit's row
    row,       \* close conditions, by purpose
    tick,      \* where the tick stands, and the rows it has read
    draft,     \* the row that update_close_condition is about to save
    touched,   \* rows written by somebody else since the tick read them
    order,     \* reduce order on the exchange, live mode
    other,     \* a unit behind this one in the list of open units
    reduced,   \* reductions the staged rule made since it was last enabled
    handMoved, \* the operator moved the stop after the last break-even
    cutShort,  \* the process died between a reduction and its rule's completion
    edits, crashes

vars == <<setup, market, unit, row, tick, draft, touched, order, other, reduced,
          handMoved, cutShort, edits, crashes>>
ghosts == <<reduced, handMoved, cutShort>>
bounds == <<edits, crashes>>

Price == 1..MaxPrice
Level == 0..(MaxPrice + 1)
NoWater == 0
Distance == 1

-----------------------------------------------------------------------------
(***************************************************************************)
(* Prices seen from the unit's side.                                       *)
(***************************************************************************)
Better(a, b) == IF setup.side = "long" THEN a > b ELSE a < b
Best(a, b) == IF Better(a, b) THEN a ELSE b
Favour(p, n) == IF setup.side = "long" THEN p + n ELSE p - n

\* The two price expressions: matched by a price at the level or past it.
Reaches(level) == ~Better(level, market.price)
FallsTo(level) == ~Better(market.price, level)

\* calculate_break_even_target without costs: the entry price.
Target == EntryPrice

Candidate(water) == Favour(water, -Distance)

\* materialize_position_rule, around the confirmed entry price.
Materialized(p) ==
    CASE p = "stop"  -> EntryPrice - 1
      [] p = "stage" -> EntryPrice + 2
      [] OTHER       -> EntryPrice + 1

MaterializedFor(side, p) ==
    IF side = "long" THEN Materialized(p) ELSE 2 * EntryPrice - Materialized(p)

-----------------------------------------------------------------------------
(***************************************************************************)
(* LogicalPositionStore: update_close_condition gets the row again, keeps  *)
(* what it is not given, and replaces the metadata by the caller's copy.   *)
(* In a tick it saves the row in another transaction (Saves, SaveRow), over*)
(* whatever the operator has committed in between; the operator's routes   *)
(* and the amendment of a live stop run it in one transaction (Writes), and*)
(* so may a save that leaves nothing of what was read.                     *)
(***************************************************************************)
RowType ==
    [on : BOOLEAN, value : Level, st : {"none", "waiting", "active", "stale",
                                        "armed", "applied", "completed"},
     activated : BOOLEAN, water : Price \cup {NoWater}, retrace : BOOLEAN]

\* metadata = {**rule.metadata, "trailing_state": ...}
WriteState(r, st, activated, water) ==
    [row[r] EXCEPT !.st = st, !.activated = activated, !.water = water]

Fire(r) == [row EXCEPT ![r].on = FALSE, ![r].st = "completed"]

Writes(r, new) == row' = [row EXCEPT ![r] = new]

FreshRow(side, r) ==
    [on |-> TRUE, value |-> MaterializedFor(side, r), st |-> "none",
     activated |-> FALSE, water |-> NoWater, retrace |-> FALSE]

NoRow == FreshRow("long", "trail")
Idle == [pc |-> "idle", trail |-> NoRow, left |-> 0]

NoDraft == [rule |-> "stop", new |-> NoRow, then |-> "idle"]
NoOrder == [left |-> 0, filled |-> FALSE]

Init ==
    /\ setup \in Setups
    /\ market = [price |-> EntryPrice, fresh |-> TRUE]
    /\ unit = [status |-> "open", left |-> Opened, rule |-> "none"]
    /\ row = [r \in Rule |-> FreshRow(setup.side, r)]
    /\ tick = Idle
    /\ draft = NoDraft
    /\ touched = {}
    /\ order = NoOrder
    /\ other = setup.behind
    /\ reduced = 0
    /\ handMoved = FALSE
    /\ cutShort = FALSE
    /\ edits = 0
    /\ crashes = 0

-----------------------------------------------------------------------------
(***************************************************************************)
(* Prices: _gather_prices and _price_observed_at both read the account     *)
(* service's last snapshot, which stays in place when the service fails.   *)
(***************************************************************************)
Observe ==
    /\ tick.pc = "idle"
    /\ \E p \in Price : market' = [price |-> p, fresh |-> TRUE]
    /\ UNCHANGED <<setup, draft, unit, row, tick, touched, order, other, ghosts, bounds>>

ObservationAges ==
    /\ tick.pc = "idle"
    /\ market.fresh
    /\ market' = [market EXCEPT !.fresh = FALSE]
    /\ UNCHANGED <<setup, draft, unit, row, tick, touched, order, other, ghosts, bounds>>

OtherFallsDue ==
    /\ other = "waiting"
    /\ other' = "due"
    /\ UNCHANGED <<setup, draft, market, unit, row, tick, touched, order, ghosts, bounds>>

-----------------------------------------------------------------------------
(***************************************************************************)
(* The tick.                                                               *)
(***************************************************************************)
Continue(pc) == tick' = [tick EXCEPT !.pc = pc, !.trail = NoRow]

EndTick == tick' = Idle /\ touched' = {}

\* The row is got, and its new form is to be saved; the copy of the trailing rule is
\* still needed when the stop is saved for it.
Saves(r, new, pc) ==
    /\ draft' = [rule |-> r, new |-> new, then |-> pc]
    /\ tick' = [tick EXCEPT !.pc = "save", !.trail = IF pc = "trailed" THEN @ ELSE NoRow]

SaveRow ==
    /\ tick.pc = "save"
    /\ Writes(draft.rule, draft.new)
    /\ tick' = [tick EXCEPT !.pc = draft.then]
    /\ draft' = NoDraft
    /\ handMoved' = (handMoved /\ draft.then # "applied")
    /\ UNCHANGED <<setup, market, unit, touched, order, other, reduced, cutShort, bounds>>

\* Only open units are listed.
BeginTick ==
    /\ tick.pc = "idle"
    /\ tick' = [tick EXCEPT !.pc = IF unit.status = "open" THEN "trail" ELSE "next",
                            !.left = unit.left]
    /\ UNCHANGED <<setup, draft, market, unit, row, touched, order, other, ghosts, bounds>>

\* Units further down the list: their conditions are evaluated and acted on.
NextUnit ==
    /\ tick.pc = "next"
    /\ other' = IF other = "due" THEN "closed" ELSE other
    /\ EndTick
    /\ UNCHANGED <<setup, draft, market, unit, row, order, ghosts, bounds>>

\* _advance_trailing_rule reads the enabled trailing rules.
ReadTrailing ==
    /\ tick.pc = "trail"
    /\ tick' = [tick EXCEPT !.pc = IF row["trail"].on THEN "trailing" ELSE "conditions",
                            !.trail = row["trail"]]
    /\ UNCHANGED <<setup, draft, market, unit, row, touched, order, other, ghosts, bounds>>

Activated(t) == t.activated \/ t.st = "active" \/ Reaches(t.value)

\* Mutant: the water mark is the last price.
WaterOfPrice(t) == market.price

Water(t) == IF t.water = NoWater THEN market.price ELSE Best(t.water, market.price)

Unmoved(t) == t.st = "active" /\ Water(t) = t.water

TrailingStale ==
    /\ tick.pc = "trailing"
    /\ ~market.fresh
    /\ LET t == tick.trail
       IN  \/ t.st = "stale" /\ Continue("conditions") /\ UNCHANGED draft
           \/ Saves("trail", WriteState("trail", "stale", t.activated, t.water), "conditions")
    /\ UNCHANGED <<setup, market, unit, row, touched, order, other, ghosts, bounds>>

TrailingWaits ==
    /\ tick.pc = "trailing"
    /\ market.fresh /\ ~Activated(tick.trail)
    /\ IF tick.trail.st = "waiting" THEN Continue("conditions") /\ UNCHANGED draft
       ELSE Saves("trail", WriteState("trail", "waiting", FALSE, NoWater), "conditions")
    /\ UNCHANGED <<setup, market, unit, row, touched, order, other, ghosts, bounds>>

ActiveState == WriteState("trail", "active", TRUE, Water(tick.trail))

\* A trailing take-profit moves its own trigger behind the water mark.
TrailingProfit ==
    /\ tick.pc = "trailing"
    /\ market.fresh /\ Activated(tick.trail) /\ setup.kind = "take_profit"
    /\ IF Unmoved(tick.trail) THEN Continue("conditions") /\ UNCHANGED draft
       ELSE Saves("trail", [ActiveState EXCEPT !.value = Candidate(Water(tick.trail)),
                                               !.retrace = TRUE], "conditions")
    /\ UNCHANGED <<setup, market, unit, row, touched, order, other, ghosts, bounds>>

TrailsStop ==
    tick.pc = "trailing" /\ market.fresh /\ Activated(tick.trail) /\ setup.kind = "stop"

Crossed == FallsTo(Candidate(Water(tick.trail)))


\* No single enabled stop, or the market is already past the candidate.
NoAmend ==
    /\ TrailsStop
    /\ ~row["stop"].on \/ Crossed
    /\ Continue("conditions")
    /\ UNCHANGED <<setup, draft, market, unit, row, touched, order, other, ghosts, bounds>>

NoImprovement ==
    /\ TrailsStop
    /\ row["stop"].on /\ ~Crossed
    /\ ~Better(Candidate(Water(tick.trail)), row["stop"].value)
    /\ IF Unmoved(tick.trail) THEN Continue("conditions") /\ UNCHANGED draft
       ELSE Saves("trail", ActiveState, "conditions")
    /\ UNCHANGED <<setup, market, unit, row, touched, order, other, ghosts, bounds>>

Improvement ==
    /\ TrailsStop
    /\ row["stop"].on /\ ~Crossed
    /\ Better(Candidate(Water(tick.trail)), row["stop"].value)
    /\ tick' = [tick EXCEPT !.pc = "amend"]
    /\ touched' = touched \ {"stop"}
    /\ UNCHANGED <<setup, draft, market, unit, row, order, other, ghosts, bounds>>

\* Mutant: amend_stop_condition does not compare the revisions.
AmendsAnyRevision == unit.status \in {"open", "reducing", "closing"} /\ row["stop"].on

\* amend_stop_condition: the rows are those the tick has read.
AmendsReviewed ==
    /\ unit.status \in {"open", "reducing", "closing"}
    /\ row["stop"].on
    /\ touched \cap {"unit", "stop"} = {}

StopAt(level) == [row["stop"] EXCEPT !.value = level]

AmendStop ==
    /\ tick.pc = "amend"
    /\ LET new == StopAt(Candidate(Water(tick.trail)))
       IN  IF setup.live
           THEN /\ AmendsReviewed
                /\ Writes("stop", new)
                /\ tick' = [tick EXCEPT !.pc = "trailed"]
                /\ UNCHANGED draft
           ELSE Saves("stop", new, "trailed") /\ UNCHANGED row
    /\ UNCHANGED <<setup, market, unit, touched, order, other, ghosts, bounds>>

\* Refused by the revision check, or by the exchange.
AmendFails ==
    /\ tick.pc = "amend"
    /\ setup.live
    /\ Continue("conditions")
    /\ UNCHANGED <<setup, draft, market, unit, row, touched, order, other, ghosts, bounds>>

RecordTrailing ==
    /\ tick.pc = "trailed"
    /\ Saves("trail", ActiveState, "next")
    /\ UNCHANGED <<setup, market, unit, row, touched, order, other, ghosts, bounds>>

-----------------------------------------------------------------------------
(***************************************************************************)
(* _triggered_close_condition: the enabled condition that was created first*)
(* among those that match.                                                 *)
(***************************************************************************)
Matches(r) ==
    IF r = "stop" \/ row[r].retrace THEN FallsTo(row[r].value) ELSE Reaches(row[r].value)

Matching ==
    {r \in Rule : row[r].on /\ Matches(r) /\ ~(r = "trail" /\ setup.kind = "stop")}

Triggered(r) ==
    /\ tick.pc = "conditions"
    /\ r \in Matching
    /\ \A s \in Matching : setup.made[r] <= setup.made[s]

NothingTriggered ==
    /\ tick.pc = "conditions"
    /\ Matching = {}
    /\ Continue("next")
    /\ UNCHANGED <<setup, draft, market, unit, row, touched, order, other, ghosts, bounds>>

\* require_manual_review marks the unit with the rule's id.
ReviewTriggered ==
    /\ Triggered("review")
    /\ unit' = [unit EXCEPT !.rule = "review"]
    /\ Continue("next")
    /\ UNCHANGED <<setup, draft, market, row, touched, order, other, ghosts, bounds>>

\* A close: at once in simulation; live, the unit is claimed and the order
\* submitted, or the unit is claimed by somebody else, or the claim given back.
CloseTriggered(r) ==
    /\ r \in {"stop", "trail"}
    /\ Triggered(r)
    /\ IF setup.live
       THEN unit' \in {unit} \cup
                {[unit EXCEPT !.status = st, !.rule = r] :
                    st \in IF unit.status = "open" THEN {"open", "closing"} ELSE {}}
       ELSE /\ tick.left <= unit.left
            /\ unit' = [unit EXCEPT !.left = @ - tick.left, !.status = "closed"]
    /\ Continue("next")
    /\ UNCHANGED <<setup, draft, market, row, touched, order, other, ghosts, bounds>>

\* Mutant: the quantity is not compared with what is left.
RaisesNever(r) == FALSE

\* The quantity would leave no remainder, or the unit has become smaller since
\* it was listed: the tick raises, and the units further down are not reached.
Raises(r) ==
    \/ r = "stage" /\ Part >= tick.left
    \/ ~setup.live /\ unit.left < (IF r = "stage" THEN Part ELSE tick.left)

TickRaises(r) ==
    /\ r \in {"stop", "trail", "stage"}
    /\ Triggered(r)
    /\ Raises(r)
    /\ EndTick
    /\ UNCHANGED <<setup, draft, market, unit, row, order, other, ghosts, bounds>>

StageClaims ==
    /\ Triggered("stage")
    /\ setup.live /\ Part < tick.left
    /\ Continue("next")
    /\ \/ /\ unit.status = "open"
          /\ unit' = [unit EXCEPT !.status = "reducing", !.rule = "stage"]
          /\ order' = [left |-> Part, filled |-> FALSE]
       \/ /\ unit' \in {unit} \cup (IF unit.status = "open"
                                   THEN {[unit EXCEPT !.rule = "stage"]} ELSE {})
          /\ UNCHANGED order
    /\ UNCHANGED <<setup, draft, market, row, touched, other, ghosts, bounds>>

StageReduces ==
    /\ Triggered("stage")
    /\ ~setup.live /\ ~Raises("stage")
    /\ unit' = [unit EXCEPT !.left = @ - Part,
                            !.status = IF unit.left = Part THEN "closed" ELSE "open"]
    /\ reduced' = reduced + 1
    /\ Continue("completes")
    /\ UNCHANGED <<setup, draft, market, row, touched, order, other, handMoved, cutShort, bounds>>

StageCompletes ==
    /\ tick.pc = "completes"
    /\ row' = Fire("stage")
    /\ Continue("next")
    /\ UNCHANGED <<setup, draft, market, unit, touched, order, other, ghosts, bounds>>

-----------------------------------------------------------------------------
(***************************************************************************)
(* _handle_break_even_rule.                                                *)
(***************************************************************************)
EvenTriggered ==
    /\ Triggered("even")
    /\ IF ~row["stop"].on
       THEN Continue("next") /\ UNCHANGED touched
       ELSE /\ Continue("arm")
            /\ touched' = touched \ {"stop"}
    /\ UNCHANGED <<setup, draft, market, unit, row, order, other, ghosts, bounds>>

Favorable(p) == Better(p, Target)

ArmEven ==
    /\ tick.pc = "arm"
    /\ LET pc == IF Favorable(market.price) THEN "even" ELSE "next"
       IN  IF row["even"].st = "armed" THEN Continue(pc) /\ UNCHANGED draft
           ELSE Saves("even", [row["even"] EXCEPT !.st = "armed"], pc)
    /\ UNCHANGED <<setup, market, unit, row, touched, order, other, ghosts, bounds>>

\* move_to_break_even, which asks the exchange for the price again.
MoveToBreakEven ==
    /\ tick.pc = "even"
    /\ IF setup.live
       THEN /\ AmendsReviewed
            /\ Writes("stop", StopAt(Target))
            /\ handMoved' = FALSE
            /\ Continue("applied")
            /\ UNCHANGED draft
       ELSE Saves("stop", StopAt(Target), "applied") /\ UNCHANGED <<row, handMoved>>
    /\ UNCHANGED <<setup, market, unit, touched, order, other, reduced, cutShort, bounds>>

\* Mutant: the error is swallowed, and the rule goes on as applied.
MoveFailsUnseen ==
    /\ tick.pc = "even"
    /\ setup.live
    /\ Continue("applied")
    /\ UNCHANGED <<setup, draft, market, unit, row, touched, order, other, ghosts, bounds>>

MoveFails ==
    /\ tick.pc = "even"
    /\ setup.live
    /\ Continue("next")
    /\ UNCHANGED <<setup, draft, market, unit, row, touched, order, other, ghosts, bounds>>

ApplyEven ==
    /\ tick.pc = "applied"
    /\ Writes("even", [row["even"] EXCEPT !.on = FALSE, !.st = "applied"])
    /\ Continue("next")
    /\ UNCHANGED <<setup, draft, market, unit, touched, order, other, ghosts, bounds>>

-----------------------------------------------------------------------------
(***************************************************************************)
(* Live reductions: fills reach ExecutionAllocationService.ingest on the   *)
(* daemon thread.                                                          *)
(***************************************************************************)

\* Mutant: the rule is completed only by the fill that ends its order.
CompleteLastFill ==
    IF unit.rule = "stage" /\ order'.left = 0 THEN Fire("stage") ELSE row

\* _complete_one_shot_rule
CompleteOneShotRule == IF unit.rule = "stage" THEN Fire("stage") ELSE row

FillReduce(q) ==
    /\ tick.pc = "idle"
    /\ unit.status = "reducing"
    /\ q \in 1..order.left
    /\ unit' = [unit EXCEPT !.left = @ - q,
                            !.status = IF order.left = q THEN "open" ELSE "reducing"]
    /\ order' = [left |-> order.left - q, filled |-> TRUE]
    /\ reduced' = IF order.filled \/ unit.rule # "stage" THEN reduced ELSE reduced + 1
    /\ row' = CompleteOneShotRule
    /\ UNCHANGED <<setup, draft, market, tick, touched, other, handMoved, cutShort, bounds>>

\* The allocation is committed and the process dies before the rule is done:
\* the row says "open" until the fill is delivered again.
CrashInFill(q) ==
    /\ tick.pc = "idle"
    /\ crashes < MaxCrash
    /\ unit.status = "reducing"
    /\ q \in 1..order.left
    /\ unit' = [unit EXCEPT !.left = @ - q, !.status = "open"]
    /\ order' = [left |-> order.left - q, filled |-> TRUE]
    /\ reduced' = IF order.filled \/ unit.rule # "stage" THEN reduced ELSE reduced + 1
    /\ cutShort' = TRUE
    /\ crashes' = crashes + 1
    /\ UNCHANGED <<setup, draft, market, row, tick, touched, other, handMoved, edits>>

\* The same fill from the other channel: the rest of ingest runs again.
RedeliverReduce ==
    /\ tick.pc = "idle"
    /\ order.filled
    /\ UNCHANGED <<setup, draft, market, unit, tick, touched, order, other, ghosts, bounds>>
    /\ row' = CompleteOneShotRule

\* The order was refused, or canceled short of its size.
ReduceEnds ==
    /\ tick.pc = "idle"
    /\ unit.status = "reducing"
    /\ unit' = [unit EXCEPT !.status = "open"]
    /\ order' = [order EXCEPT !.left = 0]
    /\ UNCHANGED <<setup, draft, market, row, tick, touched, other, ghosts, bounds>>

CloseEnds ==
    /\ tick.pc = "idle"
    /\ unit.status = "closing"
    /\ unit' \in {[unit EXCEPT !.status = "closed", !.left = 0],
                  [unit EXCEPT !.status = "open"]}
    /\ UNCHANGED <<setup, draft, market, row, tick, touched, order, other, ghosts, bounds>>

\* The process dies between two store calls of the tick.
Crash ==
    /\ tick.pc # "idle"
    /\ crashes < MaxCrash
    /\ crashes' = crashes + 1
    /\ cutShort' = (cutShort \/ tick.pc = "completes")
    /\ EndTick
    /\ draft' = NoDraft
    /\ UNCHANGED <<setup, market, unit, row, order, other, reduced, handMoved, edits>>

-----------------------------------------------------------------------------
(***************************************************************************)
(* The operator.  A command carries the revision of the row it was made    *)
(* for, and is refused when the row has changed since.                     *)
(***************************************************************************)
Command == edits < MaxEdit /\ edits' = edits + 1

Touch(names) == touched' = IF tick.pc = "idle" THEN {} ELSE touched \cup names

\* A rule enabled, disabled or deleted; metadata sent with it replace the
\* rule's state.
EditRule(r) ==
    /\ Command
    /\ r # "stop" \/ ~setup.live
    /\ \E on \in BOOLEAN, keep \in BOOLEAN :
          /\ row' = [row EXCEPT ![r] = IF keep THEN [@ EXCEPT !.on = on]
                                      ELSE [FreshRow(setup.side, r) EXCEPT !.on = on]]
          /\ row' # row
    /\ Touch({r} \cap {"stop"})
    /\ reduced' = IF r = "stage" /\ row'[r].on THEN 0 ELSE reduced
    /\ handMoved' = (handMoved \/ r = "stop")
    /\ UNCHANGED <<setup, draft, market, unit, tick, order, other, cutShort, crashes>>

\* amend_logical_position_stop, promote_logical_position_risk_stop, and in
\* simulation a plain edit.
EditStop ==
    /\ Command
    /\ row["stop"].on
    /\ unit.status \in {"open", "reducing", "closing"}
    /\ \E v \in Price : v # row["stop"].value /\ Writes("stop", [row["stop"] EXCEPT !.value = v])
    /\ Touch(IF setup.live THEN {"stop", "unit"} ELSE {"stop"})
    /\ handMoved' = TRUE
    /\ UNCHANGED <<setup, draft, market, unit, tick, order, other, reduced, cutShort, crashes>>

\* request_reduce, of one contract.
RequestReduce ==
    /\ Command
    /\ unit.status = "open"
    /\ unit.left > 1
    /\ IF setup.live
       THEN /\ unit' = [unit EXCEPT !.status = "reducing", !.rule = "none"]
            /\ order' = [left |-> 1, filled |-> FALSE]
       ELSE unit' = [unit EXCEPT !.left = @ - 1] /\ UNCHANGED order
    /\ Touch({"unit"})
    /\ UNCHANGED <<setup, draft, market, row, tick, other, ghosts, crashes>>

\* request_close.
RequestClose ==
    /\ Command
    /\ unit.status = "open"
    /\ unit' = IF setup.live THEN [unit EXCEPT !.status = "closing", !.rule = "none"]
               ELSE [unit EXCEPT !.status = "closed", !.left = 0]
    /\ Touch({"unit"})
    /\ UNCHANGED <<setup, draft, market, row, tick, order, other, ghosts, crashes>>

-----------------------------------------------------------------------------
TickStep ==
    \/ BeginTick \/ NextUnit \/ ReadTrailing \/ SaveRow
    \/ TrailingStale \/ TrailingWaits \/ TrailingProfit
    \/ NoAmend \/ NoImprovement \/ Improvement
    \/ AmendStop \/ AmendFails \/ RecordTrailing
    \/ NothingTriggered \/ ReviewTriggered
    \/ \E r \in Rule : CloseTriggered(r) \/ TickRaises(r)
    \/ StageClaims \/ StageReduces \/ StageCompletes
    \/ EvenTriggered \/ ArmEven \/ MoveToBreakEven \/ MoveFails \/ ApplyEven

Fills ==
    \/ \E q \in 1..Opened : FillReduce(q) \/ CrashInFill(q)
    \/ RedeliverReduce \/ ReduceEnds \/ CloseEnds

Operator ==
    \/ \E r \in Rule : EditRule(r)
    \/ EditStop \/ RequestReduce \/ RequestClose

Next ==
    \/ Observe \/ ObservationAges \/ OtherFallsDue
    \/ TickStep \/ Fills \/ Crash \/ Operator

Spec == Init /\ [][Next]_vars

\* The service runner calls tick again and again.
FairSpec == Spec /\ WF_vars(TickStep)

-----------------------------------------------------------------------------
(***************************************************************************)
(* Properties.                                                             *)
(***************************************************************************)

\* The variables have their types.
TypeOK ==
    /\ setup \in Setups
    /\ market \in [price : Price, fresh : BOOLEAN]
    /\ unit \in [status : {"open", "reducing", "closing", "closed"},
                 left : 0..Opened, rule : Rule \cup {"none"}]
    /\ row \in [Rule -> RowType]
    /\ tick.trail \in RowType /\ tick.left \in 0..Opened
    /\ draft.rule \in Rule /\ draft.new \in RowType
    /\ touched \subseteq {"stop", "unit"}
    /\ order \in [left : 0..Opened, filled : BOOLEAN]

\* _advance_trailing_rule: the water mark of an activated rule never gives
\* way, whatever restarts, stale observations and edits of other rows happen
\* between the tick's read of the rule and its write; only the operator's own
\* command may reset it.
WaterKeeps ==
    [][row["trail"].water # NoWater /\ edits' = edits
          => /\ row["trail"].water # row'["trail"].water
                   => Better(row'["trail"].water, row["trail"].water)
             /\ row'["trail"].water # NoWater]_vars

\* An order-capable runtime's trailing rule tightens the stop it replaces,
\* also when the operator moves that stop after the tick has read it: the
\* amendment carries the revisions of the rows that were read.
TrailingTightens ==
    [][setup.live /\ tick.pc = "amend" /\ tick'.pc = "trailed"
          => Better(row'["stop"].value, row["stop"].value)]_vars

\* A staged take-profit reduces the unit at most once each time it is enabled,
\* with partial fills, canceled remainders and repeated deliveries.  A process
\* that dies between the reduction's commit and the rule's completion is the
\* exception: the two are separate transactions.
StageOnce == cutShort \/ reduced <= 1

\* A break-even rule that says "applied" has a stop at the break-even price or
\* better, until the operator moves the stop by hand.
BreakEvenHolds ==
    row["even"].st = "applied" /\ ~handMoved => ~Better(Target, row["stop"].value)

\* A rule that matches at every tick without an end: a review, which leaves the unit
\* open, and a stage of no less than what is left, which raises.
NeverDone(r) == r \in Matching /\ (r = "review" \/ (r = "stage" /\ Part >= unit.left))


\* docs/domain-model.md: signal-triggered exits must not wait for operator
\* input after their persisted condition matches.
ExitsAreAutomatic == other = "due" ~> other = "closed"
=============================================================================
