-------------------------- MODULE PositionRulesProofs --------------------------
(***************************************************************************)
(* Proofs about PositionRules, for every price range, position size and    *)
(* number of commands and crashes: the types, the staged take-profit that  *)
(* reduces once, the stop that an applied break-even rule has, the water   *)
(* mark that never gives way and the amendment that only tightens.         *)
(*                                                                         *)
(* None of the properties is inductive.  Each is about what one store call *)
(* of the tick writes, and rests on what an earlier call of the same tick  *)
(* has read: the invariant says, for each place between two calls, what is *)
(* still true of the rows although the operator's commands ran meanwhile.  *)
(* One such place is inside update_close_condition, between its get and its*)
(* save: DraftGood says what the row to be saved may overwrite.            *)
(***************************************************************************)
EXTENDS PositionRules, TLAPS

Place == {"idle", "trail", "next", "trailing", "conditions", "amend", "trailed",
          "completes", "arm", "even", "applied", "save"}

\* The places at which the tick holds a copy of the trailing rule.
Holding == {"trailing", "amend", "trailed"}

\* TypeOK, with the variables it leaves out.
BaseType ==
    /\ setup \in Setups
    /\ market \in [price : Price, fresh : BOOLEAN]
    /\ unit \in [status : {"open", "reducing", "closing", "closed"},
                 left : 0..Opened, rule : Rule \cup {"none"}]
    /\ row \in [Rule -> RowType]
    /\ tick \in [pc : Place, trail : RowType, left : 0..Opened]
    /\ draft \in [rule : Rule, new : RowType, then : Place]
    /\ touched \subseteq {"stop", "unit"}
    /\ order \in [left : 0..Opened, filled : BOOLEAN]
    /\ reduced \in Nat
    /\ handMoved \in BOOLEAN
    /\ cutShort \in BOOLEAN
    /\ edits \in Nat

\* What is left of the unit covers the reduce order; live, it is what the tick
\* has read.
LeftCovers ==
    /\ unit.status = "reducing" => setup.live /\ order.left <= unit.left
    /\ setup.live /\ tick.pc # "idle" => tick.left = unit.left

\* A water mark belongs to an activated rule, and only the tick sets one: the
\* copy that the tick holds has the row's mark, unless a command has reset it.
WaterHeld ==
    /\ row["trail"].water # NoWater => row["trail"].activated
    /\ tick.trail.water # NoWater => tick.trail.activated
    /\ tick.pc \in Holding => row["trail"].water \in {tick.trail.water, NoWater}

\* The candidate improves the stop that was read; only the operator moves it.
CandidateImproves ==
    tick.pc = "amend" /\ ("stop" \notin touched \/ ~handMoved)
        => Better(Candidate(Water(tick.trail)), row["stop"].value)

StopAtTarget == ~Better(Target, row["stop"].value)

EvenApplied ==
    (row["even"].st = "applied" \/ tick.pc = "applied") /\ ~handMoved => StopAtTarget

\* The staged rule has not reduced since it was enabled while it is still on,
\* but for the tick that is about to complete it, and while its order has no
\* fill.
StageUnused ==
    /\ tick.pc = "completes" => ~setup.live
    /\ cutShort \/ /\ reduced <= 1
                   /\ row["stage"].on /\ tick.pc # "completes" => reduced = 0
                   /\ /\ unit.status = "reducing" /\ unit.rule = "stage"
                      /\ ~order.filled
                      => reduced = 0

\* The mark of a trailing rule that is to be saved is no worse than the row's, which
\* only a command can have changed since it was got.
MarkKept(new) ==
    /\ new.water # NoWater => new.activated
    /\ row["trail"].water # NoWater =>
          /\ new.water # NoWater
          /\ new.water = row["trail"].water \/ Better(new.water, row["trail"].water)

\* What a row that is to be saved is for, and what it will be: a stop that is saved
\* for the trailing rule improves the one in place unless a command has moved that.
DraftGood ==
    tick.pc = "save" =>
        \/ /\ draft.rule = "trail" /\ draft.then \in {"conditions", "next"}
           /\ MarkKept(draft.new)
        \/ /\ draft.rule = "even" /\ draft.then \in {"even", "next"}
           /\ draft.new.st = "armed"
        \/ draft.rule = "stop" /\ draft.then = "applied" /\ draft.new.value = Target
        \/ /\ draft.rule = "stop" /\ draft.then = "trailed"
           /\ row["trail"].water \in {tick.trail.water, NoWater}
           /\ ~handMoved => Better(draft.new.value, row["stop"].value)

Inv == /\ BaseType /\ LeftCovers /\ WaterHeld /\ CandidateImproves
       /\ EvenApplied /\ StageUnused /\ DraftGood

-----------------------------------------------------------------------------
(* The operators.                                                          *)

LEMMA SetupType ==
    setup \in Setups => /\ setup.side \in {"long", "short"}
                        /\ setup.live \in BOOLEAN
                        /\ setup.kind \in {"stop", "take_profit"}
<1> QED
  BY SetupAssumption

LEMMA FreshType ==
    ASSUME NEW side \in {"long", "short"}, NEW r \in Rule
    PROVE  FreshRow(side, r) \in RowType
<1>1. Materialized(r) \in {EntryPrice - 1, EntryPrice + 1, EntryPrice + 2}
  BY DEF Materialized, Rule
<1>2. MaterializedFor(side, r) \in Level
  BY <1>1, PriceAssumption DEF MaterializedFor, Level
<1> QED
  BY <1>2 DEF FreshRow, RowType, NoWater

\* The tick that holds no copy of the trailing rule.
LEMMA NoRowType ==
    NoRow \in RowType /\ NoRow.water = NoWater /\ NoRow.activated = FALSE
<1>1. NoRow \in RowType
  BY FreshType DEF NoRow, Rule
<1> QED
  BY <1>1 DEF NoRow, FreshRow

\* The new water mark is a price, and no worse than the old one.
LEMMA WaterType ==
    ASSUME BaseType, NEW t \in RowType
    PROVE  /\ Water(t) \in Price
           /\ t.water # NoWater => Water(t) = t.water \/ Better(Water(t), t.water)
<1>1. market.price \in Price /\ t.water \in Price \cup {NoWater}
  BY DEF BaseType, RowType
<1>2. CASE t.water = NoWater
  BY <1>1, <1>2 DEF Water
<1>3. CASE t.water # NoWater
  <2>1. Water(t) = Best(t.water, market.price)
    BY <1>3 DEF Water
  <2>2. CASE Better(t.water, market.price)
    BY <1>1, <1>3, <2>1, <2>2 DEF Best
  <2>3. CASE ~Better(t.water, market.price)
    <3>1. Water(t) = market.price
      BY <2>1, <2>3 DEF Best
    <3>2. t.water = market.price \/ Better(market.price, t.water)
      BY <1>1, <1>3, <2>3 DEF Better, Price
    <3> QED
      BY <1>1, <3>1, <3>2
  <2> QED
    BY <2>2, <2>3
<1> QED
  BY <1>2, <1>3

LEMMA CandidateType ==
    ASSUME NEW w \in Price
    PROVE  Candidate(w) \in Level
<1> QED
  BY PriceAssumption DEF Candidate, Favour, Distance, Price, Level

\* What the tick writes into the trailing rule.
LEMMA WriteStateType ==
    ASSUME BaseType,
           NEW st \in {"waiting", "active", "stale"}, NEW a \in BOOLEAN,
           NEW w \in Price \cup {NoWater}
    PROVE  /\ WriteState("trail", st, a, w) \in RowType
           /\ WriteState("trail", st, a, w).activated = a
           /\ WriteState("trail", st, a, w).water = w
<1>1. row["trail"] \in RowType
  BY DEF BaseType, Rule
<1> QED
  BY <1>1 DEF WriteState, RowType

LEMMA ActiveStateType ==
    ASSUME BaseType
    PROVE  /\ ActiveState \in RowType
           /\ ActiveState.activated = TRUE
           /\ ActiveState.water = Water(tick.trail)
<1>1. Water(tick.trail) \in Price
  BY WaterType DEF BaseType
<1> QED
  BY <1>1, WriteStateType DEF ActiveState

\* A rule that is completed keeps its level.
LEMMA FireType ==
    ASSUME BaseType
    PROVE  /\ Fire("stage") \in [Rule -> RowType]
           /\ \A r \in Rule \ {"stage"} : Fire("stage")[r] = row[r]
           /\ Fire("stage")["stage"].on = FALSE
<1>1. row["stage"] \in RowType /\ row \in [Rule -> RowType]
  BY DEF BaseType, Rule
<1>2. [row["stage"] EXCEPT !.on = FALSE, !.st = "completed"] \in RowType
  BY <1>1 DEF RowType
<1>3. Fire("stage") =
        [row EXCEPT !["stage"] = [row["stage"] EXCEPT !.on = FALSE,
           !.st = "completed"]]
  BY <1>1, "stage" \in Rule DEF Fire, RowType, Rule
<1>4. [row["stage"] EXCEPT !.on = FALSE, !.st = "completed"].on = FALSE
  BY <1>1 DEF RowType
<1> HIDE DEF RowType
<1> QED
  BY <1>1, <1>2, <1>3, <1>4, "stage" \in Rule DEF Rule

\* One row is written, and the others are not.
LEMMA WritesType ==
    ASSUME BaseType, NEW r \in Rule, NEW new \in RowType, Writes(r, new)
    PROVE  /\ row' \in [Rule -> RowType]
           /\ row'[r] = new
           /\ \A s \in Rule : s # r => row'[s] = row[s]
<1> QED
  BY DEF BaseType, Writes

\* One field of a row.
LEMMA FieldType ==
    ASSUME NEW x \in RowType
    PROVE  /\ \A v \in Level :
                /\ [x EXCEPT !.value = v] \in RowType
                /\ [x EXCEPT !.value = v].value = v
                /\ [x EXCEPT !.value = v].st = x.st
           /\ \A b \in BOOLEAN :
                /\ [x EXCEPT !.on = b] \in RowType
                /\ [x EXCEPT !.on = b].on = b
                /\ [x EXCEPT !.on = b].st = x.st
                /\ [x EXCEPT !.on = b].value = x.value
                /\ [x EXCEPT !.on = b].activated = x.activated
                /\ [x EXCEPT !.on = b].water = x.water
           /\ [x EXCEPT !.st = "armed"] \in RowType
           /\ [x EXCEPT !.st = "armed"].st = "armed"
           /\ [x EXCEPT !.on = FALSE, !.st = "applied"] \in RowType
<1> QED
  BY DEF RowType

LEMMA StopAtType ==
    ASSUME BaseType, NEW v \in Level
    PROVE  StopAt(v) \in RowType /\ StopAt(v).value = v
<1>1. row["stop"] \in RowType
  BY DEF BaseType, Rule
<1> QED
  BY <1>1, FieldType DEF StopAt

\* The tick drops its copy and goes on.
LEMMA ContinueType ==
    ASSUME BaseType, NEW p \in Place, Continue(p)
    PROVE  /\ tick' \in [pc : Place, trail : RowType, left : 0..Opened]
           /\ tick'.pc = p /\ tick'.trail = NoRow /\ tick'.left = tick.left
<1> QED
  BY NoRowType DEF BaseType, Continue

\* Nothing is to be saved, or the row of one rule.
LEMMA NoDraftType == NoDraft \in [rule : Rule, new : RowType, then : Place]
<1> QED
  BY NoRowType DEF NoDraft, Rule, Place

LEMMA SavesType ==
    ASSUME BaseType, NEW r \in Rule, NEW new \in RowType, NEW p \in Place,
           Saves(r, new, p)
    PROVE  /\ tick' \in [pc : Place, trail : RowType, left : 0..Opened]
           /\ tick'.pc = "save" /\ tick'.left = tick.left
           /\ tick'.trail = IF p = "trailed" THEN tick.trail ELSE NoRow
           /\ draft' \in [rule : Rule, new : RowType, then : Place]
           /\ draft'.rule = r /\ draft'.new = new /\ draft'.then = p
<1>1. draft' = [rule |-> r, new |-> new, then |-> p]
  BY DEF Saves
<1>2. tick' = [tick EXCEPT !.pc = "save", !.trail = IF p = "trailed" THEN tick.trail ELSE NoRow]
  BY DEF Saves, BaseType
<1>3. (IF p = "trailed" THEN tick.trail ELSE NoRow) \in RowType
  BY NoRowType DEF BaseType
<1>4. /\ tick' \in [pc : Place, trail : RowType, left : 0..Opened]
      /\ tick'.pc = "save" /\ tick'.left = tick.left
      /\ tick'.trail = IF p = "trailed" THEN tick.trail ELSE NoRow
  BY <1>2, <1>3 DEF BaseType, Place
<1> QED
  BY <1>1, <1>4

\* Prices are ordered from either side.
LEMMA BetterOrder ==
    ASSUME NEW a \in Int, NEW b \in Int, NEW c \in Int,
           Better(a, b), ~Better(c, b)
    PROVE  ~Better(c, a)
<1> QED
  BY DEF Better

LEMMA InitInv == Init => Inv
<1> SUFFICES ASSUME Init PROVE Inv
  OBVIOUS
<1>1. setup.side \in {"long", "short"}
  BY SetupType DEF Init
<1>2. row \in [Rule -> RowType]
  BY <1>1, FreshType DEF Init
<1>3. BaseType
  <2>1. market \in [price : Price, fresh : BOOLEAN]
    BY PriceAssumption DEF Init, Price
  <2>2. tick \in [pc : Place, trail : RowType, left : 0..Opened]
    BY NoRowType, PartAssumption DEF Init, Idle, Place
  <2>3. /\ unit \in [status : {"open", "reducing", "closing", "closed"},
                     left : 0..Opened, rule : Rule \cup {"none"}]
        /\ order \in [left : 0..Opened, filled : BOOLEAN]
    BY PartAssumption DEF Init, NoOrder
  <2>4. draft \in [rule : Rule, new : RowType, then : Place]
    BY NoDraftType DEF Init
  <2> QED
    BY <1>2, <2>1, <2>2, <2>3, <2>4 DEF Init, BaseType
<1>4. /\ LeftCovers /\ WaterHeld /\ CandidateImproves /\ EvenApplied /\ StageUnused
      /\ DraftGood
  <2>1. \A r \in Rule : row[r].water = NoWater /\ row[r].st = "none"
    BY DEF Init, FreshRow
  <2> QED
    BY <2>1, NoRowType DEF Init, Idle, LeftCovers, WaterHeld, CandidateImproves,
       EvenApplied, StageUnused, DraftGood, Holding, Rule
<1> QED
  BY <1>3, <1>4 DEF Inv

-----------------------------------------------------------------------------
(* Prices, and the units around this one.                                  *)

\* Prices move between ticks only.
LEMMA MarketStep ==
    ASSUME Inv,
           \/ Observe \/ ObservationAges \/ OtherFallsDue
    PROVE  Inv'
<1>0. /\ BaseType /\ NoRow \in RowType /\ NoRow.water = NoWater
      /\ NoRow.activated = FALSE
  BY NoRowType DEF Inv
<1>1. CASE Observe
  <2>1. BaseType'
    BY <1>0, <1>1, PartAssumption DEF BaseType, Observe, ghosts, bounds,
       Place, Idle
  <2>2. LeftCovers'
    BY <1>0, <1>1 DEF Inv, BaseType, Observe, ghosts, bounds, LeftCovers, Idle
  <2>3. WaterHeld'
    BY <1>0, <1>1 DEF Inv, BaseType, Observe, ghosts, bounds, WaterHeld,
       Holding, Rule, Idle
  <2>4. CandidateImproves'
    BY <1>0, <1>1 DEF Inv, BaseType, Observe, ghosts, bounds,
       CandidateImproves, Rule, Idle, Better, Water, Candidate, Target, Best,
       Favour
  <2>5. EvenApplied'
    BY <1>0, <1>1 DEF Inv, BaseType, Observe, ghosts, bounds, EvenApplied,
       StopAtTarget, Rule, Idle, Better, Target
  <2>6. StageUnused'
    BY <1>0, <1>1 DEF Inv, BaseType, Observe, ghosts, bounds, StageUnused,
       Rule, Idle
  <2>7. DraftGood'
    BY <1>0, <1>1 DEF Inv, BaseType, Observe, ghosts, bounds, DraftGood,
       Rule, Idle, MarkKept, Better, Target
  <2> QED
    BY <2>1, <2>2, <2>3, <2>4, <2>5, <2>6, <2>7 DEF Inv
<1>2. CASE ObservationAges
  <2>1. BaseType'
    BY <1>0, <1>2, PartAssumption DEF BaseType, ObservationAges, ghosts,
       bounds, Place, Idle
  <2>2. LeftCovers'
    BY <1>0, <1>2 DEF Inv, BaseType, ObservationAges, ghosts, bounds,
       LeftCovers, Idle
  <2>3. WaterHeld'
    BY <1>0, <1>2 DEF Inv, BaseType, ObservationAges, ghosts, bounds,
       WaterHeld, Holding, Rule, Idle
  <2>4. CandidateImproves'
    BY <1>0, <1>2 DEF Inv, BaseType, ObservationAges, ghosts, bounds,
       CandidateImproves, Rule, Idle, Better, Water, Candidate, Target, Best,
       Favour
  <2>5. EvenApplied'
    BY <1>0, <1>2 DEF Inv, BaseType, ObservationAges, ghosts, bounds,
       EvenApplied, StopAtTarget, Rule, Idle, Better, Target
  <2>6. StageUnused'
    BY <1>0, <1>2 DEF Inv, BaseType, ObservationAges, ghosts, bounds,
       StageUnused, Rule, Idle
  <2>7. DraftGood'
    BY <1>0, <1>2 DEF Inv, BaseType, ObservationAges, ghosts, bounds,
       DraftGood, Rule, Idle, MarkKept, Better, Target
  <2> QED
    BY <2>1, <2>2, <2>3, <2>4, <2>5, <2>6, <2>7 DEF Inv
<1>3. CASE OtherFallsDue
  <2>1. BaseType'
    BY <1>0, <1>3, PartAssumption DEF BaseType, OtherFallsDue, ghosts, bounds,
       Place, Idle
  <2>2. LeftCovers'
    BY <1>0, <1>3 DEF Inv, BaseType, OtherFallsDue, ghosts, bounds,
       LeftCovers, Idle
  <2>3. WaterHeld'
    BY <1>0, <1>3 DEF Inv, BaseType, OtherFallsDue, ghosts, bounds, WaterHeld,
       Holding, Rule, Idle
  <2>4. CandidateImproves'
    BY <1>0, <1>3 DEF Inv, BaseType, OtherFallsDue, ghosts, bounds,
       CandidateImproves, Rule, Idle, Better, Water, Candidate, Target, Best,
       Favour
  <2>5. EvenApplied'
    BY <1>0, <1>3 DEF Inv, BaseType, OtherFallsDue, ghosts, bounds,
       EvenApplied, StopAtTarget, Rule, Idle, Better, Target
  <2>6. StageUnused'
    BY <1>0, <1>3 DEF Inv, BaseType, OtherFallsDue, ghosts, bounds,
       StageUnused, Rule, Idle
  <2>7. DraftGood'
    BY <1>0, <1>3 DEF Inv, BaseType, OtherFallsDue, ghosts, bounds,
       DraftGood, Rule, Idle, MarkKept, Better, Target
  <2> QED
    BY <2>1, <2>2, <2>3, <2>4, <2>5, <2>6, <2>7 DEF Inv
<1> QED
  BY <1>1, <1>2, <1>3

-----------------------------------------------------------------------------
(* The tick.                                                               *)

\* The tick reads the unit and the trailing rule.
LEMMA ReadStep ==
    ASSUME Inv,
           \/ BeginTick \/ NextUnit \/ ReadTrailing
    PROVE  Inv'
<1>0. /\ BaseType /\ NoRow \in RowType /\ NoRow.water = NoWater
      /\ NoRow.activated = FALSE
  BY NoRowType DEF Inv
<1>1. CASE BeginTick
  <2>t. /\ tick' \in [pc : Place, trail : RowType, left : 0..Opened]
        /\ tick'.pc \in {"trail", "next"} /\ tick'.trail = tick.trail
        /\ tick'.left = unit.left
    BY <1>0, <1>1 DEF BaseType, BeginTick, Place
  <2>1. BaseType'
    BY <1>0, <1>1, <2>t, PartAssumption DEF BaseType, BeginTick, ghosts,
       bounds, Place, Idle
  <2>2. LeftCovers'
    BY <1>0, <1>1, <2>t DEF Inv, BaseType, BeginTick, ghosts, bounds,
       LeftCovers, Idle
  <2>3. WaterHeld'
    BY <1>0, <1>1, <2>t DEF Inv, BaseType, BeginTick, ghosts, bounds,
       WaterHeld, Holding, Rule, Idle
  <2>4. CandidateImproves'
    BY <1>0, <1>1, <2>t DEF Inv, BaseType, BeginTick, ghosts, bounds,
       CandidateImproves, Rule, Idle, Better, Water, Candidate, Target, Best,
       Favour
  <2>5. EvenApplied'
    BY <1>0, <1>1, <2>t DEF Inv, BaseType, BeginTick, ghosts, bounds,
       EvenApplied, StopAtTarget, Rule, Idle, Better, Target
  <2>6. StageUnused'
    BY <1>0, <1>1, <2>t DEF Inv, BaseType, BeginTick, ghosts, bounds,
       StageUnused, Rule, Idle
  <2>7. DraftGood'
    BY <1>0, <1>1, <2>t DEF Inv, BaseType, BeginTick, ghosts, bounds,
       DraftGood, Rule, Idle, MarkKept, Better, Target
  <2> QED
    BY <2>1, <2>2, <2>3, <2>4, <2>5, <2>6, <2>7 DEF Inv
<1>2. CASE NextUnit
  <2>1. BaseType'
    BY <1>0, <1>2, PartAssumption DEF BaseType, NextUnit, EndTick, ghosts,
       bounds, Place, Idle
  <2>2. LeftCovers'
    BY <1>0, <1>2 DEF Inv, BaseType, NextUnit, EndTick, ghosts, bounds,
       LeftCovers, Idle
  <2>3. WaterHeld'
    BY <1>0, <1>2 DEF Inv, BaseType, NextUnit, EndTick, ghosts, bounds,
       WaterHeld, Holding, Rule, Idle
  <2>4. CandidateImproves'
    BY <1>0, <1>2 DEF Inv, BaseType, NextUnit, EndTick, ghosts, bounds,
       CandidateImproves, Rule, Idle, Better, Water, Candidate, Target, Best,
       Favour
  <2>5. EvenApplied'
    BY <1>0, <1>2 DEF Inv, BaseType, NextUnit, EndTick, ghosts, bounds,
       EvenApplied, StopAtTarget, Rule, Idle, Better, Target
  <2>6. StageUnused'
    BY <1>0, <1>2 DEF Inv, BaseType, NextUnit, EndTick, ghosts, bounds,
       StageUnused, Rule, Idle
  <2>7. DraftGood'
    BY <1>0, <1>2 DEF Inv, BaseType, NextUnit, EndTick, ghosts, bounds,
       DraftGood, Rule, Idle, MarkKept, Better, Target
  <2> QED
    BY <2>1, <2>2, <2>3, <2>4, <2>5, <2>6, <2>7 DEF Inv
<1>3. CASE ReadTrailing
  <2>t. /\ tick' \in [pc : Place, trail : RowType, left : 0..Opened]
        /\ tick'.pc \in {"trailing", "conditions"} /\ tick'.trail = row["trail"]
        /\ tick'.left = tick.left
    BY <1>0, <1>3 DEF BaseType, ReadTrailing, Rule, Place
  <2>1. BaseType'
    BY <1>0, <1>3, <2>t, PartAssumption DEF BaseType, ReadTrailing, ghosts,
       bounds, Place, Idle
  <2>2. LeftCovers'
    BY <1>0, <1>3, <2>t DEF Inv, BaseType, ReadTrailing, ghosts, bounds,
       LeftCovers, Idle
  <2>3. WaterHeld'
    BY <1>0, <1>3, <2>t DEF Inv, BaseType, ReadTrailing, ghosts, bounds,
       WaterHeld, Holding, Rule, Idle
  <2>4. CandidateImproves'
    BY <1>0, <1>3, <2>t DEF Inv, BaseType, ReadTrailing, ghosts, bounds,
       CandidateImproves, Rule, Idle, Better, Water, Candidate, Target, Best,
       Favour
  <2>5. EvenApplied'
    BY <1>0, <1>3, <2>t DEF Inv, BaseType, ReadTrailing, ghosts, bounds,
       EvenApplied, StopAtTarget, Rule, Idle, Better, Target
  <2>6. StageUnused'
    BY <1>0, <1>3, <2>t DEF Inv, BaseType, ReadTrailing, ghosts, bounds,
       StageUnused, Rule, Idle
  <2>7. DraftGood'
    BY <1>0, <1>3, <2>t DEF Inv, BaseType, ReadTrailing, ghosts, bounds,
       DraftGood, Rule, Idle, MarkKept, Better, Target
  <2> QED
    BY <2>1, <2>2, <2>3, <2>4, <2>5, <2>6, <2>7 DEF Inv
<1> QED
  BY <1>1, <1>2, <1>3

\* A step that only moves the tick: the places it leaves are not those at which the
\* invariant knows more of the rows.
LEMMA MoveStep ==
    ASSUME Inv, NEW p \in {"conditions", "next", "even"}, Continue(p),
           UNCHANGED <<setup, draft, market, unit, row, touched, order, other, ghosts, bounds>>,
           tick.pc \notin {"idle", "completes"}
    PROVE  Inv'
<1>0. BaseType /\ NoRow.water = NoWater
  BY NoRowType DEF Inv
<1>t. /\ tick' \in [pc : Place, trail : RowType, left : 0..Opened]
      /\ tick'.pc = p /\ tick'.trail = NoRow /\ tick'.left = tick.left
  BY <1>0, ContinueType DEF Place
<1>1. BaseType'
  BY <1>0, <1>t DEF BaseType, ghosts, bounds
<1>2. LeftCovers'
  BY <1>t DEF Inv, LeftCovers
<1>3. WaterHeld'
  BY <1>0, <1>t DEF Inv, WaterHeld, Holding
<1>4. CandidateImproves' /\ DraftGood'
  BY <1>t DEF CandidateImproves, DraftGood
<1>5. EvenApplied'
  BY <1>t DEF Inv, EvenApplied, StopAtTarget, Better, Target, ghosts
<1>6. StageUnused'
  BY <1>t DEF Inv, StageUnused, ghosts
<1> QED
  BY <1>1, <1>2, <1>3, <1>4, <1>5, <1>6 DEF Inv

\* A row was got and is to be saved.
LEMMA GotStep ==
    ASSUME Inv, NEW r \in Rule, NEW new \in RowType, NEW p \in Place, Saves(r, new, p),
           UNCHANGED <<setup, market, unit, row, touched, order, other, ghosts, bounds>>,
           tick.pc \notin {"idle", "completes"}, DraftGood'
    PROVE  Inv'
<1>0. BaseType /\ NoRow.water = NoWater
  BY NoRowType DEF Inv
<1>t. /\ tick' \in [pc : Place, trail : RowType, left : 0..Opened]
      /\ tick'.pc = "save" /\ tick'.left = tick.left
      /\ tick'.trail = IF p = "trailed" THEN tick.trail ELSE NoRow
      /\ draft' \in [rule : Rule, new : RowType, then : Place]
  BY <1>0, SavesType
<1>1. BaseType'
  BY <1>0, <1>t DEF BaseType, ghosts, bounds
<1>2. LeftCovers'
  BY <1>t DEF Inv, LeftCovers
<1>3. WaterHeld'
  BY <1>0, <1>t DEF Inv, WaterHeld, Holding
<1>4. CandidateImproves'
  BY <1>t DEF CandidateImproves
<1>5. EvenApplied'
  BY <1>t DEF Inv, EvenApplied, StopAtTarget, Better, Target, ghosts
<1>6. StageUnused'
  BY <1>t DEF Inv, StageUnused, ghosts
<1> QED
  BY <1>1, <1>2, <1>3, <1>4, <1>5, <1>6 DEF Inv

\* A trailing rule whose mark is no worse than the row's is to be saved.
LEMMA GotTrail ==
    ASSUME Inv, NEW new \in RowType, NEW p \in {"conditions", "next"},
           Saves("trail", new, p), MarkKept(new),
           UNCHANGED <<setup, market, unit, row, touched, order, other, ghosts, bounds>>,
           tick.pc \notin {"idle", "completes"}
    PROVE  Inv'
<1>1. BaseType /\ "trail" \in Rule /\ p \in Place
  BY DEF Inv, Rule, Place
<1>2. draft'.rule = "trail" /\ draft'.new = new /\ draft'.then = p
  BY <1>1, SavesType
<1>3. DraftGood'
  BY <1>2 DEF DraftGood, MarkKept, Better
<1> QED
  BY <1>1, <1>3, GotStep

\* The mark of an active rule is the one the tick has read, or a better one.
LEMMA ActiveMark ==
    ASSUME Inv, tick.pc \in Holding, NEW new \in RowType, new.activated = TRUE,
           new.water = Water(tick.trail)
    PROVE  MarkKept(new)
<1>1. BaseType /\ tick.trail \in RowType
  BY DEF Inv, BaseType
<1>2. row["trail"].water # NoWater => row["trail"].water = tick.trail.water
  BY DEF Inv, WaterHeld
<1>3. /\ Water(tick.trail) \in Price
      /\ tick.trail.water # NoWater =>
            \/ Water(tick.trail) = tick.trail.water
            \/ Better(Water(tick.trail), tick.trail.water)
  BY <1>1, WaterType
<1>4. Water(tick.trail) # NoWater
  BY <1>3, PriceAssumption DEF Price, NoWater
<1> QED
  BY <1>2, <1>3, <1>4 DEF MarkKept

\* The trailing rule is to be saved with the state of the copy the tick holds.
LEMMA TrailStep ==
    ASSUME Inv,
           \/ TrailingStale \/ TrailingWaits \/ TrailingProfit \/ NoImprovement
           \/ RecordTrailing
    PROVE  Inv'
<1>0. BaseType /\ tick.trail \in RowType
  BY DEF Inv, BaseType
<1>a. /\ ActiveState \in RowType /\ ActiveState.activated = TRUE
      /\ ActiveState.water = Water(tick.trail)
  BY <1>0, ActiveStateType
<1>1. CASE TrailingStale
  <2> DEFINE new == WriteState("trail", "stale", tick.trail.activated, tick.trail.water)
  <2>1. /\ new \in RowType /\ new.activated = tick.trail.activated
        /\ new.water = tick.trail.water
    BY <1>0, WriteStateType DEF RowType
  <2>2. (Continue("conditions") /\ UNCHANGED draft) \/ Saves("trail", new, "conditions")
    BY <1>1 DEF TrailingStale
  <2> HIDE DEF new
  <2>3. /\ tick.pc = "trailing"
        /\ UNCHANGED <<setup, market, unit, row, touched, order, other, ghosts, bounds>>
    BY <1>1 DEF TrailingStale
  <2>4. MarkKept(new)
    BY <2>1, <2>3 DEF MarkKept, Inv, WaterHeld, Holding
  <2> QED
    BY <2>1, <2>2, <2>3, <2>4, MoveStep, GotTrail
<1>2. CASE TrailingWaits
  <2> DEFINE new == WriteState("trail", "waiting", FALSE, NoWater)
  <2>1. new \in RowType /\ new.water = NoWater
    BY <1>0, WriteStateType
  <2>2. (Continue("conditions") /\ UNCHANGED draft) \/ Saves("trail", new, "conditions")
    BY <1>2 DEF TrailingWaits
  <2> HIDE DEF new
  <2>3. /\ tick.pc = "trailing"
        /\ UNCHANGED <<setup, market, unit, row, touched, order, other, ghosts, bounds>>
    BY <1>2 DEF TrailingWaits
  <2>4. row["trail"].water = NoWater
    BY <1>2 DEF Inv, WaterHeld, TrailingWaits, Holding, Activated
  <2>5. MarkKept(new)
    BY <2>1, <2>4 DEF MarkKept
  <2> QED
    BY <2>1, <2>2, <2>3, <2>5, MoveStep, GotTrail
<1>3. CASE TrailingProfit
  <2> DEFINE new == [ActiveState EXCEPT !.value = Candidate(Water(tick.trail)),
                                        !.retrace = TRUE]
  <2>1. new \in RowType /\ new.activated = TRUE /\ new.water = Water(tick.trail)
    <3>1. Candidate(Water(tick.trail)) \in Level
      BY <1>0, WaterType, CandidateType
    <3> QED
      BY <1>a, <3>1 DEF RowType
  <2>2. (Continue("conditions") /\ UNCHANGED draft) \/ Saves("trail", new, "conditions")
    BY <1>3 DEF TrailingProfit
  <2> HIDE DEF new
  <2>3. /\ tick.pc = "trailing"
        /\ UNCHANGED <<setup, market, unit, row, touched, order, other, ghosts, bounds>>
    BY <1>3 DEF TrailingProfit
  <2>4. MarkKept(new)
    BY <2>1, <2>3, ActiveMark DEF Holding
  <2> QED
    BY <2>1, <2>2, <2>3, <2>4, MoveStep, GotTrail
<1>4. CASE NoImprovement \/ RecordTrailing
  <2>1. \/ Continue("conditions") /\ UNCHANGED draft
        \/ \E p \in {"conditions", "next"} : Saves("trail", ActiveState, p)
    BY <1>4 DEF NoImprovement, RecordTrailing
  <2>2. /\ tick.pc \in {"trailing", "trailed"}
        /\ UNCHANGED <<setup, market, unit, row, touched, order, other, ghosts, bounds>>
    BY <1>4 DEF NoImprovement, RecordTrailing, TrailsStop
  <2>3. MarkKept(ActiveState)
    BY <1>a, <2>2, ActiveMark DEF Holding
  <2> QED
    BY <1>a, <2>1, <2>2, <2>3, MoveStep, GotTrail
<1> QED
  BY <1>1, <1>2, <1>3, <1>4

\* The row that was got is saved, over what commands have written meanwhile.
LEMMA SaveStep == ASSUME Inv, SaveRow PROVE Inv'
<1>0. BaseType /\ draft.rule \in Rule /\ draft.new \in RowType /\ draft.then \in Place
  BY DEF Inv, BaseType
<1>r. /\ row' \in [Rule -> RowType]
      /\ row'[draft.rule] = draft.new
      /\ \A s \in Rule : s # draft.rule => row'[s] = row[s]
  BY <1>0, WritesType DEF SaveRow
<1>t. /\ tick' \in [pc : Place, trail : RowType, left : 0..Opened]
      /\ tick'.pc = draft.then /\ tick'.trail = tick.trail /\ tick'.left = tick.left
  BY <1>0 DEF SaveRow, BaseType
<1>f. /\ UNCHANGED <<setup, market, unit, touched, order, reduced, cutShort, edits>>
      /\ tick.pc = "save" /\ draft' = NoDraft
      /\ handMoved' = (handMoved /\ draft.then # "applied")
  BY DEF SaveRow, bounds
<1>m. handMoved' \in BOOLEAN
  BY <1>0, <1>f DEF BaseType
<1>d. /\ draft.rule \in {"trail", "even", "stop"}
      /\ draft.then \in {"conditions", "next", "even", "applied", "trailed"}
  BY <1>f DEF Inv, DraftGood
<1>1. BaseType'
  BY <1>0, <1>r, <1>t, <1>f, <1>m, NoDraftType DEF BaseType
<1>2. LeftCovers'
  BY <1>t, <1>f DEF Inv, LeftCovers
<1>3. WaterHeld'
  <2>1. CASE draft.rule = "trail"
    <3>1. draft.then \in {"conditions", "next"} /\ (draft.new.water # NoWater => draft.new.activated)
      BY <1>f, <2>1 DEF Inv, DraftGood, MarkKept
    <3> QED
      BY <1>r, <1>t, <2>1, <3>1 DEF Inv, WaterHeld, Holding
  <2>2. CASE draft.rule # "trail"
    <3>1. row'["trail"] = row["trail"]
      BY <1>r, <2>2 DEF Rule
    <3>2. draft.then = "trailed" => row["trail"].water \in {tick.trail.water, NoWater}
      BY <1>f, <2>2 DEF Inv, DraftGood
    <3> QED
      BY <1>t, <1>d, <3>1, <3>2 DEF Inv, WaterHeld, Holding
  <2> QED
    BY <2>1, <2>2
<1>4. CandidateImproves' /\ DraftGood'
  BY <1>t, <1>d DEF CandidateImproves, DraftGood
<1>5. EvenApplied'
  <2>0. row["stop"].value \in Int /\ row'["stop"].value \in Int /\ Target \in Int
    BY <1>0, <1>r, PriceAssumption DEF BaseType, RowType, Rule, Level, Target
  <2>1. CASE draft.then = "applied"
    <3>1. draft.rule = "stop" /\ draft.new.value = Target
      BY <1>f, <2>1 DEF Inv, DraftGood
    <3>2. row'["stop"].value = Target
      BY <1>r, <3>1
    <3> QED
      BY <1>f, <2>0, <3>2 DEF EvenApplied, StopAtTarget, Better, Target
  <2>2. CASE draft.rule = "stop" /\ draft.then # "applied"
    <3>1. ~handMoved => Better(row'["stop"].value, row["stop"].value)
      BY <1>f, <1>r, <2>2 DEF Inv, DraftGood
    <3>2. row'["even"] = row["even"] /\ handMoved' = handMoved /\ tick'.pc # "applied"
      BY <1>f, <1>m, <1>r, <1>t, <2>2 DEF Rule, Inv, BaseType
    <3>3. row["even"].st = "applied" /\ ~handMoved => ~Better(Target, row["stop"].value)
      BY DEF Inv, EvenApplied, StopAtTarget
    <3>4. row["even"].st = "applied" /\ ~handMoved => ~Better(Target, row'["stop"].value)
      BY <2>0, <3>1, <3>3, BetterOrder
    <3> QED
      BY <1>f, <3>2, <3>4 DEF EvenApplied, StopAtTarget, Better, Target
  <2>3. CASE draft.rule # "stop"
    <3>1. draft.then # "applied" /\ (draft.rule = "even" => draft.new.st = "armed")
      BY <1>f, <2>3 DEF Inv, DraftGood
    <3>2. row'["stop"] = row["stop"]
      BY <1>r, <2>3 DEF Rule
    <3>3. row'["even"].st = "applied" => row["even"].st = "applied"
      BY <1>r, <3>1 DEF Rule
    <3>4. handMoved' = handMoved /\ tick'.pc # "applied"
      BY <1>0, <1>f, <1>t, <3>1 DEF BaseType
    <3> QED
      BY <1>f, <3>2, <3>3, <3>4 DEF Inv, EvenApplied, StopAtTarget, Better, Target
  <2> QED
    BY <2>1, <2>2, <2>3
<1>6. StageUnused'
  <2>1. row'["stage"] = row["stage"]
    BY <1>r, <1>d DEF Rule
  <2> QED
    BY <1>t, <1>f, <1>d, <2>1 DEF Inv, StageUnused
<1> QED
  BY <1>1, <1>2, <1>3, <1>4, <1>5, <1>6 DEF Inv

\* The stop is amended to the candidate.
LEMMA AmendStep ==
    ASSUME Inv,
           \/ NoAmend \/ Improvement \/ AmendStop \/ AmendFails
    PROVE  Inv'
<1>0. /\ BaseType /\ NoRow \in RowType /\ NoRow.water = NoWater
      /\ NoRow.activated = FALSE
  BY NoRowType DEF Inv
<1>s. LET new == StopAt(Candidate(Water(tick.trail)))
      IN  new \in RowType /\ new.value = Candidate(Water(tick.trail))
  <2>1. tick.trail \in RowType
    BY <1>0 DEF BaseType
  <2>2. Candidate(Water(tick.trail)) \in Level
    BY <1>0, <2>1, WaterType, CandidateType
  <2> QED
    BY <1>0, <2>2, StopAtType
<1>1. CASE NoAmend
  <2>t. /\ tick' \in [pc : Place, trail : RowType, left : 0..Opened]
        /\ tick'.pc = "conditions" /\ tick'.trail = NoRow /\ tick'.left = tick.left
    BY <1>0, <1>1, ContinueType DEF NoAmend, Place
  <2>1. BaseType'
    BY <1>0, <1>1, <2>t, PartAssumption DEF BaseType, NoAmend, TrailsStop,
       ghosts, bounds, Place, Idle
  <2>2. LeftCovers'
    BY <1>0, <1>1, <2>t DEF Inv, BaseType, NoAmend, TrailsStop, ghosts,
       bounds, LeftCovers, Idle
  <2>3. WaterHeld'
    BY <1>0, <1>1, <2>t DEF Inv, BaseType, NoAmend, TrailsStop, ghosts,
       bounds, WaterHeld, Holding, Rule, Idle
  <2>4. CandidateImproves'
    BY <1>0, <1>1, <2>t DEF Inv, BaseType, NoAmend, TrailsStop, ghosts,
       bounds, CandidateImproves, Rule, Idle, Better, Water, Candidate,
       Target, Best, Favour
  <2>5. EvenApplied'
    BY <1>0, <1>1, <2>t DEF Inv, BaseType, NoAmend, TrailsStop, ghosts,
       bounds, EvenApplied, StopAtTarget, Rule, Idle, Better, Target
  <2>6. StageUnused'
    BY <1>0, <1>1, <2>t DEF Inv, BaseType, NoAmend, TrailsStop, ghosts,
       bounds, StageUnused, Rule, Idle
  <2>7. DraftGood'
    BY <1>0, <1>1, <2>t DEF Inv, BaseType, NoAmend, TrailsStop, ghosts,
       bounds, DraftGood, Rule, Idle, MarkKept, Better, Target
  <2> QED
    BY <2>1, <2>2, <2>3, <2>4, <2>5, <2>6, <2>7 DEF Inv
<1>2. CASE Improvement
  <2>1. BaseType'
    BY <1>0, <1>2, PartAssumption DEF BaseType, Improvement, TrailsStop,
       ghosts, bounds, Place, Idle
  <2>2. LeftCovers'
    BY <1>0, <1>2 DEF Inv, BaseType, Improvement, TrailsStop, ghosts, bounds,
       LeftCovers, Idle
  <2>3. WaterHeld'
    BY <1>0, <1>2 DEF Inv, BaseType, Improvement, TrailsStop, ghosts, bounds,
       WaterHeld, Holding, Rule, Idle
  <2>4. CandidateImproves'
    BY <1>0, <1>2 DEF Inv, BaseType, Improvement, TrailsStop, ghosts, bounds,
       CandidateImproves, Rule, Idle, Better, Water, Candidate, Target, Best,
       Favour
  <2>5. EvenApplied'
    BY <1>0, <1>2 DEF Inv, BaseType, Improvement, TrailsStop, ghosts, bounds,
       EvenApplied, StopAtTarget, Rule, Idle, Better, Target
  <2>6. StageUnused'
    BY <1>0, <1>2 DEF Inv, BaseType, Improvement, TrailsStop, ghosts, bounds,
       StageUnused, Rule, Idle
  <2>7. DraftGood'
    BY <1>0, <1>2 DEF Inv, BaseType, Improvement, TrailsStop, ghosts,
       bounds, DraftGood, Rule, Idle, MarkKept, Better, Target
  <2> QED
    BY <2>1, <2>2, <2>3, <2>4, <2>5, <2>6, <2>7 DEF Inv
<1>3. CASE AmendStop /\ setup.live
  <2>r. /\ row' \in [Rule -> RowType]
        /\ \A s \in Rule : s # "stop" => row'[s] = row[s]
        /\ row'["stop"].value = Candidate(Water(tick.trail))
    <3>1. Writes("stop", StopAt(Candidate(Water(tick.trail))))
      BY <1>3 DEF AmendStop
    <3> QED
      BY <1>0, <1>s, <3>1, WritesType DEF Rule
  <2>t. /\ tick' \in [pc : Place, trail : RowType, left : 0..Opened]
        /\ tick'.pc = "trailed" /\ tick'.trail = tick.trail /\ tick'.left = tick.left
    BY <1>0, <1>3 DEF BaseType, AmendStop, Place
  <2>1. BaseType'
    BY <1>0, <1>3, <2>r, <2>t, PartAssumption DEF BaseType, AmendStop, ghosts,
       bounds, Place, Idle
  <2>2. LeftCovers'
    BY <1>0, <1>3, <2>r, <2>t DEF Inv, BaseType, AmendStop, ghosts, bounds,
       LeftCovers, Idle
  <2>3. WaterHeld'
    BY <1>0, <1>3, <2>r, <2>t DEF Inv, BaseType, AmendStop, ghosts, bounds,
       WaterHeld, Holding, Rule, Idle
  <2>4. CandidateImproves'
    BY <1>0, <1>3, <2>r, <2>t DEF Inv, BaseType, AmendStop, ghosts, bounds,
       CandidateImproves, Rule, Idle, Better, Water, Candidate, Target, Best,
       Favour
  <2>5. EvenApplied'
    <3>1. row["stop"].value \in Int /\ row'["stop"].value \in Int /\ Target \in Int
      BY <1>0, <2>r, PriceAssumption DEF BaseType, RowType, Rule, Level, Target
    <3>2. ~handMoved => Better(row'["stop"].value, row["stop"].value)
      BY <1>3, <2>r DEF Inv, CandidateImproves, AmendStop
    <3>3. /\ row'["even"] = row["even"] /\ tick'.pc = "trailed"
          /\ handMoved' = handMoved /\ setup' = setup
      BY <1>3, <2>r, <2>t DEF AmendStop, ghosts, Rule
    <3>4. row["even"].st = "applied" /\ ~handMoved => ~Better(Target,
       row["stop"].value)
      BY DEF Inv, EvenApplied, StopAtTarget
    <3>5. row["even"].st = "applied" /\ ~handMoved => ~Better(Target,
       row'["stop"].value)
      BY <3>1, <3>2, <3>4, BetterOrder
    <3> QED
      BY <3>3, <3>5 DEF EvenApplied, StopAtTarget, Better, Target
  <2>6. StageUnused'
    BY <1>0, <1>3, <2>r, <2>t DEF Inv, BaseType, AmendStop, ghosts, bounds,
       StageUnused, Rule, Idle
  <2>7. DraftGood'
    BY <1>0, <1>3, <2>r, <2>t DEF Inv, BaseType, AmendStop, ghosts, bounds,
       DraftGood, Rule, Idle, MarkKept, Better, Target
  <2> QED
    BY <2>1, <2>2, <2>3, <2>4, <2>5, <2>6, <2>7 DEF Inv
<1>4. CASE AmendStop /\ ~setup.live
  <2> DEFINE new == StopAt(Candidate(Water(tick.trail)))
  <2>1. new \in RowType /\ new.value = Candidate(Water(tick.trail))
    BY <1>s
  <2>2. Saves("stop", new, "trailed")
    BY <1>4 DEF AmendStop
  <2> HIDE DEF new
  <2>3. /\ tick.pc = "amend"
        /\ UNCHANGED <<setup, market, unit, row, touched, order, other, ghosts, bounds>>
    BY <1>4 DEF AmendStop
  <2>4. "stop" \in Rule /\ "trailed" \in Place
    BY DEF Rule, Place
  <2>5. /\ draft'.rule = "stop" /\ draft'.new = new /\ draft'.then = "trailed"
        /\ tick'.trail = tick.trail
    BY <1>0, <2>1, <2>2, <2>4, SavesType
  <2>6. row["trail"].water \in {tick.trail.water, NoWater}
    BY <2>3 DEF Inv, WaterHeld, Holding
  <2>7. ~handMoved => Better(new.value, row["stop"].value)
    BY <2>1, <2>3 DEF Inv, CandidateImproves
  <2>8. DraftGood'
    BY <2>3, <2>5, <2>6, <2>7 DEF DraftGood, Better, ghosts
  <2> QED
    BY <2>1, <2>2, <2>3, <2>4, <2>8, GotStep
<1>5. CASE AmendFails
  <2>t. /\ tick' \in [pc : Place, trail : RowType, left : 0..Opened]
        /\ tick'.pc = "conditions" /\ tick'.trail = NoRow /\ tick'.left = tick.left
    BY <1>0, <1>5, ContinueType DEF AmendFails, Place
  <2>1. BaseType'
    BY <1>0, <1>5, <2>t, PartAssumption DEF BaseType, AmendFails, ghosts,
       bounds, Place, Idle
  <2>2. LeftCovers'
    BY <1>0, <1>5, <2>t DEF Inv, BaseType, AmendFails, ghosts, bounds,
       LeftCovers, Idle
  <2>3. WaterHeld'
    BY <1>0, <1>5, <2>t DEF Inv, BaseType, AmendFails, ghosts, bounds,
       WaterHeld, Holding, Rule, Idle
  <2>4. CandidateImproves'
    BY <1>0, <1>5, <2>t DEF Inv, BaseType, AmendFails, ghosts, bounds,
       CandidateImproves, Rule, Idle, Better, Water, Candidate, Target, Best,
       Favour
  <2>5. EvenApplied'
    BY <1>0, <1>5, <2>t DEF Inv, BaseType, AmendFails, ghosts, bounds,
       EvenApplied, StopAtTarget, Rule, Idle, Better, Target
  <2>6. StageUnused'
    BY <1>0, <1>5, <2>t DEF Inv, BaseType, AmendFails, ghosts, bounds,
       StageUnused, Rule, Idle
  <2>7. DraftGood'
    BY <1>0, <1>5, <2>t DEF Inv, BaseType, AmendFails, ghosts, bounds,
       DraftGood, Rule, Idle, MarkKept, Better, Target
  <2> QED
    BY <2>1, <2>2, <2>3, <2>4, <2>5, <2>6, <2>7 DEF Inv
<1> QED
  BY <1>1, <1>2, <1>3, <1>4, <1>5

-----------------------------------------------------------------------------
(* The conditions.                                                         *)

\* No condition matches, or a review is asked for.
LEMMA ConditionStep ==
    ASSUME Inv,
           \/ NothingTriggered \/ ReviewTriggered
    PROVE  Inv'
<1>0. /\ BaseType /\ NoRow \in RowType /\ NoRow.water = NoWater
      /\ NoRow.activated = FALSE
  BY NoRowType DEF Inv
<1>1. CASE NothingTriggered
  <2>t. /\ tick' \in [pc : Place, trail : RowType, left : 0..Opened]
        /\ tick'.pc = "next" /\ tick'.trail = NoRow /\ tick'.left = tick.left
    BY <1>0, <1>1, ContinueType DEF NothingTriggered, Place
  <2>1. BaseType'
    BY <1>0, <1>1, <2>t, PartAssumption DEF BaseType, NothingTriggered,
       ghosts, bounds, Place, Idle
  <2>2. LeftCovers'
    BY <1>0, <1>1, <2>t DEF Inv, BaseType, NothingTriggered, ghosts, bounds,
       LeftCovers, Idle
  <2>3. WaterHeld'
    BY <1>0, <1>1, <2>t DEF Inv, BaseType, NothingTriggered, ghosts, bounds,
       WaterHeld, Holding, Rule, Idle
  <2>4. CandidateImproves'
    BY <1>0, <1>1, <2>t DEF Inv, BaseType, NothingTriggered, ghosts, bounds,
       CandidateImproves, Rule, Idle, Better, Water, Candidate, Target, Best,
       Favour
  <2>5. EvenApplied'
    BY <1>0, <1>1, <2>t DEF Inv, BaseType, NothingTriggered, ghosts, bounds,
       EvenApplied, StopAtTarget, Rule, Idle, Better, Target
  <2>6. StageUnused'
    BY <1>0, <1>1, <2>t DEF Inv, BaseType, NothingTriggered, ghosts, bounds,
       StageUnused, Rule, Idle
  <2>7. DraftGood'
    BY <1>0, <1>1, <2>t DEF Inv, BaseType, NothingTriggered, ghosts, bounds,
       DraftGood, Rule, Idle, MarkKept, Better, Target
  <2> QED
    BY <2>1, <2>2, <2>3, <2>4, <2>5, <2>6, <2>7 DEF Inv
<1>2. CASE ReviewTriggered
  <2>t. /\ tick' \in [pc : Place, trail : RowType, left : 0..Opened]
        /\ tick'.pc = "next" /\ tick'.trail = NoRow /\ tick'.left = tick.left
    BY <1>0, <1>2, ContinueType DEF ReviewTriggered, Place
  <2>1. BaseType'
    BY <1>0, <1>2, <2>t, PartAssumption DEF BaseType, ReviewTriggered, Rule,
       Triggered, ghosts, bounds, Place, Idle
  <2>2. LeftCovers'
    BY <1>0, <1>2, <2>t DEF Inv, BaseType, ReviewTriggered, Rule, Triggered,
       ghosts, bounds, LeftCovers, Idle
  <2>3. WaterHeld'
    BY <1>0, <1>2, <2>t DEF Inv, BaseType, ReviewTriggered, Rule, Triggered,
       ghosts, bounds, WaterHeld, Holding, Idle
  <2>4. CandidateImproves'
    BY <1>0, <1>2, <2>t DEF Inv, BaseType, ReviewTriggered, Rule, Triggered,
       ghosts, bounds, CandidateImproves, Idle, Better, Water, Candidate,
       Target, Best, Favour
  <2>5. EvenApplied'
    BY <1>0, <1>2, <2>t DEF Inv, BaseType, ReviewTriggered, Rule, Triggered,
       ghosts, bounds, EvenApplied, StopAtTarget, Idle, Better, Target
  <2>6. StageUnused'
    BY <1>0, <1>2, <2>t DEF Inv, BaseType, ReviewTriggered, Rule, Triggered,
       ghosts, bounds, StageUnused, Idle
  <2>7. DraftGood'
    BY <1>0, <1>2, <2>t DEF Inv, BaseType, ReviewTriggered, Rule, Triggered,
       ghosts, bounds, DraftGood, Idle, MarkKept, Better, Target
  <2> QED
    BY <2>1, <2>2, <2>3, <2>4, <2>5, <2>6, <2>7 DEF Inv
<1> QED
  BY <1>1, <1>2

\* The whole of the unit is closed, or the tick raises.
LEMMA CloseStep ==
    ASSUME Inv, NEW r \in Rule,
           \/ CloseTriggered(r) \/ TickRaises(r)
    PROVE  Inv'
<1>0. /\ BaseType /\ NoRow \in RowType /\ NoRow.water = NoWater
      /\ NoRow.activated = FALSE
  BY NoRowType DEF Inv
<1>1. CASE CloseTriggered(r)
  <2>t. /\ tick' \in [pc : Place, trail : RowType, left : 0..Opened]
        /\ tick'.pc = "next" /\ tick'.trail = NoRow /\ tick'.left = tick.left
    BY <1>0, <1>1, ContinueType DEF CloseTriggered, Place
  <2>u. /\ unit' \in [status : {"open", "reducing", "closing", "closed"},
                       left : 0..Opened, rule : Rule \cup {"none"}]
        /\ unit'.status = "reducing" => unit' = unit
        /\ setup.live => unit'.left = unit.left
    <3>1. /\ unit \in [status : {"open", "reducing", "closing", "closed"},
                       left : 0..Opened, rule : Rule \cup {"none"}]
          /\ tick.left \in 0..Opened
      BY <1>0 DEF BaseType
    <3>2. CASE setup.live
      <4>1. \/ unit' = unit
            \/ unit' = [unit EXCEPT !.status = "open", !.rule = r]
            \/ unit' = [unit EXCEPT !.status = "closing", !.rule = r]
        BY <1>1, <3>2 DEF CloseTriggered
      <4> QED
        BY <3>1, <4>1
    <3>3. CASE ~setup.live
      <4>1. /\ tick.left <= unit.left
            /\ unit' = [unit EXCEPT !.left = unit.left - tick.left,
               !.status = "closed"]
        BY <1>1, <3>1, <3>3 DEF CloseTriggered
      <4>2. unit.left - tick.left \in 0..Opened
        BY <3>1, <4>1, PartAssumption
      <4> QED
        BY <3>1, <3>3, <4>1, <4>2
    <3> QED
      BY <3>2, <3>3
  <2>1. BaseType'
    BY <1>0, <1>1, <2>t, <2>u, PartAssumption DEF BaseType, CloseTriggered,
       Triggered, ghosts, bounds, Place, Idle
  <2>2. LeftCovers'
    BY <1>0, <1>1, <2>t, <2>u DEF Inv, BaseType, CloseTriggered, Triggered,
       ghosts, bounds, LeftCovers, Idle
  <2>3. WaterHeld'
    BY <1>0, <1>1, <2>t, <2>u DEF Inv, BaseType, CloseTriggered, Triggered,
       ghosts, bounds, WaterHeld, Holding, Rule, Idle
  <2>4. CandidateImproves'
    BY <1>0, <1>1, <2>t, <2>u DEF Inv, BaseType, CloseTriggered, Triggered,
       ghosts, bounds, CandidateImproves, Rule, Idle, Better, Water,
       Candidate, Target, Best, Favour
  <2>5. EvenApplied'
    BY <1>0, <1>1, <2>t, <2>u DEF Inv, BaseType, CloseTriggered, Triggered,
       ghosts, bounds, EvenApplied, StopAtTarget, Rule, Idle, Better, Target
  <2>6. StageUnused'
    BY <1>0, <1>1, <2>t, <2>u DEF Inv, BaseType, CloseTriggered, Triggered,
       ghosts, bounds, StageUnused, Rule, Idle
  <2>7. DraftGood'
    BY <1>0, <1>1, <2>t, <2>u DEF Inv, BaseType, CloseTriggered, Triggered,
       ghosts, bounds, DraftGood, Rule, Idle, MarkKept, Better, Target
  <2> QED
    BY <2>1, <2>2, <2>3, <2>4, <2>5, <2>6, <2>7 DEF Inv
<1>2. CASE TickRaises(r)
  <2>1. BaseType'
    BY <1>0, <1>2, PartAssumption DEF BaseType, TickRaises, EndTick,
       Triggered, ghosts, bounds, Place, Idle
  <2>2. LeftCovers'
    BY <1>0, <1>2 DEF Inv, BaseType, TickRaises, EndTick, Triggered, ghosts,
       bounds, LeftCovers, Idle
  <2>3. WaterHeld'
    BY <1>0, <1>2 DEF Inv, BaseType, TickRaises, EndTick, Triggered, ghosts,
       bounds, WaterHeld, Holding, Rule, Idle
  <2>4. CandidateImproves'
    BY <1>0, <1>2 DEF Inv, BaseType, TickRaises, EndTick, Triggered, ghosts,
       bounds, CandidateImproves, Rule, Idle, Better, Water, Candidate,
       Target, Best, Favour
  <2>5. EvenApplied'
    BY <1>0, <1>2 DEF Inv, BaseType, TickRaises, EndTick, Triggered, ghosts,
       bounds, EvenApplied, StopAtTarget, Rule, Idle, Better, Target
  <2>6. StageUnused'
    BY <1>0, <1>2 DEF Inv, BaseType, TickRaises, EndTick, Triggered, ghosts,
       bounds, StageUnused, Rule, Idle
  <2>7. DraftGood'
    BY <1>0, <1>2 DEF Inv, BaseType, TickRaises, EndTick, Triggered, ghosts,
       bounds, DraftGood, Rule, Idle, MarkKept, Better, Target
  <2> QED
    BY <2>1, <2>2, <2>3, <2>4, <2>5, <2>6, <2>7 DEF Inv
<1> QED
  BY <1>1, <1>2

\* The staged take-profit: claimed, or reduced and then completed.
LEMMA StageStep ==
    ASSUME Inv,
           \/ StageClaims \/ StageReduces \/ StageCompletes
    PROVE  Inv'
<1>0. /\ BaseType /\ NoRow \in RowType /\ NoRow.water = NoWater
      /\ NoRow.activated = FALSE
  BY NoRowType DEF Inv
<1>1. CASE StageClaims
  <2>t. /\ tick' \in [pc : Place, trail : RowType, left : 0..Opened]
        /\ tick'.pc = "next" /\ tick'.trail = NoRow /\ tick'.left = tick.left
    BY <1>0, <1>1, ContinueType DEF StageClaims, Place
  <2>u. \/ /\ unit.status = "open"
           /\ unit' = [unit EXCEPT !.status = "reducing", !.rule = "stage"]
           /\ order' = [left |-> Part, filled |-> FALSE]
        \/ /\ unit' = unit \/ unit' = [unit EXCEPT !.rule = "stage"]
           /\ unit' # unit => unit.status = "open"
           /\ order' = order
    BY <1>1 DEF StageClaims
  <2>v. /\ unit' \in [status : {"open", "reducing", "closing", "closed"},
                       left : 0..Opened, rule : Rule \cup {"none"}]
        /\ order' \in [left : 0..Opened, filled : BOOLEAN]
        /\ unit'.left = unit.left
        /\ unit'.status = "reducing" =>
              (unit' = unit /\ order' = order) \/ order'.left = Part
    <3>1. /\ unit \in [status : {"open", "reducing", "closing", "closed"},
                       left : 0..Opened, rule : Rule \cup {"none"}]
          /\ order \in [left : 0..Opened, filled : BOOLEAN]
      BY <1>0 DEF BaseType
    <3>2. CASE /\ unit' = [unit EXCEPT !.status = "reducing", !.rule = "stage"]
               /\ order' = [left |-> Part, filled |-> FALSE]
      <4>1. Part \in 0..Opened
        BY PartAssumption
      <4>2. order' \in [left : 0..Opened, filled : BOOLEAN] /\ order'.left = Part
        BY <3>2, <4>1
      <4>3. /\ unit' \in [status : {"open", "reducing", "closing", "closed"},
                         left : 0..Opened, rule : Rule \cup {"none"}]
            /\ unit'.left = unit.left
        BY <3>1, <3>2 DEF Rule
      <4> QED
        BY <4>2, <4>3
    <3>3. CASE unit' = unit /\ order' = order
      BY <3>1, <3>3
    <3>4. CASE /\ unit.status = "open" /\ unit' = [unit EXCEPT !.rule = "stage"]
               /\ order' = order
      BY <3>1, <3>4 DEF Rule
    <3> QED
      BY <2>u, <3>2, <3>3, <3>4
  <2>1. BaseType'
    BY <1>0, <1>1, <2>t, <2>v DEF BaseType, StageClaims, ghosts, bounds
  <2>2. LeftCovers'
    BY <1>0, <1>1, <2>t, <2>u, <2>v DEF Inv, BaseType, StageClaims, Triggered,
       Matching, Rule, ghosts, bounds, LeftCovers, Idle
  <2>3. WaterHeld'
    BY <1>0, <1>1, <2>t, <2>u, <2>v DEF Inv, BaseType, StageClaims, Triggered,
       Matching, Rule, ghosts, bounds, WaterHeld, Holding, Idle
  <2>4. CandidateImproves'
    BY <1>0, <1>1, <2>t, <2>u, <2>v DEF Inv, BaseType, StageClaims, Triggered,
       Matching, Rule, ghosts, bounds, CandidateImproves, Idle, Better, Water,
       Candidate, Target, Best, Favour
  <2>5. EvenApplied'
    BY <1>0, <1>1, <2>t, <2>u, <2>v DEF Inv, BaseType, StageClaims, Triggered,
       Matching, Rule, ghosts, bounds, EvenApplied, StopAtTarget, Idle,
       Better, Target
  <2>6. StageUnused'
    BY <1>0, <1>1, <2>t, <2>u, <2>v DEF Inv, BaseType, StageClaims, Triggered,
       Matching, Rule, ghosts, bounds, StageUnused, Idle
  <2>7. DraftGood'
    BY <1>0, <1>1, <2>t, <2>u, <2>v DEF Inv, BaseType, StageClaims,
       Triggered, Matching, Rule, ghosts, bounds, DraftGood, Idle, MarkKept,
       Better, Target
  <2> QED
    BY <2>1, <2>2, <2>3, <2>4, <2>5, <2>6, <2>7 DEF Inv
<1>2. CASE StageReduces
  <2>t. /\ tick' \in [pc : Place, trail : RowType, left : 0..Opened]
        /\ tick'.pc = "completes" /\ tick'.trail = NoRow /\ tick'.left = tick.left
    BY <1>0, <1>2, ContinueType DEF StageReduces, Place
  <2>u. /\ unit' \in [status : {"open", "reducing", "closing", "closed"},
                       left : 0..Opened, rule : Rule \cup {"none"}]
        /\ unit'.status # "reducing"
    <3>1. unit \in [status : {"open", "reducing", "closing", "closed"},
                    left : 0..Opened, rule : Rule \cup {"none"}]
      BY <1>0 DEF BaseType
    <3>2. PICK st \in {"open", "closed"} :
              unit' = [unit EXCEPT !.left = unit.left - Part, !.status = st]
      BY <1>2, <3>1 DEF StageReduces
    <3>3. unit.left - Part \in 0..Opened
      BY <1>2, <3>1, PartAssumption DEF StageReduces, Raises
    <3> QED
      BY <3>1, <3>2, <3>3
  <2>1. BaseType'
    BY <1>0, <1>2, <2>t, <2>u, PartAssumption DEF BaseType, StageReduces,
       Triggered, Matching, Raises, ghosts, bounds, Place, Idle
  <2>2. LeftCovers'
    BY <1>0, <1>2, <2>t, <2>u DEF Inv, BaseType, StageReduces, Triggered,
       Matching, Raises, ghosts, bounds, LeftCovers, Idle
  <2>3. WaterHeld'
    BY <1>0, <1>2, <2>t, <2>u DEF Inv, BaseType, StageReduces, Triggered,
       Matching, Raises, ghosts, bounds, WaterHeld, Holding, Rule, Idle
  <2>4. CandidateImproves'
    BY <1>0, <1>2, <2>t, <2>u DEF Inv, BaseType, StageReduces, Triggered,
       Matching, Raises, ghosts, bounds, CandidateImproves, Rule, Idle,
       Better, Water, Candidate, Target, Best, Favour
  <2>5. EvenApplied'
    BY <1>0, <1>2, <2>t, <2>u DEF Inv, BaseType, StageReduces, Triggered,
       Matching, Raises, ghosts, bounds, EvenApplied, StopAtTarget, Rule,
       Idle, Better, Target
  <2>6. StageUnused'
    BY <1>0, <1>2, <2>t, <2>u DEF Inv, BaseType, StageReduces, Triggered,
       Matching, Raises, ghosts, bounds, StageUnused, Rule, Idle
  <2>7. DraftGood'
    BY <1>0, <1>2, <2>t, <2>u DEF Inv, BaseType, StageReduces, Triggered,
       Matching, Raises, ghosts, bounds, DraftGood, Rule, Idle, MarkKept,
       Better, Target
  <2> QED
    BY <2>1, <2>2, <2>3, <2>4, <2>5, <2>6, <2>7 DEF Inv
<1>3. CASE StageCompletes
  <2>t. /\ tick' \in [pc : Place, trail : RowType, left : 0..Opened]
        /\ tick'.pc = "next" /\ tick'.trail = NoRow /\ tick'.left = tick.left
    BY <1>0, <1>3, ContinueType DEF StageCompletes, Place
  <2>r. /\ row' \in [Rule -> RowType]
        /\ \A s \in Rule : s # "stage" => row'[s] = row[s]
        /\ row'["stage"].on = FALSE
    BY <1>0, <1>3, FireType DEF StageCompletes
  <2>1. BaseType'
    BY <1>0, <1>3, <2>t, <2>r, PartAssumption DEF BaseType, StageCompletes,
       ghosts, bounds, Place, Idle
  <2>2. LeftCovers'
    BY <1>0, <1>3, <2>t, <2>r DEF Inv, BaseType, StageCompletes, ghosts,
       bounds, LeftCovers, Idle
  <2>3. WaterHeld'
    BY <1>0, <1>3, <2>t, <2>r DEF Inv, BaseType, StageCompletes, ghosts,
       bounds, WaterHeld, Holding, Rule, Idle
  <2>4. CandidateImproves'
    BY <1>0, <1>3, <2>t, <2>r DEF Inv, BaseType, StageCompletes, ghosts,
       bounds, CandidateImproves, Rule, Idle, Better, Water, Candidate,
       Target, Best, Favour
  <2>5. EvenApplied'
    BY <1>0, <1>3, <2>t, <2>r DEF Inv, BaseType, StageCompletes, ghosts,
       bounds, EvenApplied, StopAtTarget, Rule, Idle, Better, Target
  <2>6. StageUnused'
    BY <1>0, <1>3, <2>t, <2>r DEF Inv, BaseType, StageCompletes, ghosts,
       bounds, StageUnused, Rule, Idle
  <2>7. DraftGood'
    BY <1>0, <1>3, <2>t, <2>r DEF Inv, BaseType, StageCompletes, ghosts,
       bounds, DraftGood, Rule, Idle, MarkKept, Better, Target
  <2> QED
    BY <2>1, <2>2, <2>3, <2>4, <2>5, <2>6, <2>7 DEF Inv
<1> QED
  BY <1>1, <1>2, <1>3

\* The break-even rule.
LEMMA EvenStep ==
    ASSUME Inv,
           \/ EvenTriggered \/ ArmEven \/ MoveToBreakEven \/ MoveFails
           \/ ApplyEven
    PROVE  Inv'
<1>0. /\ BaseType /\ NoRow \in RowType /\ NoRow.water = NoWater
      /\ NoRow.activated = FALSE
  BY NoRowType DEF Inv
<1>s. StopAt(Target) \in RowType /\ StopAt(Target).value = Target
  BY <1>0, StopAtType, PriceAssumption DEF Target, Level
<1>1. CASE EvenTriggered
  <2>t. /\ tick' \in [pc : Place, trail : RowType, left : 0..Opened]
        /\ tick'.pc \in {"next", "arm"} /\ tick'.trail = NoRow
        /\ tick'.left = tick.left
    BY <1>0, <1>1, ContinueType DEF EvenTriggered, Place
  <2>1. BaseType'
    BY <1>0, <1>1, <2>t, PartAssumption DEF BaseType, EvenTriggered,
       Triggered, ghosts, bounds, Place, Idle
  <2>2. LeftCovers'
    BY <1>0, <1>1, <2>t DEF Inv, BaseType, EvenTriggered, Triggered, ghosts,
       bounds, LeftCovers, Idle
  <2>3. WaterHeld'
    BY <1>0, <1>1, <2>t DEF Inv, BaseType, EvenTriggered, Triggered, ghosts,
       bounds, WaterHeld, Holding, Rule, Idle
  <2>4. CandidateImproves'
    BY <1>0, <1>1, <2>t DEF Inv, BaseType, EvenTriggered, Triggered, ghosts,
       bounds, CandidateImproves, Rule, Idle, Better, Water, Candidate,
       Target, Best, Favour
  <2>5. EvenApplied'
    BY <1>0, <1>1, <2>t DEF Inv, BaseType, EvenTriggered, Triggered, ghosts,
       bounds, EvenApplied, StopAtTarget, Rule, Idle, Better, Target
  <2>6. StageUnused'
    BY <1>0, <1>1, <2>t DEF Inv, BaseType, EvenTriggered, Triggered, ghosts,
       bounds, StageUnused, Rule, Idle
  <2>7. DraftGood'
    BY <1>0, <1>1, <2>t DEF Inv, BaseType, EvenTriggered, Triggered, ghosts,
       bounds, DraftGood, Rule, Idle, MarkKept, Better, Target
  <2> QED
    BY <2>1, <2>2, <2>3, <2>4, <2>5, <2>6, <2>7 DEF Inv
<1>2. CASE ArmEven
  <2> DEFINE new == [row["even"] EXCEPT !.st = "armed"]
  <2>1. new \in RowType /\ new.st = "armed"
    BY <1>0, FieldType DEF BaseType, Rule
  <2>2. PICK p \in {"even", "next"} :
            (Continue(p) /\ UNCHANGED draft) \/ Saves("even", new, p)
    BY <1>2 DEF ArmEven
  <2> HIDE DEF new
  <2>3. /\ tick.pc = "arm"
        /\ UNCHANGED <<setup, market, unit, row, touched, order, other, ghosts, bounds>>
    BY <1>2 DEF ArmEven
  <2>4. CASE Continue(p) /\ UNCHANGED draft
    BY <2>3, <2>4, MoveStep
  <2>5. CASE Saves("even", new, p)
    <3>1. "even" \in Rule /\ p \in Place
      BY DEF Rule, Place
    <3>2. draft'.rule = "even" /\ draft'.new = new /\ draft'.then = p
      BY <1>0, <2>1, <2>5, <3>1, SavesType
    <3>3. DraftGood'
      BY <2>1, <3>2 DEF DraftGood
    <3> QED
      BY <2>1, <2>3, <2>5, <3>1, <3>3, GotStep
  <2> QED
    BY <2>2, <2>4, <2>5
<1>3. CASE MoveToBreakEven /\ setup.live
  <2>t. /\ tick' \in [pc : Place, trail : RowType, left : 0..Opened]
        /\ tick'.pc = "applied" /\ tick'.trail = NoRow /\ tick'.left = tick.left
    BY <1>0, <1>3, ContinueType DEF MoveToBreakEven, Place
  <2>r. /\ row' \in [Rule -> RowType]
        /\ \A s \in Rule : s # "stop" => row'[s] = row[s]
        /\ row'["stop"].value = Target
    <3>1. Writes("stop", StopAt(Target))
      BY <1>3 DEF MoveToBreakEven
    <3> QED
      BY <1>0, <1>s, <3>1, WritesType DEF Rule
  <2>1. BaseType'
    BY <1>0, <1>3, <2>t, <2>r, PartAssumption DEF BaseType, MoveToBreakEven,
       ghosts, bounds, Place, Idle
  <2>2. LeftCovers'
    BY <1>0, <1>3, <2>t, <2>r DEF Inv, BaseType, MoveToBreakEven, ghosts,
       bounds, LeftCovers, Idle
  <2>3. WaterHeld'
    BY <1>0, <1>3, <2>t, <2>r DEF Inv, BaseType, MoveToBreakEven, ghosts,
       bounds, WaterHeld, Holding, Rule, Idle
  <2>4. CandidateImproves'
    BY <1>0, <1>3, <2>t, <2>r DEF Inv, BaseType, MoveToBreakEven, ghosts,
       bounds, CandidateImproves, Rule, Idle, Better, Water, Candidate,
       Target, Best, Favour
  <2>5. EvenApplied'
    BY <1>0, <1>3, <2>t, <2>r, PriceAssumption DEF Inv, BaseType,
       MoveToBreakEven, ghosts, bounds, EvenApplied, StopAtTarget, Rule, Idle,
       Better, Target
  <2>6. StageUnused'
    BY <1>0, <1>3, <2>t, <2>r DEF Inv, BaseType, MoveToBreakEven, ghosts,
       bounds, StageUnused, Rule, Idle
  <2>7. DraftGood'
    BY <1>0, <1>3, <2>t, <2>r DEF Inv, BaseType, MoveToBreakEven, ghosts,
       bounds, DraftGood, Rule, Idle, MarkKept, Better, Target
  <2> QED
    BY <2>1, <2>2, <2>3, <2>4, <2>5, <2>6, <2>7 DEF Inv
<1>4. CASE MoveToBreakEven /\ ~setup.live
  <2> DEFINE new == StopAt(Target)
  <2>1. new \in RowType /\ new.value = Target
    BY <1>s
  <2>2. Saves("stop", new, "applied")
    BY <1>4 DEF MoveToBreakEven
  <2> HIDE DEF new
  <2>3. /\ tick.pc = "even"
        /\ UNCHANGED <<setup, market, unit, row, touched, order, other, ghosts, bounds>>
    BY <1>4 DEF MoveToBreakEven, ghosts
  <2>4. "stop" \in Rule /\ "applied" \in Place
    BY DEF Rule, Place
  <2>5. draft'.rule = "stop" /\ draft'.new = new /\ draft'.then = "applied"
    BY <1>0, <2>1, <2>2, <2>4, SavesType
  <2>6. DraftGood'
    BY <2>1, <2>5 DEF DraftGood, Target
  <2> QED
    BY <2>1, <2>2, <2>3, <2>4, <2>6, GotStep
<1>5. CASE MoveFails
  <2>t. /\ tick' \in [pc : Place, trail : RowType, left : 0..Opened]
        /\ tick'.pc = "next" /\ tick'.trail = NoRow /\ tick'.left = tick.left
    BY <1>0, <1>5, ContinueType DEF MoveFails, Place
  <2>1. BaseType'
    BY <1>0, <1>5, <2>t, PartAssumption DEF BaseType, MoveFails, ghosts,
       bounds, Place, Idle
  <2>2. LeftCovers'
    BY <1>0, <1>5, <2>t DEF Inv, BaseType, MoveFails, ghosts, bounds,
       LeftCovers, Idle
  <2>3. WaterHeld'
    BY <1>0, <1>5, <2>t DEF Inv, BaseType, MoveFails, ghosts, bounds,
       WaterHeld, Holding, Rule, Idle
  <2>4. CandidateImproves'
    BY <1>0, <1>5, <2>t DEF Inv, BaseType, MoveFails, ghosts, bounds,
       CandidateImproves, Rule, Idle, Better, Water, Candidate, Target, Best,
       Favour
  <2>5. EvenApplied'
    BY <1>0, <1>5, <2>t DEF Inv, BaseType, MoveFails, ghosts, bounds,
       EvenApplied, StopAtTarget, Rule, Idle, Better, Target
  <2>6. StageUnused'
    BY <1>0, <1>5, <2>t DEF Inv, BaseType, MoveFails, ghosts, bounds,
       StageUnused, Rule, Idle
  <2>7. DraftGood'
    BY <1>0, <1>5, <2>t DEF Inv, BaseType, MoveFails, ghosts, bounds,
       DraftGood, Rule, Idle, MarkKept, Better, Target
  <2> QED
    BY <2>1, <2>2, <2>3, <2>4, <2>5, <2>6, <2>7 DEF Inv
<1>6. CASE ApplyEven
  <2>t. /\ tick' \in [pc : Place, trail : RowType, left : 0..Opened]
        /\ tick'.pc = "next" /\ tick'.trail = NoRow /\ tick'.left = tick.left
    BY <1>0, <1>6, ContinueType DEF ApplyEven, Place
  <2>r. /\ row' \in [Rule -> RowType]
        /\ \A s \in Rule : s # "even" => row'[s] = row[s]
    <3>1. row["even"] \in RowType
      BY <1>0 DEF BaseType, Rule
    <3>2. [row["even"] EXCEPT !.on = FALSE, !.st = "applied"] \in RowType
      BY <3>1, FieldType
    <3>3. Writes("even", [row["even"] EXCEPT !.on = FALSE, !.st = "applied"])
      BY <1>6 DEF ApplyEven
    <3>4. /\ row' \in [Rule -> RowType]
          /\ \A s \in Rule : s # "even" => row'[s] = row[s]
          /\ row'["even"] = [row["even"] EXCEPT !.on = FALSE, !.st = "applied"]
      BY <1>0, <3>2, <3>3, WritesType DEF Rule
    <3> QED
      BY <3>1, <3>4, FieldType
  <2>1. BaseType'
    BY <1>0, <1>6, <2>t, <2>r, PartAssumption DEF BaseType, ApplyEven, ghosts,
       bounds, Place, Idle
  <2>2. LeftCovers'
    BY <1>0, <1>6, <2>t, <2>r DEF Inv, BaseType, ApplyEven, ghosts, bounds,
       LeftCovers, Idle
  <2>3. WaterHeld'
    BY <1>0, <1>6, <2>t, <2>r DEF Inv, BaseType, ApplyEven, ghosts, bounds,
       WaterHeld, Holding, Rule, Idle
  <2>4. CandidateImproves'
    BY <1>0, <1>6, <2>t, <2>r DEF Inv, BaseType, ApplyEven, ghosts, bounds,
       CandidateImproves, Rule, Idle, Better, Water, Candidate, Target, Best,
       Favour
  <2>5. EvenApplied'
    BY <1>0, <1>6, <2>t, <2>r DEF Inv, BaseType, ApplyEven, ghosts, bounds,
       EvenApplied, StopAtTarget, Rule, Idle, Better, Target
  <2>6. StageUnused'
    BY <1>0, <1>6, <2>t, <2>r DEF Inv, BaseType, ApplyEven, ghosts, bounds,
       StageUnused, Rule, Idle
  <2>7. DraftGood'
    BY <1>0, <1>6, <2>t, <2>r DEF Inv, BaseType, ApplyEven, ghosts, bounds,
       DraftGood, Rule, Idle, MarkKept, Better, Target
  <2> QED
    BY <2>1, <2>2, <2>3, <2>4, <2>5, <2>6, <2>7 DEF Inv
<1> QED
  BY <1>1, <1>2, <1>3, <1>4, <1>5, <1>6

-----------------------------------------------------------------------------
(* Fills.                                                                  *)

\* A fill of the reduce order.
LEMMA FillStep ==
    ASSUME Inv, NEW q \in 1..Opened,
           \/ FillReduce(q) \/ CrashInFill(q)
    PROVE  Inv'
<1>0. /\ BaseType /\ NoRow \in RowType /\ NoRow.water = NoWater
      /\ NoRow.activated = FALSE
  BY NoRowType DEF Inv
<1>1. CASE FillReduce(q)
  <2>r. /\ row' \in [Rule -> RowType]
        /\ \A s \in Rule : s # "stage" => row'[s] = row[s]
        /\ row'["stage"].on => row["stage"].on /\ unit.rule # "stage"
    <3>1. (row' = row /\ unit.rule # "stage") \/ row' = Fire("stage")
      BY <1>1 DEF FillReduce, CompleteOneShotRule
    <3> QED
      BY <1>0, <3>1, FireType DEF BaseType
  <2>u. /\ unit' \in [status : {"open", "reducing", "closing", "closed"},
                       left : 0..Opened, rule : Rule \cup {"none"}]
        /\ order' \in [left : 0..Opened, filled : BOOLEAN]
        /\ unit'.rule = unit.rule /\ order'.filled
        /\ unit'.status = "reducing" => order'.left <= unit'.left
    <3>1. /\ unit \in [status : {"open", "reducing", "closing", "closed"},
                       left : 0..Opened, rule : Rule \cup {"none"}]
          /\ order.left \in 0..Opened /\ order.left <= unit.left
      BY <1>0, <1>1 DEF BaseType, FillReduce, Inv, LeftCovers
    <3>2. PICK st \in {"open", "reducing"} :
              unit' = [unit EXCEPT !.left = unit.left - q, !.status = st]
      BY <1>1, <3>1 DEF FillReduce
    <3>3. /\ unit.left - q \in 0..Opened /\ order.left - q \in 0..Opened
          /\ order.left - q <= unit.left - q
      BY <1>1, <3>1, PartAssumption DEF FillReduce
    <3>4. order' = [left |-> order.left - q, filled |-> TRUE]
      BY <1>1 DEF FillReduce
    <3> QED
      BY <3>1, <3>2, <3>3, <3>4
  <2>1. BaseType'
    BY <1>0, <1>1, <2>r, <2>u, PartAssumption DEF BaseType, FillReduce,
       ghosts, bounds, Place, Idle
  <2>2. LeftCovers'
    BY <1>0, <1>1, <2>r, <2>u DEF Inv, BaseType, FillReduce, ghosts, bounds,
       LeftCovers, Idle
  <2>3. WaterHeld'
    BY <1>0, <1>1, <2>r, <2>u DEF Inv, BaseType, FillReduce, ghosts, bounds,
       WaterHeld, Holding, Rule, Idle
  <2>4. CandidateImproves'
    BY <1>0, <1>1, <2>r, <2>u DEF Inv, BaseType, FillReduce, ghosts, bounds,
       CandidateImproves, Rule, Idle, Better, Water, Candidate, Target, Best,
       Favour
  <2>5. EvenApplied'
    BY <1>0, <1>1, <2>r, <2>u DEF Inv, BaseType, FillReduce, ghosts, bounds,
       EvenApplied, StopAtTarget, Rule, Idle, Better, Target
  <2>6. StageUnused'
    BY <1>0, <1>1, <2>r, <2>u DEF Inv, BaseType, FillReduce, ghosts, bounds,
       StageUnused, Rule, Idle
  <2>7. DraftGood'
    BY <1>0, <1>1, <2>r, <2>u DEF Inv, BaseType, FillReduce, ghosts, bounds,
       DraftGood, Rule, Idle, MarkKept, Better, Target
  <2> QED
    BY <2>1, <2>2, <2>3, <2>4, <2>5, <2>6, <2>7 DEF Inv
<1>2. CASE CrashInFill(q)
  <2>u. /\ unit' \in [status : {"open", "reducing", "closing", "closed"},
                       left : 0..Opened, rule : Rule \cup {"none"}]
        /\ order' \in [left : 0..Opened, filled : BOOLEAN]
        /\ unit'.rule = unit.rule /\ order'.filled
        /\ unit'.status = "reducing" => order'.left <= unit'.left
    <3>1. /\ unit \in [status : {"open", "reducing", "closing", "closed"},
                       left : 0..Opened, rule : Rule \cup {"none"}]
          /\ order.left \in 0..Opened /\ order.left <= unit.left
      BY <1>0, <1>2 DEF BaseType, CrashInFill, Inv, LeftCovers
    <3>2. PICK st \in {"open", "reducing"} :
              unit' = [unit EXCEPT !.left = unit.left - q, !.status = st]
      BY <1>2, <3>1 DEF CrashInFill
    <3>3. /\ unit.left - q \in 0..Opened /\ order.left - q \in 0..Opened
          /\ order.left - q <= unit.left - q
      BY <1>2, <3>1, PartAssumption DEF CrashInFill
    <3>4. order' = [left |-> order.left - q, filled |-> TRUE]
      BY <1>2 DEF CrashInFill
    <3> QED
      BY <3>1, <3>2, <3>3, <3>4
  <2>1. BaseType'
    BY <1>0, <1>2, <2>u, PartAssumption DEF BaseType, CrashInFill, ghosts,
       bounds, Place, Idle
  <2>2. LeftCovers'
    BY <1>0, <1>2, <2>u DEF Inv, BaseType, CrashInFill, ghosts, bounds,
       LeftCovers, Idle
  <2>3. WaterHeld'
    BY <1>0, <1>2, <2>u DEF Inv, BaseType, CrashInFill, ghosts, bounds,
       WaterHeld, Holding, Rule, Idle
  <2>4. CandidateImproves'
    BY <1>0, <1>2, <2>u DEF Inv, BaseType, CrashInFill, ghosts, bounds,
       CandidateImproves, Rule, Idle, Better, Water, Candidate, Target, Best,
       Favour
  <2>5. EvenApplied'
    BY <1>0, <1>2, <2>u DEF Inv, BaseType, CrashInFill, ghosts, bounds,
       EvenApplied, StopAtTarget, Rule, Idle, Better, Target
  <2>6. StageUnused'
    BY <1>0, <1>2, <2>u DEF Inv, BaseType, CrashInFill, ghosts, bounds,
       StageUnused, Rule, Idle
  <2>7. DraftGood'
    BY <1>0, <1>2, <2>u DEF Inv, BaseType, CrashInFill, ghosts, bounds,
       DraftGood, Rule, Idle, MarkKept, Better, Target
  <2> QED
    BY <2>1, <2>2, <2>3, <2>4, <2>5, <2>6, <2>7 DEF Inv
<1> QED
  BY <1>1, <1>2

\* The order ends, or its fill is delivered again.
LEMMA OrderStep ==
    ASSUME Inv,
           \/ RedeliverReduce \/ ReduceEnds \/ CloseEnds \/ Crash
    PROVE  Inv'
<1>0. /\ BaseType /\ NoRow \in RowType /\ NoRow.water = NoWater
      /\ NoRow.activated = FALSE
  BY NoRowType DEF Inv
<1>1. CASE RedeliverReduce
  <2>r. /\ row' \in [Rule -> RowType]
        /\ \A s \in Rule : s # "stage" => row'[s] = row[s]
        /\ row'["stage"].on => row["stage"].on /\ unit.rule # "stage"
    <3>1. (row' = row /\ unit.rule # "stage") \/ row' = Fire("stage")
      BY <1>1 DEF RedeliverReduce, CompleteOneShotRule
    <3> QED
      BY <1>0, <3>1, FireType DEF BaseType
  <2>1. BaseType'
    BY <1>0, <1>1, <2>r, PartAssumption DEF BaseType, RedeliverReduce, ghosts,
       bounds, Place, Idle
  <2>2. LeftCovers'
    BY <1>0, <1>1, <2>r DEF Inv, BaseType, RedeliverReduce, ghosts, bounds,
       LeftCovers, Idle
  <2>3. WaterHeld'
    BY <1>0, <1>1, <2>r DEF Inv, BaseType, RedeliverReduce, ghosts, bounds,
       WaterHeld, Holding, Rule, Idle
  <2>4. CandidateImproves'
    BY <1>0, <1>1, <2>r DEF Inv, BaseType, RedeliverReduce, ghosts, bounds,
       CandidateImproves, Rule, Idle, Better, Water, Candidate, Target, Best,
       Favour
  <2>5. EvenApplied'
    BY <1>0, <1>1, <2>r DEF Inv, BaseType, RedeliverReduce, ghosts, bounds,
       EvenApplied, StopAtTarget, Rule, Idle, Better, Target
  <2>6. StageUnused'
    BY <1>0, <1>1, <2>r DEF Inv, BaseType, RedeliverReduce, ghosts, bounds,
       StageUnused, Rule, Idle
  <2>7. DraftGood'
    BY <1>0, <1>1, <2>r DEF Inv, BaseType, RedeliverReduce, ghosts, bounds,
       DraftGood, Rule, Idle, MarkKept, Better, Target
  <2> QED
    BY <2>1, <2>2, <2>3, <2>4, <2>5, <2>6, <2>7 DEF Inv
<1>2. CASE ReduceEnds
  <2>1. BaseType'
    BY <1>0, <1>2, PartAssumption DEF BaseType, ReduceEnds, ghosts, bounds,
       Place, Idle
  <2>2. LeftCovers'
    BY <1>0, <1>2 DEF Inv, BaseType, ReduceEnds, ghosts, bounds, LeftCovers, Idle
  <2>3. WaterHeld'
    BY <1>0, <1>2 DEF Inv, BaseType, ReduceEnds, ghosts, bounds, WaterHeld,
       Holding, Rule, Idle
  <2>4. CandidateImproves'
    BY <1>0, <1>2 DEF Inv, BaseType, ReduceEnds, ghosts, bounds,
       CandidateImproves, Rule, Idle, Better, Water, Candidate, Target, Best,
       Favour
  <2>5. EvenApplied'
    BY <1>0, <1>2 DEF Inv, BaseType, ReduceEnds, ghosts, bounds, EvenApplied,
       StopAtTarget, Rule, Idle, Better, Target
  <2>6. StageUnused'
    BY <1>0, <1>2 DEF Inv, BaseType, ReduceEnds, ghosts, bounds, StageUnused,
       Rule, Idle
  <2>7. DraftGood'
    BY <1>0, <1>2 DEF Inv, BaseType, ReduceEnds, ghosts, bounds, DraftGood,
       Rule, Idle, MarkKept, Better, Target
  <2> QED
    BY <2>1, <2>2, <2>3, <2>4, <2>5, <2>6, <2>7 DEF Inv
<1>3. CASE CloseEnds
  <2>u. /\ unit' \in [status : {"open", "reducing", "closing", "closed"},
                       left : 0..Opened, rule : Rule \cup {"none"}]
        /\ unit'.status # "reducing"
    <3>1. \/ unit' = [unit EXCEPT !.status = "closed", !.left = 0]
          \/ unit' = [unit EXCEPT !.status = "open"]
      BY <1>3 DEF CloseEnds
    <3>2. unit \in [status : {"open", "reducing", "closing", "closed"},
                    left : 0..Opened, rule : Rule \cup {"none"}]
      BY <1>0 DEF BaseType
    <3>3. CASE unit' = [unit EXCEPT !.status = "closed", !.left = 0]
      <4>1. 0 \in 0..Opened
        BY PartAssumption
      <4> QED
        BY <3>2, <3>3, <4>1
    <3>4. CASE unit' = [unit EXCEPT !.status = "open"]
      BY <3>2, <3>4
    <3> QED
      BY <3>1, <3>3, <3>4
  <2>1. BaseType'
    BY <1>0, <1>3, <2>u, PartAssumption DEF BaseType, CloseEnds, ghosts,
       bounds, Place, Idle
  <2>2. LeftCovers'
    BY <1>0, <1>3, <2>u DEF Inv, BaseType, CloseEnds, ghosts, bounds,
       LeftCovers, Idle
  <2>3. WaterHeld'
    BY <1>0, <1>3, <2>u DEF Inv, BaseType, CloseEnds, ghosts, bounds,
       WaterHeld, Holding, Rule, Idle
  <2>4. CandidateImproves'
    BY <1>0, <1>3, <2>u DEF Inv, BaseType, CloseEnds, ghosts, bounds,
       CandidateImproves, Rule, Idle, Better, Water, Candidate, Target, Best,
       Favour
  <2>5. EvenApplied'
    BY <1>0, <1>3, <2>u DEF Inv, BaseType, CloseEnds, ghosts, bounds,
       EvenApplied, StopAtTarget, Rule, Idle, Better, Target
  <2>6. StageUnused'
    BY <1>0, <1>3, <2>u DEF Inv, BaseType, CloseEnds, ghosts, bounds,
       StageUnused, Rule, Idle
  <2>7. DraftGood'
    BY <1>0, <1>3, <2>u DEF Inv, BaseType, CloseEnds, ghosts, bounds,
       DraftGood, Rule, Idle, MarkKept, Better, Target
  <2> QED
    BY <2>1, <2>2, <2>3, <2>4, <2>5, <2>6, <2>7 DEF Inv
<1>4. CASE Crash
  <2>1. BaseType'
    BY <1>0, <1>4, PartAssumption, NoDraftType DEF BaseType, Crash, EndTick, ghosts,
       bounds, Place, Idle
  <2>2. LeftCovers'
    BY <1>0, <1>4 DEF Inv, BaseType, Crash, EndTick, ghosts, bounds,
       LeftCovers, Idle
  <2>3. WaterHeld'
    BY <1>0, <1>4 DEF Inv, BaseType, Crash, EndTick, ghosts, bounds,
       WaterHeld, Holding, Rule, Idle
  <2>4. CandidateImproves'
    BY <1>0, <1>4 DEF Inv, BaseType, Crash, EndTick, ghosts, bounds,
       CandidateImproves, Rule, Idle, Better, Water, Candidate, Target, Best,
       Favour
  <2>5. EvenApplied'
    BY <1>0, <1>4 DEF Inv, BaseType, Crash, EndTick, ghosts, bounds,
       EvenApplied, StopAtTarget, Rule, Idle, Better, Target
  <2>6. StageUnused'
    BY <1>0, <1>4 DEF Inv, BaseType, Crash, EndTick, ghosts, bounds,
       StageUnused, Rule, Idle
  <2>7. DraftGood'
    BY <1>0, <1>4 DEF Inv, BaseType, Crash, EndTick, ghosts, bounds,
       DraftGood, Rule, Idle, MarkKept, Better, Target
  <2> QED
    BY <2>1, <2>2, <2>3, <2>4, <2>5, <2>6, <2>7 DEF Inv
<1> QED
  BY <1>1, <1>2, <1>3, <1>4

-----------------------------------------------------------------------------
(* The operator.                                                           *)

\* A rule is enabled, disabled or reset.
LEMMA EditStep ==
    ASSUME Inv, NEW r \in Rule,
           EditRule(r)
    PROVE  Inv'
<1>0. /\ BaseType /\ NoRow \in RowType /\ NoRow.water = NoWater
      /\ NoRow.activated = FALSE
  BY NoRowType DEF Inv
<1>1. CASE EditRule(r)
  <2>r. /\ row' \in [Rule -> RowType]
        /\ \A s \in Rule : s # r => row'[s] = row[s]
        /\ row'[r].water \in {row[r].water, NoWater}
        /\ row'[r].water # NoWater => row'[r].activated = row[r].activated
        /\ row'[r].st \in {row[r].st, "none"}
    <3>1. row \in [Rule -> RowType] /\ row[r] \in RowType
      BY <1>0 DEF BaseType
    <3>2. FreshRow(setup.side, r) \in RowType
      BY <1>0, SetupType, FreshType DEF BaseType
    <3>3. /\ FreshRow(setup.side, r).water = NoWater
          /\ FreshRow(setup.side, r).st = "none"
      BY DEF FreshRow
    <3>4. PICK old \in {row[r], FreshRow(setup.side, r)}, b \in BOOLEAN :
              row' = [row EXCEPT ![r] = [old EXCEPT !.on = b]]
      <4>1. PICK on \in BOOLEAN, keep \in BOOLEAN :
                row' = [row EXCEPT ![r] = IF keep THEN [row[r] EXCEPT !.on = on]
                                          ELSE [FreshRow(setup.side,
                                             r) EXCEPT !.on = on]]
        BY <1>1, <3>1 DEF EditRule
      <4>2. CASE keep
        BY <4>1, <4>2
      <4>3. CASE ~keep
        BY <4>1, <4>3
      <4> QED
        BY <4>2, <4>3
    <3> DEFINE new == [old EXCEPT !.on = b]
    <3>5. new \in RowType /\ new.water = old.water /\ new.st = old.st
          /\ new.activated = old.activated
      BY <3>1, <3>2, FieldType
    <3> HIDE DEF new
    <3>6. row' \in [Rule -> RowType] /\ row'[r] = new
          /\ \A s \in Rule : s # r => row'[s] = row[s]
      BY <3>1, <3>4, <3>5 DEF new
    <3> QED
      BY <3>3, <3>4, <3>5, <3>6
  <2>1. BaseType'
    BY <1>0, <1>1, <2>r, PartAssumption DEF BaseType, EditRule, Command,
       Touch, ghosts, bounds, Place, Idle
  <2>2. LeftCovers'
    BY <1>0, <1>1, <2>r DEF Inv, BaseType, EditRule, Command, Touch, ghosts,
       bounds, LeftCovers, Idle
  <2>3. WaterHeld'
    BY <1>0, <1>1, <2>r DEF Inv, BaseType, EditRule, Command, Touch, ghosts,
       bounds, WaterHeld, Holding, Rule, Idle
  <2>4. CandidateImproves'
    BY <1>0, <1>1, <2>r DEF Inv, BaseType, EditRule, Command, Touch, ghosts,
       bounds, CandidateImproves, Rule, Idle, Better, Water, Candidate,
       Target, Best, Favour
  <2>5. EvenApplied'
    BY <1>0, <1>1, <2>r DEF Inv, BaseType, EditRule, Command, Touch, ghosts,
       bounds, EvenApplied, StopAtTarget, Rule, Idle, Better, Target
  <2>6. StageUnused'
    BY <1>0, <1>1, <2>r DEF Inv, BaseType, EditRule, Command, Touch, ghosts,
       bounds, StageUnused, Rule, Idle
  <2>7. DraftGood'
    BY <1>0, <1>1, <2>r DEF Inv, BaseType, EditRule, Command, Touch, ghosts,
       bounds, DraftGood, Rule, Idle, MarkKept, Better, Target
  <2> QED
    BY <2>1, <2>2, <2>3, <2>4, <2>5, <2>6, <2>7 DEF Inv
<1> QED
  BY <1>1

\* The stop is moved, or the unit reduced or closed.
LEMMA CommandStep ==
    ASSUME Inv,
           \/ EditStop \/ RequestReduce \/ RequestClose
    PROVE  Inv'
<1>0. /\ BaseType /\ NoRow \in RowType /\ NoRow.water = NoWater
      /\ NoRow.activated = FALSE
  BY NoRowType DEF Inv
<1>1. CASE EditStop
  <2>r. /\ row' \in [Rule -> RowType]
        /\ \A s \in Rule : s # "stop" => row'[s] = row[s]
    <3>1. row["stop"] \in RowType
      BY <1>0 DEF BaseType, Rule
    <3>2. PICK v \in Price : Writes("stop", [row["stop"] EXCEPT !.value = v])
      BY <1>1 DEF EditStop
    <3>3. [row["stop"] EXCEPT !.value = v] \in RowType
      <4>1. v \in Level
        BY PriceAssumption DEF Price, Level
      <4> QED
        BY <3>1, <4>1, FieldType
    <3> QED
      BY <1>0, <3>2, <3>3, WritesType DEF Rule
  <2>1. BaseType'
    BY <1>0, <1>1, <2>r, PartAssumption DEF BaseType, EditStop, Command,
       Touch, ghosts, bounds, Place, Idle
  <2>2. LeftCovers'
    BY <1>0, <1>1, <2>r DEF Inv, BaseType, EditStop, Command, Touch, ghosts,
       bounds, LeftCovers, Idle
  <2>3. WaterHeld'
    BY <1>0, <1>1, <2>r DEF Inv, BaseType, EditStop, Command, Touch, ghosts,
       bounds, WaterHeld, Holding, Rule, Idle
  <2>4. CandidateImproves'
    BY <1>0, <1>1, <2>r DEF Inv, BaseType, EditStop, Command, Touch, ghosts,
       bounds, CandidateImproves, Rule, Idle, Better, Water, Candidate,
       Target, Best, Favour
  <2>5. EvenApplied'
    BY <1>0, <1>1, <2>r DEF Inv, BaseType, EditStop, Command, Touch, ghosts,
       bounds, EvenApplied, StopAtTarget, Rule, Idle, Better, Target
  <2>6. StageUnused'
    BY <1>0, <1>1, <2>r DEF Inv, BaseType, EditStop, Command, Touch, ghosts,
       bounds, StageUnused, Rule, Idle
  <2>7. DraftGood'
    BY <1>0, <1>1, <2>r DEF Inv, BaseType, EditStop, Command, Touch, ghosts,
       bounds, DraftGood, Rule, Idle, MarkKept, Better, Target
  <2> QED
    BY <2>1, <2>2, <2>3, <2>4, <2>5, <2>6, <2>7 DEF Inv
<1>2. CASE RequestReduce
  <2>u. /\ unit' \in [status : {"open", "reducing", "closing", "closed"},
                       left : 0..Opened, rule : Rule \cup {"none"}]
        /\ order' \in [left : 0..Opened, filled : BOOLEAN]
        /\ setup.live => unit'.left = unit.left
        /\ unit'.status = "reducing" => /\ setup.live /\ unit'.rule = "none"
                                        /\ order'.left <= unit'.left
    <3>1. /\ unit \in [status : {"open", "reducing", "closing", "closed"},
                       left : 0..Opened, rule : Rule \cup {"none"}]
          /\ order \in [left : 0..Opened, filled : BOOLEAN]
          /\ unit.left > 1 /\ unit.status = "open"
      BY <1>0, <1>2 DEF BaseType, RequestReduce
    <3>2. CASE setup.live
      <4>1. /\ unit' = [unit EXCEPT !.status = "reducing", !.rule = "none"]
            /\ order' = [left |-> 1, filled |-> FALSE]
        BY <1>2, <3>2 DEF RequestReduce
      <4>2. 1 \in 0..Opened
        BY PartAssumption
      <4>3. order' \in [left : 0..Opened, filled : BOOLEAN] /\ order'.left = 1
        BY <4>1, <4>2
      <4>4. /\ unit' \in [status : {"open", "reducing", "closing", "closed"},
                         left : 0..Opened, rule : Rule \cup {"none"}]
            /\ unit'.left = unit.left /\ unit'.rule = "none"
        BY <3>1, <4>1
      <4>5. 1 <= unit.left
        BY <3>1
      <4> QED
        BY <3>2, <4>3, <4>4, <4>5
    <3>3. CASE ~setup.live
      <4>1. unit' = [unit EXCEPT !.left = unit.left - 1] /\ order' = order
        BY <1>2, <3>1, <3>3 DEF RequestReduce
      <4>2. unit.left - 1 \in 0..Opened
        BY <3>1, PartAssumption
      <4> QED
        BY <3>1, <3>3, <4>1, <4>2
    <3> QED
      BY <3>2, <3>3
  <2>1. BaseType'
    BY <1>0, <1>2, <2>u, PartAssumption DEF BaseType, RequestReduce, Command,
       Touch, ghosts, bounds, Place, Idle
  <2>2. LeftCovers'
    BY <1>0, <1>2, <2>u DEF Inv, BaseType, RequestReduce, Command, Touch,
       ghosts, bounds, LeftCovers, Idle
  <2>3. WaterHeld'
    BY <1>0, <1>2, <2>u DEF Inv, BaseType, RequestReduce, Command, Touch,
       ghosts, bounds, WaterHeld, Holding, Rule, Idle
  <2>4. CandidateImproves'
    BY <1>0, <1>2, <2>u DEF Inv, BaseType, RequestReduce, Command, Touch,
       ghosts, bounds, CandidateImproves, Rule, Idle, Better, Water,
       Candidate, Target, Best, Favour
  <2>5. EvenApplied'
    BY <1>0, <1>2, <2>u DEF Inv, BaseType, RequestReduce, Command, Touch,
       ghosts, bounds, EvenApplied, StopAtTarget, Rule, Idle, Better, Target
  <2>6. StageUnused'
    BY <1>0, <1>2, <2>u DEF Inv, BaseType, RequestReduce, Command, Touch,
       ghosts, bounds, StageUnused, Rule, Idle
  <2>7. DraftGood'
    BY <1>0, <1>2, <2>u DEF Inv, BaseType, RequestReduce, Command, Touch,
       ghosts, bounds, DraftGood, Rule, Idle, MarkKept, Better, Target
  <2> QED
    BY <2>1, <2>2, <2>3, <2>4, <2>5, <2>6, <2>7 DEF Inv
<1>3. CASE RequestClose
  <2>u. /\ unit' \in [status : {"open", "reducing", "closing", "closed"},
                       left : 0..Opened, rule : Rule \cup {"none"}]
        /\ setup.live => unit'.left = unit.left
        /\ unit'.status # "reducing"
    <3>1. \/ ~setup.live /\ unit' = [unit EXCEPT !.status = "closed", !.left = 0]
          \/ unit' = [unit EXCEPT !.status = "closing", !.rule = "none"]
      BY <1>3 DEF RequestClose
    <3>2. unit \in [status : {"open", "reducing", "closing", "closed"},
                    left : 0..Opened, rule : Rule \cup {"none"}]
      BY <1>0 DEF BaseType
    <3>3. CASE ~setup.live /\ unit' = [unit EXCEPT !.status = "closed",
       !.left = 0]
      <4>1. 0 \in 0..Opened
        BY PartAssumption
      <4> QED
        BY <3>2, <3>3, <4>1
    <3>4. CASE unit' = [unit EXCEPT !.status = "closing", !.rule = "none"]
      BY <3>2, <3>4
    <3> QED
      BY <3>1, <3>3, <3>4
  <2>1. BaseType'
    BY <1>0, <1>3, <2>u, PartAssumption DEF BaseType, RequestClose, Command,
       Touch, ghosts, bounds, Place, Idle
  <2>2. LeftCovers'
    BY <1>0, <1>3, <2>u DEF Inv, BaseType, RequestClose, Command, Touch,
       ghosts, bounds, LeftCovers, Idle
  <2>3. WaterHeld'
    BY <1>0, <1>3, <2>u DEF Inv, BaseType, RequestClose, Command, Touch,
       ghosts, bounds, WaterHeld, Holding, Rule, Idle
  <2>4. CandidateImproves'
    BY <1>0, <1>3, <2>u DEF Inv, BaseType, RequestClose, Command, Touch,
       ghosts, bounds, CandidateImproves, Rule, Idle, Better, Water,
       Candidate, Target, Best, Favour
  <2>5. EvenApplied'
    BY <1>0, <1>3, <2>u DEF Inv, BaseType, RequestClose, Command, Touch,
       ghosts, bounds, EvenApplied, StopAtTarget, Rule, Idle, Better, Target
  <2>6. StageUnused'
    BY <1>0, <1>3, <2>u DEF Inv, BaseType, RequestClose, Command, Touch,
       ghosts, bounds, StageUnused, Rule, Idle
  <2>7. DraftGood'
    BY <1>0, <1>3, <2>u DEF Inv, BaseType, RequestClose, Command, Touch,
       ghosts, bounds, DraftGood, Rule, Idle, MarkKept, Better, Target
  <2> QED
    BY <2>1, <2>2, <2>3, <2>4, <2>5, <2>6, <2>7 DEF Inv
<1> QED
  BY <1>1, <1>2, <1>3

-----------------------------------------------------------------------------
LEMMA NextInv == Inv /\ [Next]_vars => Inv'
<1> SUFFICES ASSUME Inv, [Next]_vars PROVE Inv'
  OBVIOUS
<1>1. CASE UNCHANGED vars
  BY <1>1 DEF Inv, BaseType, LeftCovers, WaterHeld, CandidateImproves, EvenApplied,
     StopAtTarget, StageUnused, DraftGood, MarkKept, Better, Water, Candidate, Best,
     Favour, vars
<1>2. CASE TickStep
  BY <1>2, ReadStep, SaveStep, TrailStep, AmendStep, ConditionStep, CloseStep,
     StageStep, EvenStep DEF TickStep
<1>3. CASE Fills \/ Crash
  BY <1>3, FillStep, OrderStep DEF Fills
<1>4. CASE Operator
  BY <1>4, EditStep, CommandStep DEF Operator
<1>5. CASE Observe \/ ObservationAges \/ OtherFallsDue
  BY <1>5, MarketStep
<1> QED
  BY <1>1, <1>2, <1>3, <1>4, <1>5 DEF Next

LEMMA SpecInv == Spec => []Inv
<1> QED
  BY InitInv, NextInv, PTL DEF Spec

\* The variables have their types.
THEOREM RulesTypes == Spec => []TypeOK
<1>1. Inv => TypeOK
  BY DEF Inv, BaseType, TypeOK
<1> QED
  BY <1>1, SpecInv, PTL

\* A staged take-profit reduces the unit at most once each time it is enabled,
\* unless the process died between a reduction and the rule's completion.
THEOREM StageReducesOnce == Spec => []StageOnce
<1>1. Inv => StageOnce
  BY DEF Inv, StageUnused, StageOnce
<1> QED
  BY <1>1, SpecInv, PTL

\* The stop of an applied break-even rule is at the break-even price or better
\* until the operator moves it.
THEOREM BreakEvenStays == Spec => []BreakEvenHolds
<1>1. Inv => BreakEvenHolds
  BY DEF Inv, EvenApplied, StopAtTarget, BreakEvenHolds
<1> QED
  BY <1>1, SpecInv, PTL

-----------------------------------------------------------------------------
(* The action properties.                                                  *)

\* What WaterKeeps says of a step.
WaterAct ==
    row["trail"].water # NoWater /\ edits' = edits
        => /\ row["trail"].water # row'["trail"].water
                 => Better(row'["trail"].water, row["trail"].water)
           /\ row'["trail"].water # NoWater

\* What TrailingTightens says of a step.
TightenAct ==
    setup.live /\ tick.pc = "amend" /\ tick'.pc = "trailed"
        => Better(row'["stop"].value, row["stop"].value)

\* The row of the trailing rule stays, or the step is a command.
TrailKept == row'["trail"] = row["trail"] \/ edits' # edits

\* A row that was got is saved: the trailing rule's mark is no worse than the one in
\* place.
LEMMA SavedWater == ASSUME Inv, SaveRow PROVE WaterAct
<1>1. /\ draft.rule \in Rule /\ draft.new \in RowType /\ "trail" \in Rule /\ BaseType
      /\ Writes(draft.rule, draft.new) /\ tick.pc = "save"
  BY DEF Inv, BaseType, Rule, SaveRow
<1>2. /\ row'[draft.rule] = draft.new
      /\ \A s \in Rule : s # draft.rule => row'[s] = row[s]
  BY <1>1, WritesType
<1>3. CASE draft.rule = "trail"
  <2>1. MarkKept(draft.new)
    BY <1>1, <1>3 DEF Inv, DraftGood
  <2> QED
    BY <1>2, <1>3, <2>1 DEF MarkKept, WaterAct
<1>4. CASE draft.rule # "trail"
  BY <1>1, <1>2, <1>4 DEF WaterAct
<1> QED
  BY <1>3, <1>4

LEMMA KeptWater == TrailKept => WaterAct
<1> QED
  BY DEF TrailKept, WaterAct

\* No other step writes the trailing rule.
LEMMA OtherKeepsTrail ==
    ASSUME Inv, Next, ~SaveRow
    PROVE  TrailKept
<1>0. BaseType /\ row \in [Rule -> RowType] /\ edits \in Nat
  BY DEF Inv, BaseType
<1>1. ASSUME NEW r \in Rule \ {"trail"}, NEW new, Writes(r, new)
      PROVE  row'["trail"] = row["trail"]
  BY <1>0, <1>1 DEF Writes, Rule
<1>2. CASE AmendStop \/ MoveToBreakEven
  BY <1>1, <1>2 DEF AmendStop, MoveToBreakEven, TrailKept, Rule
<1>3. CASE ApplyEven
  BY <1>1, <1>3 DEF ApplyEven, TrailKept, Rule
<1>9. CASE \/ ArmEven \/ TrailingStale \/ TrailingWaits \/ TrailingProfit
           \/ NoImprovement \/ RecordTrailing
  BY <1>9 DEF ArmEven, TrailingStale, TrailingWaits, TrailingProfit, NoImprovement,
     RecordTrailing, TrailKept
<1>4. CASE StageCompletes \/ RedeliverReduce \/ \E q \in 1..Opened : FillReduce(q)
  <2>1. row' = row \/ row' = Fire("stage")
    BY <1>4 DEF StageCompletes, RedeliverReduce, FillReduce, CompleteOneShotRule
  <2> QED
    BY <1>0, <2>1, FireType DEF TrailKept, Rule
<1>5. CASE Operator
  <2>1. row' = row \/ edits' = edits + 1
    BY <1>5 DEF Operator, EditRule, EditStop, RequestReduce, RequestClose, Command
  <2> QED
    BY <1>0, <2>1 DEF TrailKept
<1>6. CASE Observe \/ ObservationAges \/ OtherFallsDue \/ ReduceEnds \/ CloseEnds \/ Crash
           \/ \E q \in 1..Opened : CrashInFill(q)
  BY <1>6 DEF Observe, ObservationAges, OtherFallsDue, ReduceEnds, CloseEnds, Crash,
     CrashInFill, TrailKept
<1>7. CASE BeginTick \/ NextUnit \/ ReadTrailing \/ NoAmend \/ Improvement \/ AmendFails
  BY <1>7 DEF BeginTick, NextUnit, ReadTrailing, NoAmend, Improvement, AmendFails,
     TrailKept
<1>8. CASE \/ NothingTriggered \/ ReviewTriggered \/ StageClaims \/ StageReduces
           \/ EvenTriggered \/ MoveFails
           \/ \E r \in Rule : CloseTriggered(r) \/ TickRaises(r)
  BY <1>8 DEF NothingTriggered, ReviewTriggered, StageClaims, StageReduces,
     EvenTriggered, MoveFails, CloseTriggered, TickRaises, TrailKept
<1> QED
  BY <1>2, <1>3, <1>4, <1>5, <1>6, <1>7, <1>8, <1>9 DEF Next, TickStep, Fills

\* The water mark of an activated trailing rule never gives way, except to a
\* command of the operator: the copy the tick saves still has the mark of the row,
\* whatever ran since it was read and since update_close_condition got the row.
THEOREM WaterNeverGivesWay == Spec => WaterKeeps
<1>1. Inv /\ [Next]_vars => [WaterAct]_vars
  <2> SUFFICES ASSUME Inv, [Next]_vars PROVE [WaterAct]_vars
    OBVIOUS
  <2>1. CASE UNCHANGED vars
    BY <2>1
  <2>2. CASE Next
    BY <2>2, SavedWater, OtherKeepsTrail, KeptWater
  <2> QED
    BY <2>1, <2>2
<1> QED
  BY <1>1, SpecInv, PTL DEF Spec, WaterKeeps, WaterAct

\* Only the amendment of the stop leads from "amend" to "trailed".
LEMMA OnlyAmendTrails ==
    ASSUME Inv, Next, tick.pc = "amend", tick'.pc = "trailed"
    PROVE  AmendStop
<1>0. tick \in [pc : Place, trail : RowType, left : 0..Opened] /\ tick' # tick
  BY DEF Inv, BaseType
<1>1. ~Operator /\ ~Fills /\ ~Observe /\ ~ObservationAges /\ ~OtherFallsDue
  BY <1>0 DEF Operator, EditRule, EditStop, RequestReduce, RequestClose, Fills,
     FillReduce, CrashInFill, RedeliverReduce, ReduceEnds, CloseEnds, Observe,
     ObservationAges, OtherFallsDue
<1>2. ~Crash /\ ~AmendFails
  <2>1. Crash => tick'.pc = "idle"
    BY DEF Crash, EndTick, Idle
  <2>2. AmendFails => tick'.pc = "conditions"
    BY <1>0 DEF AmendFails, Continue
  <2> QED
    BY <2>1, <2>2
<1>3. TickStep
  BY <1>1, <1>2 DEF Next
<1>4. \A r \in Rule : ~CloseTriggered(r) /\ ~TickRaises(r)
  BY DEF CloseTriggered, TickRaises, Triggered
<1>5. ~(\/ StageClaims \/ StageReduces \/ EvenTriggered \/ ReviewTriggered
        \/ NothingTriggered)
  BY DEF StageClaims, StageReduces, EvenTriggered, ReviewTriggered,
     NothingTriggered, Triggered
<1>6. ~(\/ BeginTick \/ NextUnit \/ ReadTrailing \/ SaveRow \/ TrailingStale \/ TrailingWaits
        \/ TrailingProfit \/ NoAmend \/ NoImprovement \/ Improvement
        \/ RecordTrailing \/ StageCompletes \/ ArmEven \/ MoveToBreakEven
        \/ MoveFails \/ ApplyEven)
  BY DEF BeginTick, NextUnit, ReadTrailing, SaveRow, TrailingStale, TrailingWaits,
     TrailingProfit, NoAmend, NoImprovement, Improvement, TrailsStop,
     RecordTrailing, StageCompletes, ArmEven, MoveToBreakEven, MoveFails, ApplyEven
<1> QED
  BY <1>2, <1>3, <1>4, <1>5, <1>6 DEF TickStep

\* An order-capable runtime's trailing rule tightens the stop it replaces: the
\* revisions the amendment carries refuse a stop that was moved since it was
\* read, and nobody but the operator moves it.
THEOREM TrailingOnlyTightens == Spec => TrailingTightens
<1>1. Inv /\ [Next]_vars => [TightenAct]_vars
  <2> SUFFICES ASSUME Inv, Next, setup.live, tick.pc = "amend", tick'.pc = "trailed"
               PROVE  Better(row'["stop"].value, row["stop"].value)
    BY DEF TightenAct
  <2>1. AmendStop
    BY OnlyAmendTrails
  <2>2. Better(Candidate(Water(tick.trail)), row["stop"].value)
    BY <2>1 DEF Inv, CandidateImproves, AmendStop, AmendsReviewed
  <2>3. row'["stop"].value = Candidate(Water(tick.trail))
    <3>1. row["stop"] \in RowType /\ tick.trail \in RowType /\ BaseType
      BY DEF Inv, BaseType, Rule
    <3>2. Candidate(Water(tick.trail)) \in Level
      BY <3>1, WaterType, CandidateType
    <3> DEFINE new == StopAt(Candidate(Water(tick.trail)))
    <3>3. new \in RowType /\ new.value = Candidate(Water(tick.trail))
      BY <3>1, <3>2, StopAtType
    <3>4. Writes("stop", new)
      BY <2>1 DEF AmendStop
    <3> HIDE DEF new
    <3>5. row'["stop"] = new
      BY <3>1, <3>3, <3>4, WritesType DEF Rule
    <3> QED
      BY <3>3, <3>5
  <2> QED
    BY <2>2, <2>3
<1> QED
  BY <1>1, SpecInv, PTL DEF Spec, TrailingTightens, TightenAct
=============================================================================
