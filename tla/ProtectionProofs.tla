-------------------------- MODULE ProtectionProofs --------------------------
(***************************************************************************)
(* The stop of a unit, for every size, price range and number of exits,    *)
(* requests and faults: repairing a protection never loosens a confirmed   *)
(* stop, the rows and orders stay typed, the record of a stop is never     *)
(* better than the stop, and no entry goes out beside an uncertain stop.   *)
(*                                                                         *)
(* None is inductive as it stands.  For the first, protect chooses its     *)
(* price long before it saves it, and the daemon writes the row without the*)
(* lock meanwhile: ChosenStopKept adds that the chosen price stays at least*)
(* as tight as an active confirmed one.  The types need ShapeInv, which    *)
(* bounds what orders execute and what calls send; the record needs        *)
(* CoverInv, what a call in progress knows and hides; the entries need     *)
(* GateInv, which says that a unit an entry found closed stays closed.     *)
(***************************************************************************)
EXTENDS Protection, TLAPS

\* The fields the argument reads, and their types.
RowTypes ==
    /\ {"status", "id", "stop", "trig"} \subseteq DOMAIN prot
    /\ {"op", "by", "why", "pc", "id", "stop"} \subseteq DOMAIN call
    /\ {"stop", "trail", "even"} \subseteq DOMAIN rule
    /\ prot.stop \in Nat /\ call.stop \in Nat /\ rule.stop \in Nat

\* The price protect has chosen is at least as tight as an active confirmed stop.
ChosenStopKept ==
    /\ call.op = "protect"
    /\ call.pc \in {"find", "amend", "place", "recheck", "save"}
    /\ prot.status = "active"
    => call.stop >= prot.stop

ProtectionInv == RowTypes /\ ChosenStopKept

\* The action property, for one step.
KeptStep == call.op = "protect" /\ prot.status = "active" => prot'.stop >= prot.stop

\* A step that keeps the invariant and has the property.
GoodStep == ProtectionInv' /\ KeptStep

-----------------------------------------------------------------------------
\* The prices and the absent rule are natural numbers.
LEMMA PricesAreNat == Price \subseteq Nat /\ NoRule \in Nat
  BY SizeAssumption DEF Price, NoRule

LEMMA InitInv == Init => ProtectionInv
  <1> SUFFICES ASSUME Init PROVE ProtectionInv
    OBVIOUS
  <1>1. PICK s \in Price : \/ /\ rule \in {Rule(s), [Rule(s) EXCEPT !.trail = s]}
                             /\ prot = [status |-> "active", id |-> "att", stop |-> s,
                                        qty |-> Size, trig |-> "none"]
                          \/ /\ rule \in {Rule(s), Rule(NoRule)}
                             /\ prot = NoProtection
    BY DEF Init
  <1>2. call = NoCall
    BY DEF Init
  <1> QED BY <1>1, <1>2, PricesAreNat
          DEF ProtectionInv, RowTypes, ChosenStopKept, NoProtection, NoCall, NoRule, Rule

\* A step that leaves the row, the call, the rule and the entries alone.
LEMMA QuietStep ==
    ASSUME ProtectionInv, UNCHANGED <<prot, rule, call>>
    PROVE  GoodStep
  BY DEF ProtectionInv, RowTypes, ChosenStopKept, GoodStep, KeptStep

LEMMA ExchangeStep ==
    ASSUME ProtectionInv, Exchange
    PROVE  GoodStep
  <1>1. UNCHANGED <<prot, rule, call>>
    BY DEF Exchange, CancelTakes, TriggerStop, ExecuteOrder, EndOrder, store
  <1> QED BY <1>1, QuietStep

\* amend_stop_condition writes the row under the lock.
LEMMA AmendStep ==
    ASSUME ProtectionInv, Amend
    PROVE  GoodStep
  <1> USE PricesAreNat DEF ProtectionInv, RowTypes, ChosenStopKept, GoodStep,
         KeptStep, NoCall, LockFree, exchange, store, NoRule
  <1>1. CASE \E by \in {"api", "daemon"}, why \in {"edit", "even", "trail"}, s \in Price :
               AmendStart(by, why, s)
    BY <1>1 DEF AmendStart
  <1>2. CASE AmendVerify
    BY <1>2 DEF AmendVerify
  <1>3. CASE AmendSend
    BY <1>3 DEF AmendSend
  <1>4. CASE AmendConfirm
    BY <1>4 DEF AmendConfirm
  <1>5. CASE ResolveAmend
    BY <1>5 DEF ResolveAmend, FailAmend
  <1>6. CASE PublishAmend
    <2> USE <1>6
    <2>1. CASE FailAmend
      BY <2>1 DEF PublishAmend, FailAmend
    <2>2. CASE /\ rule' = [AmendedRule EXCEPT !.trail =
                             IF call.why = "trail" THEN call.stop ELSE @]
               /\ prot' = [prot EXCEPT !.status = "active", !.stop = call.stop]
               /\ call' = NoCall
      BY <2>2 DEF PublishAmend, AmendedRule
    <2>3. CASE /\ rule' = AmendedRule /\ call' = NoCall /\ entries' = FALSE
               /\ prot' = [prot EXCEPT !.status = "failed", !.stop = call.stop]
      BY <2>3 DEF PublishAmend, AmendedRule
    <2> QED BY <2>1, <2>2, <2>3 DEF PublishAmend
  <1> QED BY <1>1, <1>2, <1>3, <1>4, <1>5, <1>6 DEF Amend

\* The price protect chooses is not looser than an active confirmed stop.
LEMMA TargetNotLooser ==
    ASSUME RowTypes
    PROVE  /\ TargetStop \in Nat
           /\ prot.status = "active" => TargetStop >= prot.stop
  BY DEF RowTypes, TargetStop

LEMMA ProtectStep ==
    ASSUME ProtectionInv, Protect
    PROVE  GoodStep
  <1> USE PricesAreNat DEF ProtectionInv, RowTypes, ChosenStopKept, GoodStep,
         KeptStep, NoCall, LockFree, exchange, store, NoRule
  <1>1. CASE OperatorProtect
    BY <1>1 DEF OperatorProtect, BeginProtect
  <1>2. CASE \E s \in Price : AdoptRecovered(s)
    BY <1>2 DEF AdoptRecovered, BeginProtect
  <1>3. CASE \E s \in Price \cup {NoRule} : EditStopRule(s)
    BY <1>3 DEF EditStopRule
  <1>4. CASE ReconcileProtection
    BY <1>4 DEF ReconcileProtection, BeginProtect
  <1>5. CASE Rearm
    BY <1>5 DEF Rearm, BeginProtect
  <1>6. CASE ProtectBalance
    <2> USE <1>6
    <2>1. CASE call' = NoCall /\ rule' = rule
      BY <2>1 DEF ProtectBalance
    <2>2. CASE /\ rule' = [rule EXCEPT !.stop = TargetStop]
               /\ call' = [call EXCEPT !.pc = "find", !.stop = TargetStop,
                                       !.id = AlgoClientId]
      BY <2>2, TargetNotLooser DEF ProtectBalance
    <2> QED BY <2>1, <2>2 DEF ProtectBalance, ProtectError
  <1>7. CASE ProtectFind
    BY <1>7 DEF ProtectFind, ProtectError
  <1>8. CASE ProtectSend
    BY <1>8 DEF ProtectSend, ProtectError
  <1>9. CASE ProtectRecheck
    BY <1>9 DEF ProtectRecheck, ProtectError
  <1>10. CASE ProtectSave
    BY <1>10 DEF ProtectSave, ProtectError
  <1> QED
    BY <1>1, <1>2, <1>3, <1>4, <1>5, <1>6, <1>7, <1>8, <1>9, <1>10 DEF Protect

\* A blocked exit: the protection keeps its status, or becomes active or failed.
LEMMA BlockStep ==
    ASSUME ProtectionInv, NEW st, BlockExit(st), rule' = rule, call.op # "protect",
           st = prot.status \/ st \in {"active", "failed"}
    PROVE  GoodStep
  <1>1. ProtectionInv'
    BY DEF ProtectionInv, RowTypes, ChosenStopKept, BlockExit, NoCall, NoRule
  <1>2. KeptStep
    BY DEF KeptStep
  <1> QED BY <1>1, <1>2 DEF GoodStep

\* cancel_for_close, and the exit that it stands before.
LEMMA ExitStep ==
    ASSUME ProtectionInv, Exit
    PROVE  GoodStep
  <1> USE DEF ProtectionInv, RowTypes, ChosenStopKept, GoodStep, KeptStep,
         NoCall, LockFree, exchange, store, NoRule
  <1>1. CASE \E act \in {"close", "reduce"}, q \in 1..Size : ClaimExit(act, q)
    BY <1>1 DEF ClaimExit
  <1>2. CASE CancelBegin
    <2> USE <1>2
    <2>1. CASE \E st \in {prot.status} : BlockExit(st)
      BY <2>1, BlockStep DEF CancelBegin
    <2>2. CASE UNCHANGED <<prot, call>>
      BY <2>2, QuietStep DEF CancelBegin
    <2>3. CASE /\ prot' = [prot EXCEPT !.status = "canceling"]
               /\ call' = [NoCall EXCEPT !.op = "cancel", !.by = "daemon", !.pc = "send",
                                         !.id = prot.id]
      BY <2>3 DEF CancelBegin
    <2> QED BY <2>1, <2>2, <2>3 DEF CancelBegin
  <1>3. CASE CancelSend
    <2> USE <1>3
    <2>1. CASE BlockExit("failed")
      BY <2>1, BlockStep DEF CancelSend
    <2>2. CASE prot' = prot /\ call' = [call EXCEPT !.pc = "poll"]
      BY <2>2 DEF CancelSend
    <2> QED BY <2>1, <2>2 DEF CancelSend
  <1>4. CASE CancelPoll
    <2> USE <1>4
    <2>1. CASE BlockExit("failed")
      BY <2>1, BlockStep DEF CancelPoll
    <2>2. CASE BlockExit("active")
      BY <2>2, BlockStep DEF CancelPoll
    <2>3. CASE prot' = [prot EXCEPT !.status = "canceled"] /\ call' = NoCall
      BY <2>3 DEF CancelPoll
    <2> QED BY <2>1, <2>2, <2>3 DEF CancelPoll
  <1>5. CASE SubmitExit
    BY <1>5 DEF SubmitExit
  <1>6. CASE RetryExit
    BY <1>6 DEF RetryExit
  <1>7. CASE ReleaseExit \/ RereadProtection \/ DisableEntries
    BY <1>7, QuietStep DEF ReleaseExit, RereadProtection, DisableEntries
  <1> QED BY <1>1, <1>2, <1>3, <1>4, <1>5, <1>6, <1>7 DEF Exit

\* Linking and applying a fill keep the fields and the stop of the protection, and
\* never make it active, failed or canceled.
LEMMA FillFacts ==
    ASSUME RowTypes, NEW o, NEW u
    PROVE  LET p == FilledProtection(o, u, LinkedProtection(o))
           IN  /\ {"status", "id", "stop", "trig"} \subseteq DOMAIN p
               /\ p.stop = prot.stop
               /\ p.status = prot.status \/ p.status \in {"triggered", "exhausted"}
  <1> DEFINE q == LinkedProtection(o)
             p == FilledProtection(o, u, q)
  <1>1. /\ {"status", "id", "stop", "trig"} \subseteq DOMAIN q
        /\ q.stop = prot.stop
        /\ q.status = prot.status \/ q.status = "triggered"
    BY DEF RowTypes, LinkedProtection
  <1>2. /\ {"status", "id", "stop", "trig"} \subseteq DOMAIN p
        /\ p.stop = q.stop
        /\ p.status = q.status \/ p.status \in {"triggered", "exhausted"}
    <2> HIDE DEF q
    <2> QED BY <1>1 DEF FilledProtection
  <1> QED BY <1>1, <1>2

LEMMA DaemonStep ==
    ASSUME ProtectionInv, Daemon
    PROVE  GoodStep
  <1> USE DEF ProtectionInv, GoodStep
  <1>1. CASE \E o \in Orders : IngestFill(o)
    <2> PICK o \in Orders : IngestFill(o)
      BY <1>1
    <2>1. CASE Matched(o)
      BY <2>1, FillFacts DEF IngestFill, RowTypes, ChosenStopKept, KeptStep
    <2>2. CASE ~Matched(o)
      BY <2>2, QuietStep DEF IngestFill
    <2> QED BY <2>1, <2>2
  <1>2. CASE \E o \in Orders : RecoverTerminalOrder(o)
    BY <1>2 DEF RecoverTerminalOrder, RowTypes, ChosenStopKept, KeptStep,
                exchange
  <1>3. CASE RecoverExitIntent
    BY <1>3 DEF RecoverExitIntent, RowTypes, ChosenStopKept, KeptStep
  <1>4. CASE TrackProtectionGap
    BY <1>4, QuietStep DEF TrackProtectionGap
  <1> QED BY <1>1, <1>2, <1>3, <1>4 DEF Daemon

LEMMA ProcessStep ==
    ASSUME ProtectionInv, Process
    PROVE  GoodStep
  <1> USE DEF ProtectionInv, GoodStep
  <1>1. CASE EnableEntries
    BY <1>1, QuietStep DEF EnableEntries
  <1>2. CASE Crash
    BY <1>2 DEF Crash, RowTypes, ChosenStopKept, KeptStep, NoCall,
                NoRule, store
  <1>3. CASE RecoverAtStartup
    BY <1>3, FillFacts
    DEF RecoverAtStartup, RowTypes, ChosenStopKept, KeptStep
  <1>4. CASE StartArmed
    BY <1>4, QuietStep DEF StartArmed
  <1> QED BY <1>1, <1>2, <1>3, <1>4 DEF Process

\* An entry reads the rows and writes none of them.
LEMMA EntryStep ==
    ASSUME ProtectionInv, EntryCall
    PROVE  GoodStep
  <1>1. UNCHANGED <<prot, rule>> /\ call.op # "protect"
    BY DEF EntryCall, EntryBegin, EntryUnits, EntryStop, EntryEnd, LockFree, store
  <1>2. \/ call' = NoCall
        \/ call' = [NoCall EXCEPT !.op = "entry", !.pc = "units", !.qty = exPos]
        \/ \E pc \in {"stop", "send"} : call.op = "entry" /\ call' = [call EXCEPT !.pc = pc]
    BY DEF EntryCall, EntryBegin, EntryUnits, EntryStop, EntryEnd
  <1>3. /\ {"op", "by", "why", "pc", "id", "stop"} \subseteq DOMAIN call'
        /\ call'.stop \in Nat /\ call'.op # "protect"
    <2>1. CASE call' = NoCall
      BY <2>1 DEF NoCall, NoRule
    <2>2. CASE call' = [NoCall EXCEPT !.op = "entry", !.pc = "units", !.qty = exPos]
      BY <2>2 DEF NoCall, NoRule
    <2>3. CASE \E pc \in {"stop", "send"} : call.op = "entry" /\ call' = [call EXCEPT !.pc = pc]
      <3>1. PICK pc \in {"stop", "send"} : call.op = "entry" /\ call' = [call EXCEPT !.pc = pc]
        BY <2>3
      <3>2. DOMAIN call' = DOMAIN call
        BY <3>1
      <3>3. {"op", "stop"} \subseteq DOMAIN call /\ call.stop \in Nat
        BY DEF ProtectionInv, RowTypes
      <3>4. call'.stop = call.stop /\ call'.op = call.op
        BY <3>1, <3>3
      <3> QED BY <3>1, <3>2, <3>3, <3>4 DEF ProtectionInv, RowTypes
    <2> QED BY <1>2, <2>1, <2>2, <2>3
  <1> QED BY <1>1, <1>3 DEF ProtectionInv, RowTypes, ChosenStopKept, GoodStep, KeptStep

\* Every step, a stutter included, keeps the invariant and has the property.
LEMMA StepIsGood ==
    ProtectionInv /\ [Next]_vars => ProtectionInv' /\ [KeptStep]_vars
  <1> SUFFICES ASSUME ProtectionInv, [Next]_vars
               PROVE  GoodStep
    BY DEF GoodStep
  <1>1. CASE UNCHANGED vars
    BY <1>1, QuietStep DEF vars
  <1> QED
    BY <1>1, ExchangeStep, AmendStep, ProtectStep, ExitStep, DaemonStep, EntryStep,
       ProcessStep DEF Next

-----------------------------------------------------------------------------
\* protect never lowers an active confirmed stop (position_protection.py, _protect):
\* the stop it saves was chosen against the row, and no unlocked write of the row
\* in between makes another stop active.
THEOREM RepairNeverLoosens == Spec => ConfirmedStopKept
  <1>1. ProtectionInv /\ [Next]_vars => ProtectionInv' /\ [KeptStep]_vars
    BY StepIsGood
  <1> QED BY <1>1, InitInv, PTL DEF Spec, ConfirmedStopKept, KeptStep

-----------------------------------------------------------------------------
(***************************************************************************)
(* Types.  The type invariant needs the bounds it rests on: what the       *)
(* exchange executed of an order never exceeds the unit, an order that can *)
(* execute has contracts left, a stop is for at least one contract, and a  *)
(* call sends a quantity that was read before the fills that arrive        *)
(* meanwhile.                                                              *)
(***************************************************************************)
PriceOrNone == Price \cup {NoRule}
AlgoRow == [st : {"none", "live", "canceling"}, stop : PriceOrNone, qty : 0..Size]
BookRow == [st : {"none", "intent", "live", "filled", "canceled"}, left : 0..Size,
            qty : 0..Size, unseen : 0..Size, seen : 0..Size, act : {"close", "reduce"},
            linked : BOOLEAN]
UnitRow == [status : Active \cup {"closed"}, remaining : 0..Size,
            ord : Orders \cup {"none"}, cl : BOOLEAN, unknown : BOOLEAN, review : BOOLEAN]
ProtRow == [status : ProtectionStatus, id : StopId, stop : PriceOrNone, qty : 0..Size,
            trig : StopId \cup {"none"}]
RuleRow == [stop : PriceOrNone, trail : PriceOrNone, even : PriceOrNone]
CallRow == [op : {"none", "amend", "protect", "cancel", "entry"}, by : {"api", "daemon", "adopt"},
            why : {"edit", "even", "trail"},
            pc : {"idle", "verify", "send", "confirm", "resolve", "publish", "balance",
                  "find", "amend", "place", "recheck", "save", "poll", "units", "stop"},
            id : StopId, stop : PriceOrNone, qty : 0..Size, old : PriceOrNone]
FlowRow == [pc : {"idle", "stop", "blocked", "reread", "disable", "submit", "rearm"},
            canceled : BOOLEAN]

\* The fills of order b and a position of n contracts fit in the unit, and an order
\* that can still execute has something left; an order that is only intended was
\* not executed.
OrderFits(b, n) ==
    /\ b.unseen + b.seen + n <= Size
    /\ b.st = "intent" => b.unseen = 0
    /\ b.st \in {"intent", "live"} => b.left >= 1

BookShape ==
    /\ exPos \in 0..Size /\ book \in [Orders -> BookRow]
    /\ \A o \in Orders : OrderFits(book[o], exPos)

\* A stop on the exchange is for at least one contract.
StopFits(a) == a.st \in {"live", "canceling"} => a.qty >= 1
AlgoShape == algo \in [StopId -> AlgoRow] /\ \A i \in StopId : StopFits(algo[i])

\* The quantity a call sends is never less than what remains.
CallShape ==
    /\ call \in CallRow
    /\ call.op \in {"amend", "protect"} => call.qty >= unit.remaining
    /\ call.op = "amend" \/ (call.op = "protect" /\ call.pc # "balance") => call.qty >= 1

ShapeInv ==
    /\ BookShape /\ AlgoShape /\ CallShape
    /\ unit \in UnitRow /\ prot \in ProtRow /\ rule \in RuleRow /\ flow \in FlowRow
    /\ entries \in BOOLEAN /\ armed \in BOOLEAN

LEMMA ShapeGivesTypes == ShapeInv => TypeOK
  BY DEF ShapeInv, BookShape, AlgoShape, TypeOK, PriceOrNone, AlgoRow, BookRow, UnitRow,
         ProtRow, RuleRow

-----------------------------------------------------------------------------
\* The constant records are typed.
LEMMA EmptyRows ==
    /\ NoStop \in AlgoRow /\ StopFits(NoStop)
    /\ NoOrder \in BookRow
    /\ \A n \in 0..Size : OrderFits(NoOrder, n)
    /\ NoProtection \in ProtRow /\ NoCall \in CallRow /\ NoCall.op = "none"
    /\ Idle \in FlowRow /\ [Idle EXCEPT !.pc = "rearm"] \in FlowRow
  <1>1. 0 \in 0..Size /\ 0 \in PriceOrNone
    BY SizeAssumption DEF PriceOrNone, NoRule
  <1>2. NoStop \in AlgoRow /\ StopFits(NoStop)
    BY <1>1 DEF NoStop, AlgoRow, StopFits, NoRule
  <1>3. NoOrder \in BookRow
    BY <1>1 DEF NoOrder, BookRow
  <1>4. \A n \in 0..Size : OrderFits(NoOrder, n)
    BY SizeAssumption DEF NoOrder, OrderFits
  <1>5. NoProtection \in ProtRow
    BY <1>1 DEF NoProtection, ProtRow, NoRule, ProtectionStatus, StopId
  <1>6. NoCall \in CallRow /\ NoCall.op = "none"
    BY <1>1 DEF NoCall, CallRow, NoRule, StopId
  <1>7. Idle \in FlowRow /\ [Idle EXCEPT !.pc = "rearm"] \in FlowRow
    BY DEF Idle, FlowRow
  <1> QED BY <1>2, <1>3, <1>4, <1>5, <1>6, <1>7

LEMMA PricesAreLevels ==
    Price \subseteq PriceOrNone /\ NoRule \in PriceOrNone /\ PriceOrNone \subseteq Nat
  BY PricesAreNat DEF PriceOrNone

\* One order of the book changes, and the position does not grow.
LEMMA BookPut ==
    ASSUME BookShape, NEW o \in Orders, NEW r \in BookRow, exPos' \in 0..Size,
           exPos' <= exPos, OrderFits(r, exPos'), book' = [book EXCEPT ![o] = r]
    PROVE  BookShape'
  <1>1. book' \in [Orders -> BookRow]
    BY DEF BookShape
  <1>2. ASSUME NEW q \in Orders PROVE OrderFits(book'[q], exPos')
    <2>1. CASE q = o
      BY <2>1 DEF BookShape
    <2>2. CASE q # o
      <3>1. book'[q] = book[q] /\ OrderFits(book[q], exPos) /\ book[q] \in BookRow
        BY <2>2 DEF BookShape
      <3>2. book[q].unseen \in 0..Size /\ book[q].seen \in 0..Size /\ exPos \in 0..Size
        BY <3>1 DEF BookRow, BookShape
      <3>3. OrderFits(book[q], exPos')
        BY <3>1, <3>2, SizeAssumption DEF OrderFits
      <3> QED BY <3>1, <3>3
    <2> QED BY <2>1, <2>2
  <1> QED BY <1>1, <1>2 DEF BookShape

\* One stop changes.
LEMMA AlgoPut ==
    ASSUME AlgoShape, NEW i \in StopId, NEW a \in AlgoRow, StopFits(a),
           algo' = [algo EXCEPT ![i] = a]
    PROVE  AlgoShape'
  <1>1. algo' \in [StopId -> AlgoRow]
    BY DEF AlgoShape
  <1>2. ASSUME NEW j \in StopId PROVE StopFits(algo'[j])
    BY DEF AlgoShape
  <1> QED BY <1>1, <1>2 DEF AlgoShape

\* A call that goes on or ends, while what remains of the unit does not grow.
LEMMA CallStays ==
    ASSUME CallShape, unit \in UnitRow, unit' \in UnitRow,
           unit'.remaining <= unit.remaining, call' = call \/ call' = NoCall
    PROVE  CallShape'
  <1>1. CASE call' = NoCall
    BY <1>1, EmptyRows DEF CallShape
  <1>2. CASE call' = call
    <2>1. call.qty \in Int /\ unit.remaining \in Int /\ unit'.remaining \in Int
      BY DEF CallShape, CallRow, UnitRow
    <2> QED BY <1>2, <2>1 DEF CallShape
  <1> QED BY <1>1, <1>2

\* Amending or placing the stop of a call.
LEMMA CallStopFits ==
    ASSUME AlgoShape, CallShape,
           call.op = "amend" \/ (call.op = "protect" /\ call.pc # "balance")
    PROVE  /\ algo' = AmendedStop => AlgoShape'
           /\ algo' = PlacedStop => AlgoShape'
  <1> DEFINE a == [algo[call.id] EXCEPT !.stop = call.stop, !.qty = call.qty]
             b == [st |-> "live", stop |-> call.stop, qty |-> call.qty]
  <1>1. /\ call.id \in StopId /\ call.stop \in PriceOrNone /\ call.qty \in 0..Size
        /\ call.qty >= 1
    BY DEF CallShape, CallRow
  <1>2. algo[call.id] \in AlgoRow
    BY <1>1 DEF AlgoShape
  <1>3. a \in AlgoRow /\ StopFits(a)
    BY <1>1, <1>2 DEF AlgoRow, StopFits
  <1>4. b \in AlgoRow /\ StopFits(b)
    BY <1>1 DEF AlgoRow, StopFits
  <1>5. AmendedStop = [algo EXCEPT ![call.id] = a]
    BY <1>1, <1>2 DEF AmendedStop, AlgoShape, AlgoRow
  <1>6. PlacedStop = [algo EXCEPT ![call.id] = b]
    BY DEF PlacedStop
  <1> HIDE DEF a, b
  <1> QED BY <1>1, <1>3, <1>4, <1>5, <1>6, AlgoPut

LEMMA InitShape == Init => ShapeInv
  <1> SUFFICES ASSUME Init PROVE ShapeInv
    OBVIOUS
  <1> USE SizeAssumption
  <1>1. BookShape
    BY EmptyRows DEF Init, BookShape
  <1>2. PICK s \in Price, st \in {"live", "none"} :
          /\ algo = [i \in StopId |-> IF i = "att" /\ st = "live"
                                      THEN [st |-> st, stop |-> s, qty |-> Size] ELSE NoStop]
          /\ \/ /\ unit = OpenUnit(FALSE)
                /\ rule \in {Rule(s), [Rule(s) EXCEPT !.trail = s]}
                /\ prot = [status |-> "active", id |-> "att", stop |-> s, qty |-> Size,
                           trig |-> "none"]
             \/ /\ unit = OpenUnit(TRUE)
                /\ rule \in {Rule(s), Rule(NoRule)}
                /\ prot = NoProtection
    BY DEF Init
  <1>3. s \in PriceOrNone /\ NoRule \in PriceOrNone /\ Size \in 0..Size /\ Size >= 1
    BY PricesAreLevels
  <1>4. AlgoShape
    <2> DEFINE a == [st |-> "live", stop |-> s, qty |-> Size]
    <2>1. a \in AlgoRow /\ StopFits(a)
      BY <1>3 DEF AlgoRow, StopFits
    <2>2. algo = [i \in StopId |-> IF i = "att" /\ st = "live" THEN a ELSE NoStop]
      BY <1>2
    <2> HIDE DEF a
    <2> QED BY <2>1, <2>2, EmptyRows DEF AlgoShape
  <1>5. unit \in UnitRow
    <2>1. ASSUME NEW b \in BOOLEAN PROVE OpenUnit(b) \in UnitRow
      BY <1>3 DEF OpenUnit, UnitRow, Active
    <2>2. unit = OpenUnit(FALSE) \/ unit = OpenUnit(TRUE)
      BY <1>2
    <2> QED BY <2>1, <2>2
  <1>6. prot \in ProtRow
    <2>1. [status |-> "active", id |-> "att", stop |-> s, qty |-> Size, trig |-> "none"]
            \in ProtRow
      BY <1>3 DEF ProtRow, ProtectionStatus, StopId
    <2> QED BY <1>2, <2>1, EmptyRows
  <1>7. rule \in RuleRow
    <2>1. Rule(s) \in RuleRow /\ Rule(NoRule) \in RuleRow
          /\ [Rule(s) EXCEPT !.trail = s] \in RuleRow
      BY <1>3 DEF Rule, RuleRow
    <2>2. rule \in {Rule(s), [Rule(s) EXCEPT !.trail = s], Rule(NoRule)}
      BY <1>2
    <2> QED BY <2>1, <2>2
  <1>8. CallShape /\ flow \in FlowRow /\ entries \in BOOLEAN /\ armed \in BOOLEAN
    BY EmptyRows DEF Init, CallShape
  <1> QED BY <1>1, <1>4, <1>5, <1>6, <1>7, <1>8 DEF ShapeInv

\* A step that changes none of the variables.
LEMMA ShapeStutter ==
    ASSUME ShapeInv, UNCHANGED vars PROVE ShapeInv'
  BY DEF ShapeInv, BookShape, AlgoShape, CallShape, vars

LEMMA ExchangeShape ==
    ASSUME ShapeInv, Exchange PROVE ShapeInv'
  <1> USE SizeAssumption DEF ShapeInv
  <1>1. UNCHANGED <<unit, prot, rule, entries, armed, call, flow>>
    BY DEF Exchange, CancelTakes, TriggerStop, ExecuteOrder, EndOrder, store
  <1>2. CallShape'
    BY <1>1 DEF CallShape
  <1>3. ASSUME NEW i \in StopId, CancelTakes(i) PROVE BookShape' /\ AlgoShape'
    <2>1. BookShape'
      BY <1>3 DEF CancelTakes, BookShape
    <2>2. algo' = [algo EXCEPT ![i] = NoStop]
      BY <1>3 DEF CancelTakes
    <2> QED BY <2>1, <2>2, AlgoPut, EmptyRows
  <1>4. ASSUME NEW i \in StopId, TriggerStop(i) PROVE BookShape' /\ AlgoShape'
    <2> DEFINE r == [NoOrder EXCEPT !.st = "live", !.left = algo[i].qty, !.qty = algo[i].qty]
    <2>1. algo' = [algo EXCEPT ![i] = NoStop] /\ book' = [book EXCEPT ![i] = r]
          /\ exPos' = exPos /\ i \in Orders
      BY <1>4 DEF TriggerStop, Orders
    <2>2. AlgoShape'
      BY <2>1, AlgoPut, EmptyRows
    <2>3. algo[i].qty \in 0..Size /\ algo[i].qty >= 1
      BY <1>4 DEF TriggerStop, Pending, AlgoShape, AlgoRow, StopFits
    <2>4. exPos' \in 0..Size /\ exPos' <= exPos
      BY <2>1 DEF BookShape
    <2>5. r \in BookRow /\ OrderFits(r, exPos')
      BY <2>3, <2>4, EmptyRows DEF NoOrder, BookRow, OrderFits
    <2> HIDE DEF r
    <2>6. BookShape'
      BY <2>1, <2>4, <2>5, BookPut
    <2> QED BY <2>2, <2>6
  <1>5. ASSUME NEW o \in Orders, ExecuteOrder(o) PROVE BookShape' /\ AlgoShape'
    <2>1. AlgoShape'
      BY <1>5 DEF ExecuteOrder, AlgoShape
    <2>2. /\ book[o] \in BookRow /\ OrderFits(book[o], exPos) /\ exPos \in 0..Size
          /\ book[o].st = "live"
      BY <1>5 DEF BookShape, ExecuteOrder
    <2>3. CASE exPos > 0
      <3> DEFINE r == [book[o] EXCEPT !.left = @ - 1, !.unseen = @ + 1,
                         !.st = IF book[o].left = 1 THEN "filled" ELSE "live"]
      <3>1. exPos' = exPos - 1
        BY <1>5, <2>3 DEF ExecuteOrder
      <3>2. book' = [book EXCEPT ![o] = r]
        BY <1>5, <2>2, <2>3 DEF ExecuteOrder, BookShape, BookRow
      <3>3. /\ book[o].left \in 1..Size /\ book[o].unseen \in 0..Size
            /\ book[o].seen \in 0..Size
            /\ book[o].unseen + book[o].seen + exPos <= Size
        BY <2>2 DEF BookRow, OrderFits
      <3>4. book[o].left - 1 \in 0..Size /\ book[o].unseen + 1 \in 0..Size
            /\ (book[o].left # 1 => book[o].left - 1 >= 1)
        BY <3>3, <2>3, <2>2
      <3>5. r \in BookRow
        BY <2>2, <3>4 DEF BookRow
      <3>6. /\ r.unseen = book[o].unseen + 1 /\ r.seen = book[o].seen
            /\ r.left = book[o].left - 1
            /\ r.st = IF book[o].left = 1 THEN "filled" ELSE "live"
        BY <2>2 DEF BookRow
      <3> HIDE DEF r
      <3>7. exPos' \in 0..Size /\ exPos' <= exPos
        BY <3>1, <2>2, <2>3
      <3>8. OrderFits(r, exPos')
        BY <3>1, <3>3, <3>4, <3>6, <2>2 DEF OrderFits
      <3>9. BookShape'
        BY <3>2, <3>5, <3>7, <3>8, BookPut
      <3> QED BY <2>1, <3>9
    <2>4. CASE ~(exPos > 0)
      <3> DEFINE r == [book[o] EXCEPT !.st = "canceled"]
      <3>1. exPos' = exPos /\ book' = [book EXCEPT ![o] = r]
        BY <1>5, <2>2, <2>4 DEF ExecuteOrder, BookShape, BookRow
      <3>2. r \in BookRow /\ OrderFits(r, exPos')
        BY <2>2, <3>1 DEF BookRow, OrderFits
      <3> HIDE DEF r
      <3>3. exPos' \in 0..Size /\ exPos' <= exPos
        BY <2>2, <3>1
      <3> QED BY <2>1, <3>1, <3>2, <3>3, BookPut
    <2> QED BY <2>3, <2>4
  <1>6. ASSUME NEW o \in Orders, EndOrder(o) PROVE BookShape' /\ AlgoShape'
    <2>1. AlgoShape'
      BY <1>6 DEF EndOrder, AlgoShape
    <2>2. book[o] \in BookRow /\ OrderFits(book[o], exPos) /\ exPos \in 0..Size
      BY DEF BookShape
    <2> DEFINE r == [book[o] EXCEPT !.st = "canceled"]
    <2>3. exPos' = exPos /\ book' = [book EXCEPT ![o] = r]
      BY <1>6, <2>2 DEF EndOrder, BookShape, BookRow
    <2>4. r \in BookRow /\ OrderFits(r, exPos')
      BY <2>2, <2>3 DEF BookRow, OrderFits
    <2> HIDE DEF r
    <2>5. exPos' \in 0..Size /\ exPos' <= exPos
      BY <2>2, <2>3
    <2> QED BY <2>1, <2>3, <2>4, <2>5, BookPut
  <1>7. BookShape' /\ AlgoShape'
    BY <1>3, <1>4, <1>5, <1>6 DEF Exchange
  <1> QED BY <1>1, <1>2, <1>7

\* amend_stop_condition.
LEMMA AmendShape ==
    ASSUME ShapeInv, Amend PROVE ShapeInv'
  <1> USE DEF ShapeInv
  <1>0. /\ exPos' = exPos /\ book' = book /\ unit' = unit /\ armed' = armed /\ flow' = flow
    BY DEF Amend, AmendStart, AmendVerify, AmendSend, AmendConfirm, ResolveAmend,
           PublishAmend, exchange, store
  <1>1. BookShape'
    BY <1>0 DEF BookShape
  <1>2. call.stop \in PriceOrNone /\ call \in CallRow
    BY DEF CallShape, CallRow
  <1>3. \A st \in ProtectionStatus : [prot EXCEPT !.status = st] \in ProtRow
    BY DEF ProtRow
  <1>4. \A st \in ProtectionStatus :
          [prot EXCEPT !.status = st, !.stop = call.stop] \in ProtRow
    BY <1>2 DEF ProtRow
  <1>5. "active" \in ProtectionStatus /\ "amending" \in ProtectionStatus
        /\ "failed" \in ProtectionStatus
    BY DEF ProtectionStatus
  <1>6. ASSUME NEW pc \in {"send", "confirm", "resolve", "publish"},
               call' = [call EXCEPT !.pc = pc], call.op = "amend"
        PROVE  CallShape'
    <2>1. call' \in CallRow /\ call'.op = call.op /\ call'.qty = call.qty
      BY <1>2, <1>6 DEF CallRow
    <2> QED BY <2>1, <1>0, <1>6 DEF CallShape
  <1>7. ASSUME call' = NoCall PROVE CallShape'
    BY <1>7, EmptyRows DEF CallShape
  <1>8. ASSUME algo' = algo PROVE AlgoShape'
    BY <1>8 DEF AlgoShape
  <1>9. AmendedRule \in RuleRow
        /\ [AmendedRule EXCEPT !.trail = IF call.why = "trail" THEN call.stop ELSE @]
              \in RuleRow
    <2>1. AmendedRule \in RuleRow
      BY <1>2 DEF AmendedRule, RuleRow
    <2> QED BY <1>2, <2>1 DEF RuleRow
  <1>10. CASE \E by \in {"api", "daemon"}, why \in {"edit", "even", "trail"}, s \in Price :
               AmendStart(by, why, s)
    <2> PICK by \in {"api", "daemon"}, why \in {"edit", "even", "trail"}, s \in Price :
               AmendStart(by, why, s)
      BY <1>10
    <2>1. UNCHANGED <<algo, prot, rule, entries>>
      BY DEF AmendStart, exchange, store
    <2>2. /\ call' = [op |-> "amend", by |-> by, why |-> why, pc |-> "verify",
                      id |-> prot.id, stop |-> s, qty |-> prot.qty, old |-> prot.stop]
          /\ unit.remaining > 0 /\ prot.qty = unit.remaining
      BY DEF AmendStart
    <2>3. prot.id \in StopId /\ prot.qty \in 0..Size /\ prot.stop \in PriceOrNone
          /\ s \in PriceOrNone
      BY PricesAreLevels DEF ProtRow
    <2>4. call' \in CallRow /\ call'.op = "amend" /\ call'.qty = prot.qty
      BY <2>2, <2>3 DEF CallRow
    <2>5. CallShape'
      BY <2>2, <2>3, <2>4, <1>0 DEF CallShape
    <2> QED BY <1>0, <1>1, <1>8, <2>1, <2>5
  <1>11. CASE AmendVerify
    <2>1. UNCHANGED <<algo, rule, entries>>
      BY <1>11 DEF AmendVerify, exchange
    <2>2. CallShape'
      BY <1>11, <1>6, <1>7 DEF AmendVerify
    <2>3. prot' \in ProtRow
      BY <1>11, <1>3, <1>5 DEF AmendVerify
    <2> QED BY <1>0, <1>1, <1>8, <2>1, <2>2, <2>3
  <1>12. CASE AmendSend
    <2>1. UNCHANGED <<prot, rule, entries>>
      BY <1>12 DEF AmendSend, store
    <2>2. CallShape'
      BY <1>12, <1>6 DEF AmendSend
    <2>3. algo' = algo \/ algo' = AmendedStop
      BY <1>12 DEF AmendSend
    <2>4. AlgoShape'
      BY <1>12, <1>8, <2>3, CallStopFits DEF AmendSend
    <2> QED BY <1>0, <1>1, <2>1, <2>2, <2>4
  <1>13. CASE AmendConfirm
    <2>1. UNCHANGED <<algo, prot, rule, entries>>
      BY <1>13 DEF AmendConfirm, store, exchange
    <2>2. \E pc \in {"publish", "resolve"} : call' = [call EXCEPT !.pc = pc]
      BY <1>13 DEF AmendConfirm
    <2>3. CallShape'
      BY <1>13, <2>2, <1>6 DEF AmendConfirm
    <2> QED BY <1>0, <1>1, <1>8, <2>1, <2>3
  <1>14. CASE ResolveAmend
    <2>1. algo' = algo /\ rule' = rule
      BY <1>14 DEF ResolveAmend, FailAmend, exchange
    <2>2. entries' \in BOOLEAN
      BY <1>14 DEF ResolveAmend, FailAmend
    <2>3. CallShape'
      BY <1>14, <1>6, <1>7 DEF ResolveAmend, FailAmend
    <2>4. prot' \in ProtRow
      BY <1>14, <1>3, <1>5 DEF ResolveAmend, FailAmend
    <2> QED BY <1>0, <1>1, <1>8, <2>1, <2>2, <2>3, <2>4
  <1>15. CASE PublishAmend
    <2>1. algo' = algo /\ call' = NoCall
      BY <1>15 DEF PublishAmend, FailAmend, exchange
    <2>2. entries' \in BOOLEAN
      BY <1>15 DEF PublishAmend, FailAmend
    <2>3. rule' \in RuleRow
      BY <1>15, <1>9 DEF PublishAmend, FailAmend
    <2>4. prot' \in ProtRow
      BY <1>15, <1>3, <1>4, <1>5 DEF PublishAmend, FailAmend
    <2> QED BY <1>0, <1>1, <1>7, <1>8, <2>1, <2>2, <2>3, <2>4
  <1> QED BY <1>10, <1>11, <1>12, <1>13, <1>14, <1>15 DEF Amend

\* A protect call begins with what remains of the unit.
LEMMA BeginShape ==
    ASSUME ShapeInv, NEW by \in {"api", "daemon", "adopt"}, BeginProtect(by), unit' = unit
    PROVE  CallShape'
  <1>1. unit.remaining \in 0..Size
    BY DEF ShapeInv, UnitRow
  <1>2. /\ call' \in CallRow /\ call'.op = "protect" /\ call'.pc = "balance"
        /\ call'.qty = unit.remaining
    BY <1>1, EmptyRows DEF BeginProtect, CallRow, NoCall
  <1> QED BY <1>1, <1>2 DEF CallShape

\* The stop and the id protect chooses.
LEMMA ChosenTyped ==
    ASSUME ShapeInv PROVE TargetStop \in PriceOrNone /\ AlgoClientId \in StopId
  BY DEF ShapeInv, ProtRow, RuleRow, TargetStop, AlgoClientId, StopId

\* protect.
LEMMA ProtectShape ==
    ASSUME ShapeInv, Protect PROVE ShapeInv'
  <1> USE DEF ShapeInv
  <1>0. exPos' = exPos /\ book' = book /\ armed' = armed
    BY DEF Protect, OperatorProtect, AdoptRecovered, EditStopRule, ReconcileProtection,
           Rearm, ProtectBalance, ProtectFind, ProtectSend, ProtectRecheck, ProtectSave,
           exchange, store
  <1>1. BookShape'
    BY <1>0 DEF BookShape
  <1>2. call \in CallRow /\ call.stop \in PriceOrNone /\ call.id \in StopId
        /\ call.qty \in 0..Size
    BY DEF CallShape, CallRow
  <1>3. ASSUME unit' = unit, call' = NoCall PROVE CallShape'
    BY <1>3, EmptyRows DEF CallShape
  <1>4. ASSUME algo' = algo PROVE AlgoShape'
    BY <1>4 DEF AlgoShape
  <1>5. ASSUME NEW pc \in {"find", "amend", "place", "recheck", "save"},
               call' = [call EXCEPT !.pc = pc], call.op = "protect", call.pc # "balance",
               unit' = unit
        PROVE  CallShape'
    <2>1. call' \in CallRow /\ call'.op = call.op /\ call'.qty = call.qty
      BY <1>2, <1>5 DEF CallRow
    <2> QED BY <2>1, <1>5 DEF CallShape
  <1>6. ASSUME ProtectError PROVE call' = NoCall /\ entries' \in BOOLEAN
    BY <1>6 DEF ProtectError
  <1>7. \A s \in PriceOrNone : [rule EXCEPT !.stop = s] \in RuleRow
    BY DEF RuleRow
  <1>10. CASE OperatorProtect
    <2>1. BeginProtect("api") /\ UNCHANGED <<algo, unit, prot, rule, entries, flow>>
      BY <1>10 DEF OperatorProtect, exchange, store
    <2>2. CallShape'
      BY <2>1, BeginShape
    <2> QED BY <1>0, <1>1, <1>4, <2>1, <2>2
  <1>11. CASE \E s \in Price : AdoptRecovered(s)
    <2> PICK s \in Price : AdoptRecovered(s)
      BY <1>11
    <2>1. BeginProtect("adopt") /\ UNCHANGED <<algo, unit, prot, entries, flow>>
          /\ rule' = [rule EXCEPT !.stop = s]
      BY DEF AdoptRecovered, exchange
    <2>2. CallShape'
      BY <2>1, BeginShape
    <2>3. rule' \in RuleRow
      BY <2>1, <1>7, PricesAreLevels
    <2> QED BY <1>0, <1>1, <1>4, <2>1, <2>2, <2>3
  <1>12. CASE \E s \in Price \cup {NoRule} : EditStopRule(s)
    <2> PICK s \in Price \cup {NoRule} : EditStopRule(s)
      BY <1>12
    <2>1. UNCHANGED <<algo, unit, prot, entries, flow, call>>
      BY DEF EditStopRule, exchange
    <2>2. CallShape'
      BY <2>1 DEF CallShape
    <2>3. s \in PriceOrNone /\ NoRule \in PriceOrNone
      BY DEF PriceOrNone
    <2>4. [rule EXCEPT !.stop = s, !.even = IF s = NoRule THEN NoRule ELSE @] \in RuleRow
      BY <2>3 DEF RuleRow
    <2>5. rule' \in RuleRow
      BY <2>3, <2>4, <1>7 DEF EditStopRule
    <2> QED BY <1>0, <1>1, <1>4, <2>1, <2>2, <2>5
  <1>13. CASE ReconcileProtection
    <2>1. UNCHANGED <<algo, unit, prot, rule, flow>>
      BY <1>13 DEF ReconcileProtection, exchange
    <2>2. entries' \in BOOLEAN
      BY <1>13 DEF ReconcileProtection
    <2>3. call' = call \/ BeginProtect("daemon")
      BY <1>13 DEF ReconcileProtection
    <2>4. ASSUME call' = call PROVE CallShape'
      BY <2>1, <2>4 DEF CallShape
    <2>5. CallShape'
      BY <2>1, <2>3, <2>4, BeginShape
    <2> QED BY <1>0, <1>1, <1>4, <2>1, <2>2, <2>5
  <1>14. CASE Rearm
    <2>1. BeginProtect("daemon") /\ UNCHANGED <<algo, unit, prot, rule, entries>>
          /\ flow' = Idle
      BY <1>14 DEF Rearm, exchange, store
    <2>2. CallShape'
      BY <2>1, BeginShape
    <2> QED BY <1>0, <1>1, <1>4, <2>1, <2>2, EmptyRows
  <1>15. CASE ProtectBalance
    <2>1. UNCHANGED <<algo, unit, prot, flow>>
      BY <1>15 DEF ProtectBalance, exchange
    <2>2. CASE ProtectError /\ rule' = rule
      BY <1>0, <1>1, <1>3, <1>4, <1>6, <2>1, <2>2
    <2>3. CASE /\ Balanced /\ rule' = [rule EXCEPT !.stop = TargetStop]
               /\ call' = [call EXCEPT !.pc = "find", !.stop = TargetStop, !.id = AlgoClientId]
               /\ entries' = entries
      <3>1. rule' \in RuleRow
        BY <2>3, <1>7, ChosenTyped
      <3>2. call' \in CallRow /\ call'.op = "protect" /\ call'.qty = call.qty
            /\ call.op = "protect"
        BY <1>15, <2>3, <1>2, ChosenTyped DEF CallRow, ProtectBalance
      <3>3. call.qty >= unit.remaining /\ unit.remaining > 0 /\ unit.remaining \in 0..Size
        BY <2>3, <3>2 DEF CallShape, Balanced, UnitRow
      <3>4. call.qty >= 1
        BY <3>3, <1>2
      <3>5. CallShape'
        BY <2>1, <3>2, <3>3, <3>4 DEF CallShape
      <3> QED BY <1>0, <1>1, <1>4, <2>1, <2>3, <3>1, <3>5
    <2> QED BY <1>15, <2>2, <2>3 DEF ProtectBalance
  <1>16. CASE ProtectFind
    <2>1. UNCHANGED <<algo, unit, prot, rule, flow>>
      BY <1>16 DEF ProtectFind, exchange
    <2>2. CASE ProtectError
      BY <1>0, <1>1, <1>3, <1>4, <1>6, <2>1, <2>2
    <2>3. CASE /\ \E pc \in {"save", "place", "amend"} : call' = [call EXCEPT !.pc = pc]
               /\ entries' = entries
      <3>1. CallShape'
        BY <1>16, <2>1, <2>3, <1>5 DEF ProtectFind
      <3> QED BY <1>0, <1>1, <1>4, <2>1, <2>3, <3>1
    <2>4. \/ ProtectError
          \/ /\ \E pc \in {"save", "place", "amend"} : call' = [call EXCEPT !.pc = pc]
             /\ entries' = entries
      BY <1>16 DEF ProtectFind
    <2> QED BY <2>2, <2>3, <2>4
  <1>17. CASE ProtectSend
    <2>1. UNCHANGED <<unit, prot, rule, flow>>
      BY <1>17 DEF ProtectSend
    <2>2. algo' \in {algo, AmendedStop, PlacedStop}
      BY <1>17 DEF ProtectSend
    <2>3. AlgoShape'
      BY <1>17, <1>4, <2>2, CallStopFits DEF ProtectSend
    <2>4. CASE ProtectError
      BY <1>0, <1>1, <1>3, <1>6, <2>1, <2>3, <2>4
    <2>5. CASE call' = [call EXCEPT !.pc = "recheck"] /\ entries' = entries
      <3>1. CallShape'
        BY <1>17, <2>1, <2>5, <1>5 DEF ProtectSend
      <3> QED BY <1>0, <1>1, <2>1, <2>3, <2>5, <3>1
    <2> QED BY <1>17, <2>4, <2>5 DEF ProtectSend
  <1>18. CASE ProtectRecheck
    <2>1. UNCHANGED <<algo, unit, prot, rule, flow>>
      BY <1>18 DEF ProtectRecheck, exchange
    <2>2. CASE ProtectError
      BY <1>0, <1>1, <1>3, <1>4, <1>6, <2>1, <2>2
    <2>3. CASE call' = [call EXCEPT !.pc = "save"] /\ entries' = entries
      <3>1. CallShape'
        BY <1>18, <2>1, <2>3, <1>5 DEF ProtectRecheck
      <3> QED BY <1>0, <1>1, <1>4, <2>1, <2>3, <3>1
    <2> QED BY <1>18, <2>2, <2>3 DEF ProtectRecheck
  <1>19. CASE ProtectSave
    <2>1. UNCHANGED <<algo, rule, flow>> /\ call' = NoCall
      BY <1>19 DEF ProtectSave, ProtectError, exchange
    <2>2. entries' \in BOOLEAN
      BY <1>19, <1>6 DEF ProtectSave
    <2>3. prot' \in ProtRow
      BY <1>19, <1>2 DEF ProtectSave, ProtRow, ProtectionStatus
    <2>4. unit' \in UnitRow
      <3>1. [unit EXCEPT !.review = @ /\ call.by # "adopt"] \in UnitRow
        BY DEF UnitRow
      <3> QED BY <3>1, <1>19 DEF ProtectSave
    <2>5. CallShape'
      BY <2>1, EmptyRows DEF CallShape
    <2> QED BY <1>0, <1>1, <1>4, <2>1, <2>2, <2>3, <2>4, <2>5
  <1> QED
    BY <1>10, <1>11, <1>12, <1>13, <1>14, <1>15, <1>16, <1>17, <1>18, <1>19 DEF Protect

\* The unit after release_pending_execution, and with other markers.
LEMMA UnitMarks ==
    ASSUME unit \in UnitRow
    PROVE  /\ Released \in UnitRow /\ Released.remaining = unit.remaining
           /\ [Released EXCEPT !.unknown = FALSE] \in UnitRow
           /\ [Released EXCEPT !.unknown = FALSE].remaining = unit.remaining
           /\ [unit EXCEPT !.unknown = TRUE] \in UnitRow
           /\ [unit EXCEPT !.ord = "exit"] \in UnitRow
           /\ [unit EXCEPT !.ord = "exit", !.unknown = FALSE] \in UnitRow
  BY DEF Released, UnitRow, Active, Orders

LEMMA BlockShape ==
    ASSUME ShapeInv, NEW st \in ProtectionStatus, BlockExit(st)
    PROVE  CallShape' /\ prot' \in ProtRow /\ flow' \in FlowRow
  <1>1. prot' \in ProtRow
    BY DEF BlockExit, ShapeInv, ProtRow
  <1>2. flow' \in FlowRow
    BY DEF BlockExit, ShapeInv, FlowRow
  <1>3. CallShape'
    BY EmptyRows DEF BlockExit, CallShape
  <1> QED BY <1>1, <1>2, <1>3

\* An order whose exit is accepted or linked.
LEMMA ExitAccepted ==
    ASSUME BookShape, exPos' = exPos,
           \/ book' = AcceptExit
           \/ book' = [AcceptExit EXCEPT !["exit"].linked = TRUE]
           \/ book' = [book EXCEPT !["exit"].linked = TRUE]
    PROVE  BookShape'
  <1>1. "exit" \in Orders
    BY DEF Orders
  <1>2. book["exit"] \in BookRow /\ OrderFits(book["exit"], exPos) /\ exPos \in 0..Size
    BY <1>1 DEF BookShape
  <1>3. exPos' \in 0..Size /\ exPos' <= exPos
    BY <1>2
  <1> DEFINE s == IF book["exit"].st = "intent" THEN "live" ELSE book["exit"].st
             a == [book["exit"] EXCEPT !.st = s]
             b == [book["exit"] EXCEPT !.st = s, !.linked = TRUE]
             c == [book["exit"] EXCEPT !.linked = TRUE]
  <1>4. s \in {"none", "live", "filled", "canceled"}
        /\ (s = "live" => book["exit"].st \in {"intent", "live"})
    BY <1>2 DEF BookRow
  <1>5. AcceptExit = [book EXCEPT !["exit"] = a]
    BY <1>1, <1>2 DEF AcceptExit, BookShape, BookRow
  <1>6. [AcceptExit EXCEPT !["exit"].linked = TRUE] = [book EXCEPT !["exit"] = b]
    <2>1. AcceptExit["exit"] = a
      BY <1>1, <1>5 DEF BookShape
    <2>2. [a EXCEPT !.linked = TRUE] = b
      BY <1>2 DEF BookRow
    <2>3. [AcceptExit EXCEPT !["exit"].linked = TRUE]
            = [AcceptExit EXCEPT !["exit"] = [AcceptExit["exit"] EXCEPT !.linked = TRUE]]
      OBVIOUS
    <2> HIDE DEF a, b
    <2> QED BY <2>1, <2>2, <2>3, <1>5 DEF BookShape
  <1>7. [book EXCEPT !["exit"].linked = TRUE] = [book EXCEPT !["exit"] = c]
    BY <1>1, <1>2 DEF BookShape, BookRow
  <1> HIDE DEF s
  <1>8. a \in BookRow /\ b \in BookRow /\ c \in BookRow
    BY <1>2, <1>4 DEF BookRow
  <1>9. OrderFits(a, exPos') /\ OrderFits(b, exPos') /\ OrderFits(c, exPos')
    BY <1>2, <1>4 DEF BookRow, OrderFits
  <1> HIDE DEF a, b, c
  <1>10. CASE book' = [book EXCEPT !["exit"] = a]
    BY <1>1, <1>3, <1>8, <1>9, <1>10, BookPut
  <1>11. CASE book' = [book EXCEPT !["exit"] = b]
    BY <1>1, <1>3, <1>8, <1>9, <1>11, BookPut
  <1>12. CASE book' = [book EXCEPT !["exit"] = c]
    BY <1>1, <1>3, <1>8, <1>9, <1>12, BookPut
  <1> QED BY <1>5, <1>6, <1>7, <1>10, <1>11, <1>12

\* A software exit and cancel_for_close.
LEMMA ExitShape ==
    ASSUME ShapeInv, Exit PROVE ShapeInv'
  <1> USE DEF ShapeInv
  <1>0. exPos' = exPos /\ rule' = rule /\ armed' = armed
    BY DEF Exit, ClaimExit, CancelBegin, CancelSend, CancelPoll, ReleaseExit,
           RereadProtection, DisableEntries, SubmitExit, RetryExit, exchange, store
  <1>1. ASSUME book' = book PROVE BookShape'
    BY <1>0, <1>1 DEF BookShape
  <1>2. ASSUME algo' = algo PROVE AlgoShape'
    BY <1>2 DEF AlgoShape
  <1>3. call \in CallRow /\ call.id \in StopId
    BY DEF CallShape, CallRow
  <1>4. ASSUME call' = call, unit' \in UnitRow, unit'.remaining = unit.remaining
        PROVE  CallShape'
    BY <1>4 DEF CallShape
  <1>5. /\ prot.status \in ProtectionStatus /\ "failed" \in ProtectionStatus
        /\ "active" \in ProtectionStatus /\ "canceling" \in ProtectionStatus
        /\ "canceled" \in ProtectionStatus
    BY DEF ProtRow, ProtectionStatus
  <1>6. \A st \in ProtectionStatus : [prot EXCEPT !.status = st] \in ProtRow
    BY DEF ProtRow
  <1>10. CASE \E act \in {"close", "reduce"}, q \in 1..Size : ClaimExit(act, q)
    <2> PICK act \in {"close", "reduce"}, q \in 1..Size : ClaimExit(act, q)
      BY <1>10
    <2> DEFINE r == [NoOrder EXCEPT !.st = "intent", !.left = q, !.qty = q, !.act = act]
    <2>1. /\ UNCHANGED <<algo, prot, entries, call>>
          /\ flow' = [pc |-> "stop", canceled |-> FALSE]
          /\ book' = [book EXCEPT !["exit"] = r]
          /\ unit' = [unit EXCEPT !.status = IF act = "close" THEN "closing" ELSE "reducing",
                                  !.ord = "none", !.cl = TRUE, !.unknown = FALSE]
      BY DEF ClaimExit
    <2>2. unit' \in UnitRow /\ unit'.remaining = unit.remaining
      BY <2>1 DEF UnitRow, Active
    <2>3. flow' \in FlowRow
      BY <2>1 DEF FlowRow
    <2>4. q \in 0..Size /\ q >= 1
      BY SizeAssumption
    <2>5. exPos' \in 0..Size /\ exPos' <= exPos
      BY <1>0 DEF BookShape
    <2>6. r \in BookRow /\ OrderFits(r, exPos')
      BY <2>4, <2>5, EmptyRows, SizeAssumption DEF NoOrder, BookRow, OrderFits
    <2> HIDE DEF r
    <2>7. BookShape'
      BY <2>1, <2>5, <2>6, BookPut DEF Orders
    <2> QED BY <1>0, <1>2, <1>4, <2>1, <2>2, <2>3, <2>7
  <1>11. CASE CancelBegin
    <2>1. UNCHANGED <<algo, book, unit, entries>>
      BY <1>11 DEF CancelBegin, exchange
    <2>2. CASE BlockExit(prot.status)
      BY <1>0, <1>1, <1>2, <1>5, <2>1, <2>2, BlockShape
    <2>3. CASE flow' = [flow EXCEPT !.pc = "submit"] /\ UNCHANGED <<prot, call>>
      <3>1. flow' \in FlowRow
        BY <2>3 DEF FlowRow
      <3> QED BY <1>0, <1>1, <1>2, <1>4, <2>1, <2>3, <3>1
    <2>4. CASE /\ prot' = [prot EXCEPT !.status = "canceling"]
               /\ call' = [NoCall EXCEPT !.op = "cancel", !.by = "daemon", !.pc = "send",
                                         !.id = prot.id]
               /\ UNCHANGED flow
      <3>1. call' \in CallRow /\ call'.op = "cancel"
        BY <2>4, EmptyRows DEF CallRow, NoCall, ProtRow
      <3>2. CallShape'
        BY <3>1 DEF CallShape
      <3> QED BY <1>0, <1>1, <1>2, <1>5, <1>6, <2>1, <2>4, <3>2
    <2> QED BY <1>11, <2>2, <2>3, <2>4 DEF CancelBegin
  <1>12. CASE CancelSend
    <2>1. UNCHANGED <<book, unit, entries>>
      BY <1>12 DEF CancelSend
    <2>2. algo' = algo \/ algo' = CanceledStop
      BY <1>12 DEF CancelSend
    <2>3. AlgoShape'
      <3> DEFINE a == [algo[call.id] EXCEPT !.st = "canceling"]
      <3>1. algo[call.id] \in AlgoRow /\ StopFits(algo[call.id])
        BY <1>3 DEF AlgoShape
      <3>2. CASE algo' = algo
        BY <3>2, <1>2
      <3>3. CASE algo' = CanceledStop /\ Pending(call.id)
        <4>1. a \in AlgoRow /\ StopFits(a)
          BY <3>1, <3>3 DEF AlgoRow, StopFits, Pending
        <4>2. algo' = [algo EXCEPT ![call.id] = a]
          BY <3>1, <3>3, <1>3 DEF CanceledStop, AlgoShape, AlgoRow
        <4> HIDE DEF a
        <4> QED BY <4>1, <4>2, <1>3, AlgoPut
      <3> QED BY <3>2, <3>3, <1>12 DEF CancelSend
    <2>4. CASE BlockExit("failed")
      BY <1>0, <1>1, <1>5, <2>1, <2>3, <2>4, BlockShape
    <2>5. CASE call' = [call EXCEPT !.pc = "poll"] /\ UNCHANGED <<prot, flow>>
      <3>1. call' \in CallRow /\ call'.op = "cancel"
        BY <2>5, <1>12, <1>3 DEF CallRow, CancelSend
      <3>2. CallShape'
        BY <3>1 DEF CallShape
      <3> QED BY <1>0, <1>1, <2>1, <2>3, <2>5, <3>2
    <2> QED BY <1>12, <2>4, <2>5 DEF CancelSend
  <1>13. CASE CancelPoll
    <2>1. UNCHANGED <<algo, book, unit, entries>>
      BY <1>13 DEF CancelPoll, exchange
    <2>2. CASE BlockExit("failed") \/ BlockExit("active")
      BY <1>0, <1>1, <1>2, <1>5, <2>1, <2>2, BlockShape
    <2>3. CASE /\ prot' = [prot EXCEPT !.status = "canceled"]
               /\ flow' = [pc |-> "disable", canceled |-> TRUE]
               /\ call' = NoCall
      <3>1. flow' \in FlowRow
        BY <2>3 DEF FlowRow
      <3>2. CallShape'
        BY <2>3, EmptyRows DEF CallShape
      <3> QED BY <1>0, <1>1, <1>2, <1>5, <1>6, <2>1, <2>3, <3>1, <3>2
    <2> QED BY <1>13, <2>2, <2>3 DEF CancelPoll
  <1>14. CASE SubmitExit
    <2>1. UNCHANGED <<algo, prot, entries, call>> /\ flow' = Idle
      BY <1>14 DEF SubmitExit
    <2>2. \/ book' = book \/ book' = AcceptExit
          \/ book' = [AcceptExit EXCEPT !["exit"].linked = TRUE]
      BY <1>14 DEF SubmitExit
    <2>3. BookShape'
      BY <1>0, <1>1, <2>2, ExitAccepted
    <2>4. unit' \in {[unit EXCEPT !.ord = "exit"], [unit EXCEPT !.unknown = TRUE], Released}
      BY <1>14 DEF SubmitExit
    <2>5. unit' \in UnitRow /\ unit'.remaining = unit.remaining
      <3>1. unit' \in UnitRow
        BY <2>4, UnitMarks
      <3>2. unit'.remaining = unit.remaining
        BY <2>4 DEF UnitRow, Released
      <3> QED BY <3>1, <3>2
    <2> QED BY <1>0, <1>2, <1>4, <2>1, <2>3, <2>5, EmptyRows
  <1>15. CASE RetryExit
    <2>1. UNCHANGED <<algo, prot, entries, call>>
      BY <1>15 DEF RetryExit
    <2>2. book' = book \/ book' = [AcceptExit EXCEPT !["exit"].linked = TRUE]
      BY <1>15 DEF RetryExit
    <2>3. BookShape'
      BY <1>0, <1>1, <2>2, ExitAccepted
    <2>4. unit' \in {[unit EXCEPT !.ord = "exit", !.unknown = FALSE],
                     [Released EXCEPT !.unknown = FALSE]}
      BY <1>15 DEF RetryExit
    <2>5. unit' \in UnitRow /\ unit'.remaining = unit.remaining
      <3>1. unit' \in UnitRow
        BY <2>4, UnitMarks
      <3>2. unit'.remaining = unit.remaining
        BY <2>4 DEF UnitRow, Released
      <3> QED BY <3>1, <3>2
    <2>6. flow' \in FlowRow
      BY <1>15, EmptyRows DEF RetryExit
    <2> QED BY <1>0, <1>2, <1>4, <2>1, <2>3, <2>5, <2>6
  <1>16. CASE ReleaseExit \/ RereadProtection \/ DisableEntries
    <2>1. UNCHANGED <<algo, book, prot, call>> /\ entries' \in BOOLEAN
      BY <1>16 DEF ReleaseExit, RereadProtection, DisableEntries, exchange, store
    <2>2. unit' = unit \/ unit' = Released
      BY <1>16 DEF ReleaseExit, RereadProtection, DisableEntries, store
    <2>3. unit' \in UnitRow /\ unit'.remaining = unit.remaining
      BY <2>2, UnitMarks
    <2>4. flow' \in FlowRow
      <3>1. flow' = Idle \/ \E p \in {"reread", "disable", "submit"} :
                               flow' = [flow EXCEPT !.pc = p]
        BY <1>16 DEF ReleaseExit, RereadProtection, DisableEntries
      <3> QED BY <3>1, EmptyRows DEF FlowRow
    <2> QED BY <1>0, <1>1, <1>2, <1>4, <2>1, <2>3, <2>4
  <1> QED BY <1>10, <1>11, <1>12, <1>13, <1>14, <1>15, <1>16 DEF Exit

\* Applying a fill keeps the rows typed and takes at most what remains.
LEMMA FillShape ==
    ASSUME ShapeInv, NEW o \in Orders
    PROVE  LET u == FilledUnit(o, LinkedUnit(o))
               p == FilledProtection(o, u, LinkedProtection(o))
           IN  /\ u \in UnitRow /\ u.remaining <= unit.remaining
               /\ p \in ProtRow
  <1> DEFINE v == LinkedUnit(o)
             u == FilledUnit(o, v)
             q == LinkedProtection(o)
             p == FilledProtection(o, u, q)
  <1>0. unit \in UnitRow /\ prot \in ProtRow
    BY DEF ShapeInv
  <1>1. v \in UnitRow /\ v.remaining = unit.remaining
    BY <1>0 DEF LinkedUnit, UnitRow, Active
  <1>2. q \in ProtRow
    BY <1>0 DEF LinkedProtection, ProtRow, ProtectionStatus, Orders
  <1> HIDE DEF v, q
  <1>3. u \in UnitRow /\ u.remaining <= v.remaining
    <2> DEFINE st == StatusAfterFill(o, v.remaining - 1)
               r == [v EXCEPT !.remaining = @ - 1, !.status = st]
    <2>1. st \in Active \cup {"closed"}
      BY DEF StatusAfterFill, Active
    <2>2. CASE v.remaining = 0
      <3>1. u = v
        BY <2>2 DEF FilledUnit
      <3>2. v.remaining \in 0..Size
        BY <1>1 DEF UnitRow
      <3> QED BY <1>1, <3>1, <3>2
    <2>3. CASE v.remaining # 0
      <3>1. v.remaining \in 0..Size /\ v.remaining - 1 \in 0..Size
        BY <1>1, <2>3, SizeAssumption DEF UnitRow
      <3>2. u = r \/ u = [r EXCEPT !.ord = "none", !.cl = FALSE, !.unknown = FALSE]
        BY <2>3 DEF FilledUnit
      <3> HIDE DEF st
      <3>3. r \in UnitRow /\ r.remaining = v.remaining - 1
        BY <1>1, <2>1, <3>1 DEF UnitRow
      <3> HIDE DEF r, u
      <3>4. u \in UnitRow /\ u.remaining = v.remaining - 1
        BY <3>2, <3>3 DEF UnitRow
      <3> QED BY <3>1, <3>4
    <2> QED BY <2>2, <2>3
  <1> HIDE DEF u
  <1>4. p \in ProtRow
    BY <1>2 DEF FilledProtection, ProtRow, ProtectionStatus
  <1> HIDE DEF p
  <1>5. u \in UnitRow /\ u.remaining <= unit.remaining /\ p \in ProtRow
    BY <1>1, <1>3, <1>4
  <1> QED BY <1>5 DEF v, u, q, p

LEMMA SeenShape ==
    ASSUME BookShape, NEW o \in Orders, NEW l \in BOOLEAN, book[o].unseen > 0,
           exPos' = exPos, book' = SeenFill(o, l)
    PROVE  BookShape'
  <1> DEFINE b == [book[o] EXCEPT !.unseen = @ - 1, !.seen = @ + 1, !.linked = l]
             c == [NoOrder EXCEPT !.st = b.st]
             r == IF b.st = "live" \/ b.unseen > 0 THEN b ELSE c
  <1>1. book[o] \in BookRow /\ OrderFits(book[o], exPos) /\ exPos \in 0..Size
    BY DEF BookShape
  <1>2. book' = [book EXCEPT ![o] = r]
    BY DEF SeenFill
  <1>0. exPos' \in 0..Size /\ exPos' <= exPos
    BY <1>1
  <1>3. book[o].unseen \in 1..Size /\ book[o].seen \in 0..Size
        /\ book[o].st # "intent"
        /\ book[o].unseen + book[o].seen + exPos <= Size
    BY <1>1 DEF BookRow, OrderFits
  <1>4. book[o].unseen - 1 \in 0..Size /\ book[o].seen + 1 \in 0..Size
    BY <1>1, <1>3, SizeAssumption
  <1>5. b \in BookRow
    BY <1>1, <1>4 DEF BookRow
  <1>6. b.unseen = book[o].unseen - 1 /\ b.seen = book[o].seen + 1 /\ b.st = book[o].st
        /\ b.left = book[o].left
    BY <1>1 DEF BookRow
  <1> HIDE DEF b
  <1>7. OrderFits(b, exPos')
    BY <1>1, <1>3, <1>6 DEF OrderFits
  <1>8. CASE b.st = "live" \/ b.unseen > 0
    BY <1>0, <1>2, <1>5, <1>7, <1>8, BookPut
  <1>9. CASE ~(b.st = "live" \/ b.unseen > 0)
    <2>1. c \in BookRow
      BY <1>5, EmptyRows DEF NoOrder, BookRow
    <2>2. OrderFits(c, exPos')
      <3>1. OrderFits(NoOrder, exPos') /\ NoOrder \in BookRow
        BY <1>0, EmptyRows
      <3>2. c.unseen = NoOrder.unseen /\ c.seen = NoOrder.seen /\ c.st = b.st
        BY DEF NoOrder
      <3>3. c.st \notin {"intent", "live"}
        BY <3>2, <1>3, <1>6, <1>9
      <3> QED BY <3>1, <3>2, <3>3 DEF OrderFits
    <2> HIDE DEF c
    <2> QED BY <1>0, <1>2, <1>9, <2>1, <2>2, BookPut
  <1> QED BY <1>8, <1>9

\* The daemon applies what the exchange reports.
LEMMA DaemonShape ==
    ASSUME ShapeInv, Daemon PROVE ShapeInv'
  <1> USE DEF ShapeInv
  <1>0. /\ exPos' = exPos /\ algo' = algo /\ rule' = rule /\ armed' = armed
        /\ call' = call
    BY DEF Daemon, IngestFill, RecoverTerminalOrder, RecoverExitIntent,
           TrackProtectionGap, exchange
  <1>1. ASSUME book' = book PROVE BookShape'
    BY <1>0, <1>1 DEF BookShape
  <1>2. AlgoShape'
    BY <1>0 DEF AlgoShape
  <1>3. CASE \E o \in Orders : IngestFill(o)
    <2> PICK o \in Orders : IngestFill(o)
      BY <1>3
    <2>1. entries' = entries /\ book' = SeenFill(o, Matched(o)) /\ book[o].unseen > 0
      BY DEF IngestFill
    <2>2. Matched(o) \in BOOLEAN
      BY DEF Matched, TriggersOwned, BookShape, BookRow, UnitRow
    <2>3. BookShape'
      BY <1>0, <2>1, <2>2, SeenShape
    <2>4. unit' \in UnitRow /\ unit'.remaining <= unit.remaining /\ prot' \in ProtRow
          /\ flow' \in FlowRow
      <3>1. CASE Matched(o)
        BY <3>1, FillShape, EmptyRows DEF IngestFill
      <3>2. CASE ~Matched(o)
        <4>1. UNCHANGED <<unit, prot, flow>>
          BY <3>2 DEF IngestFill
        <4>2. unit.remaining \in 0..Size
          BY DEF UnitRow
        <4> QED BY <4>1, <4>2
      <3> QED BY <3>1, <3>2
    <2>5. CallShape'
      BY <1>0, <2>4, CallStays
    <2> QED BY <1>0, <1>2, <2>1, <2>3, <2>4, <2>5
  <1>4. CASE \E o \in Orders : RecoverTerminalOrder(o)
    <2> PICK o \in Orders : RecoverTerminalOrder(o)
      BY <1>4
    <2>1. book' = book /\ prot' = prot /\ entries' = entries
      BY DEF RecoverTerminalOrder, exchange
    <2>2. unit' \in UnitRow /\ unit'.remaining = unit.remaining
      <3>1. unit' = [unit EXCEPT !.status = IF @ = "open" THEN @
                                        ELSE IF unit.remaining = 0 THEN "closed" ELSE "open",
                             !.ord = "none", !.cl = FALSE, !.unknown = FALSE]
        BY DEF RecoverTerminalOrder
      <3> QED BY <3>1 DEF UnitRow, Active
    <2>3. flow' \in FlowRow
      BY EmptyRows DEF RecoverTerminalOrder
    <2>4. CallShape'
      BY <1>0, <2>2 DEF CallShape
    <2> QED BY <1>0, <1>1, <1>2, <2>1, <2>2, <2>3, <2>4
  <1>5. CASE RecoverExitIntent
    <2>1. prot' = prot /\ entries' = entries
      BY <1>5 DEF RecoverExitIntent
    <2>2. book' = book \/ book' = [book EXCEPT !["exit"].linked = TRUE]
      BY <1>5 DEF RecoverExitIntent
    <2>3. BookShape'
      BY <1>0, <1>1, <2>2, ExitAccepted
    <2>4. unit' \in {[unit EXCEPT !.ord = "exit", !.unknown = FALSE],
                     [Released EXCEPT !.unknown = FALSE]}
      BY <1>5 DEF RecoverExitIntent
    <2>5. unit' \in UnitRow
      BY <2>4, UnitMarks
    <2>6. unit'.remaining = unit.remaining
      BY <2>4 DEF UnitRow, Released
    <2>7. flow' \in FlowRow
      BY <1>5, EmptyRows DEF RecoverExitIntent
    <2>8. CallShape'
      BY <1>0, <2>6 DEF CallShape
    <2> QED BY <1>0, <1>2, <2>1, <2>3, <2>5, <2>7, <2>8
  <1>6. CASE TrackProtectionGap
    <2>1. book' = book /\ UNCHANGED <<unit, prot, flow>> /\ entries' = FALSE
      BY <1>6 DEF TrackProtectionGap, exchange
    <2>2. CallShape'
      BY <1>0, <2>1 DEF CallShape
    <2> QED BY <1>0, <1>1, <1>2, <2>1, <2>2
  <1> QED BY <1>3, <1>4, <1>5, <1>6 DEF Daemon

\* The operator's switch, a crash, and the start-up.
LEMMA ProcessShape ==
    ASSUME ShapeInv, Process PROVE ShapeInv'
  <1> USE DEF ShapeInv
  <1>0. exPos' = exPos /\ algo' = algo /\ rule' = rule
    BY DEF Process, EnableEntries, Crash, RecoverAtStartup, StartArmed, exchange, store
  <1>1. ASSUME book' = book PROVE BookShape'
    BY <1>0, <1>1 DEF BookShape
  <1>2. AlgoShape'
    BY <1>0 DEF AlgoShape
  <1>3. CASE EnableEntries
    <2>1. UNCHANGED <<book, unit, prot, armed, call, flow>> /\ entries' = TRUE
      BY <1>3 DEF EnableEntries, exchange
    <2>2. CallShape'
      BY <2>1 DEF CallShape
    <2> QED BY <1>0, <1>1, <1>2, <2>1, <2>2
  <1>4. CASE Crash
    <2>1. UNCHANGED <<book, unit, prot, entries>> /\ armed' = FALSE /\ call' = NoCall
          /\ flow' = Idle
      BY <1>4 DEF Crash, exchange, store
    <2>2. CallShape'
      BY <2>1, EmptyRows DEF CallShape
    <2> QED BY <1>0, <1>1, <1>2, <2>1, <2>2, EmptyRows
  <1>5. CASE RecoverAtStartup
    <2> DEFINE o == prot.id
    <2>1. o \in Orders
      BY DEF ProtRow, Orders
    <2>2. /\ unit' = FilledUnit(o, LinkedUnit(o))
          /\ prot' = FilledProtection(o, FilledUnit(o, LinkedUnit(o)), LinkedProtection(o))
          /\ book' = SeenFill(o, TRUE) /\ book[o].unseen > 0
          /\ entries' = FALSE /\ UNCHANGED <<armed, call, flow>>
      BY <1>5 DEF RecoverAtStartup, RecoversTrigger
    <2> HIDE DEF o
    <2>3. BookShape'
      BY <1>0, <2>1, <2>2, SeenShape
    <2>4. unit' \in UnitRow /\ unit'.remaining <= unit.remaining /\ prot' \in ProtRow
      BY <2>1, <2>2, FillShape
    <2>5. CallShape'
      BY <2>2, <2>4, CallStays
    <2> QED BY <1>0, <1>2, <2>2, <2>3, <2>4, <2>5
  <1>6. CASE StartArmed
    <2>1. UNCHANGED <<book, unit, prot, call, flow>> /\ entries' = FALSE /\ armed' = TRUE
      BY <1>6 DEF StartArmed, exchange
    <2>2. CallShape'
      BY <2>1 DEF CallShape
    <2> QED BY <1>0, <1>1, <1>2, <2>1, <2>2
  <1> QED BY <1>3, <1>4, <1>5, <1>6 DEF Process

\* An entry carries the position it read.
LEMMA EntryShape ==
    ASSUME ShapeInv, EntryCall PROVE ShapeInv'
  <1>0. entries' \in BOOLEAN
    BY DEF EntryCall, EntryBegin, EntryUnits, EntryStop, EntryEnd, store, ShapeInv
  <1>1. UNCHANGED <<exPos, algo, book, unit, prot, rule, armed, flow>>
    BY DEF EntryCall, EntryBegin, EntryUnits, EntryStop, EntryEnd, exchange, store
  <1>2. call \in CallRow /\ exPos \in 0..Size
    BY DEF ShapeInv, CallShape, BookShape
  <1>3. \/ call' = NoCall
        \/ call' = [NoCall EXCEPT !.op = "entry", !.pc = "units", !.qty = exPos]
        \/ \E pc \in {"stop", "send"} : call.op = "entry" /\ call' = [call EXCEPT !.pc = pc]
    BY DEF EntryCall, EntryBegin, EntryUnits, EntryStop, EntryEnd
  <1>4. call' \in CallRow /\ call'.op \in {"none", "entry"}
    <2>1. CASE call' = NoCall
      BY <2>1, EmptyRows
    <2>2. CASE call' = [NoCall EXCEPT !.op = "entry", !.pc = "units", !.qty = exPos]
      BY <1>2, <2>2, EmptyRows DEF NoCall, CallRow
    <2>3. CASE \E pc \in {"stop", "send"} : call.op = "entry" /\ call' = [call EXCEPT !.pc = pc]
      BY <1>2, <2>3 DEF CallRow
    <2> QED BY <1>3, <2>1, <2>2, <2>3
  <1>5. CallShape'
    BY <1>4 DEF CallShape
  <1> QED BY <1>0, <1>1, <1>5 DEF ShapeInv, BookShape, AlgoShape

LEMMA NextShape == ShapeInv /\ [Next]_vars => ShapeInv'
  BY ShapeStutter, ExchangeShape, AmendShape, ProtectShape, ExitShape, DaemonShape,
     EntryShape, ProcessShape DEF Next

\* The rows of the store, the stops and the orders stay typed: nothing executes below
\* zero, and no fill takes more than what remains of the unit.
THEOREM ProtectionTypes == Spec => []TypeOK
  <1>1. Spec => []ShapeInv
    BY InitShape, NextShape, PTL DEF Spec
  <1> QED BY <1>1, ShapeGivesTypes, PTL


-----------------------------------------------------------------------------
(***************************************************************************)
(* The record of a stop is never better than the stop.  The property speaks*)
(* of the states in which no call is in progress; what a call knows before *)
(* it writes the row, and what it hides while the exchange and the row may *)
(* disagree, is the strengthening.                                         *)
(***************************************************************************)
\* Stop i, while it is on the exchange, is at least as tight as the record and large
\* enough for the unit.
Covers(i) ==
    Pending(i) => algo[i].stop >= prot.stop /\ algo[i].qty >= unit.remaining

\* The row is not active while an amend may have replaced what it says, and the price
\* the amend may fall back to is the recorded one.
AmendHidden ==
    call.op = "amend" =>
        /\ call.id = prot.id /\ call.old = prot.stop
        /\ call.pc # "verify" => prot.status # "active"

\* A cancel that finds the stop still pending may make the row active again.
CancelCovers == call.op = "cancel" => call.id = prot.id /\ Covers(prot.id)

\* What a call is about to record was proven on the exchange.
ProvenStop ==
    call.op \in {"amend", "protect"} /\ call.pc \in {"publish", "save"} /\ Pending(call.id)
        => algo[call.id].stop = call.stop /\ algo[call.id].qty = call.qty

ActiveCovers == prot.status = "active" => Covers(prot.id)

CoverInv == AmendHidden /\ CancelCovers /\ ProvenStop /\ ActiveCovers

\* A stop that is on the exchange after the step was there before, and was not changed.
StopsStay ==
    \A i \in StopId : algo'[i].st \in {"live", "canceling"} =>
        /\ algo[i].st \in {"live", "canceling"}
        /\ algo'[i].stop = algo[i].stop /\ algo'[i].qty = algo[i].qty

\* The numbers that the argument compares.
LEMMA CoverNumbers ==
    ASSUME ShapeInv
    PROVE  /\ prot.stop \in Nat /\ unit.remaining \in Nat /\ call.stop \in Nat
           /\ call.qty \in Nat /\ prot.id \in StopId /\ call.id \in StopId
           /\ \A i \in StopId : algo[i].stop \in Nat /\ algo[i].qty \in Nat
  <1>1. prot.stop \in Nat /\ prot.id \in StopId
    BY PricesAreLevels DEF ShapeInv, ProtRow
  <1>2. unit.remaining \in Nat
    BY SizeAssumption DEF ShapeInv, UnitRow
  <1>3. call.stop \in Nat /\ call.qty \in Nat /\ call.id \in StopId
    <2>1. call.stop \in PriceOrNone /\ call.qty \in 0..Size /\ call.id \in StopId
      BY DEF ShapeInv, CallShape, CallRow
    <2>2. call.stop \in Nat
      BY <2>1, PricesAreLevels
    <2>3. call.qty \in Nat
      BY <2>1, SizeAssumption
    <2> QED BY <2>1, <2>2, <2>3
  <1>4. ASSUME NEW i \in StopId PROVE algo[i].stop \in Nat /\ algo[i].qty \in Nat
    <2>1. algo[i].stop \in PriceOrNone /\ algo[i].qty \in 0..Size
      BY DEF ShapeInv, AlgoShape, AlgoRow
    <2>2. algo[i].stop \in Nat
      BY <2>1, PricesAreLevels
    <2>3. algo[i].qty \in Nat
      BY <2>1, SizeAssumption
    <2> QED BY <2>2, <2>3
  <1> QED BY <1>1, <1>2, <1>3, <1>4

\* A step that places and amends nothing, leaves the recorded price, and begins, ends
\* or continues a call without proving a stop.
LEMMA CoverKept ==
    ASSUME ShapeInv, ShapeInv', CoverInv, StopsStay,
           prot'.stop = prot.stop, prot'.id = prot.id,
           unit'.remaining <= unit.remaining,
           \/ call' = call
           \/ call'.op \in {"none", "entry"}
           \/ call'.op = "protect" /\ call'.pc \notin {"publish", "save"}
           \/ call'.op = "cancel" /\ call.op = "cancel" /\ call'.id = call.id,
           \/ prot'.status # "active"
           \/ prot.status = "active"
           \/ call'.op = "none" /\ Covers(prot.id)
    PROVE  CoverInv'
  <1>1. prot.id \in StopId /\ call.id \in StopId
    BY CoverNumbers
  <1>2. ASSUME Covers(prot.id) PROVE Covers(prot.id)'
    <2>1. /\ prot'.stop \in Nat /\ unit'.remaining \in Nat /\ unit.remaining \in Nat
      BY CoverNumbers DEF ShapeInv, ProtRow, UnitRow
    <2>2. algo[prot.id].qty \in Nat
      BY CoverNumbers
    <2> QED BY <1>1, <1>2, <2>1, <2>2 DEF Covers, Pending, StopsStay
  <1>3. AmendHidden'
    BY DEF CoverInv, AmendHidden
  <1>4. CancelCovers'
    BY <1>2 DEF CoverInv, CancelCovers
  <1>5. ProvenStop'
    BY <1>1 DEF CoverInv, ProvenStop, Pending, StopsStay
  <1>6. ActiveCovers'
    BY <1>2 DEF CoverInv, ActiveCovers
  <1> QED BY <1>3, <1>4, <1>5, <1>6 DEF CoverInv

LEMMA InitCover == Init => CoverInv
  <1> SUFFICES ASSUME Init PROVE CoverInv
    OBVIOUS
  <1>1. call.op = "none"
    BY EmptyRows DEF Init
  <1>2. PICK s \in Price, st \in {"live", "none"} :
          /\ algo = [i \in StopId |-> IF i = "att" /\ st = "live"
                                      THEN [st |-> st, stop |-> s, qty |-> Size] ELSE NoStop]
          /\ \/ /\ unit = OpenUnit(FALSE)
                /\ prot = [status |-> "active", id |-> "att", stop |-> s, qty |-> Size,
                           trig |-> "none"]
             \/ prot = NoProtection
    BY DEF Init
  <1>3. CASE prot = NoProtection
    BY <1>1, <1>3 DEF CoverInv, AmendHidden, CancelCovers, ProvenStop, ActiveCovers,
                      NoProtection
  <1>4. CASE /\ unit = OpenUnit(FALSE)
             /\ prot = [status |-> "active", id |-> "att", stop |-> s, qty |-> Size,
                        trig |-> "none"]
    <2>1. s \in Nat /\ Size \in Nat
      BY PricesAreNat, SizeAssumption
    <2>2. prot.id = "att" /\ prot.stop = s /\ unit.remaining = Size
      BY <1>4 DEF OpenUnit
    <2>3. algo["att"] = [st |-> "live", stop |-> s, qty |-> Size] \/ algo["att"] = NoStop
      BY <1>2 DEF StopId
    <2>4. Covers(prot.id)
      BY <2>1, <2>2, <2>3 DEF Covers, Pending, NoStop
    <2> QED BY <1>1, <2>4 DEF CoverInv, AmendHidden, CancelCovers, ProvenStop, ActiveCovers
  <1> QED BY <1>2, <1>3, <1>4

LEMMA QuietCover ==
    ASSUME ShapeInv, ShapeInv', CoverInv, UNCHANGED <<algo, prot, unit, call>>
    PROVE  CoverInv'
  <1>1. unit.remaining \in Nat
    BY CoverNumbers
  <1>2. StopsStay
    BY DEF StopsStay
  <1> QED BY <1>1, <1>2, CoverKept

LEMMA ExchangeCover ==
    ASSUME ShapeInv, ShapeInv', CoverInv, Exchange PROVE CoverInv'
  <1>1. UNCHANGED <<unit, prot, call>>
    BY DEF Exchange, CancelTakes, TriggerStop, ExecuteOrder, EndOrder, store
  <1>2. algo' = algo \/ \E i \in StopId : algo' = [algo EXCEPT ![i] = NoStop]
    BY DEF Exchange, CancelTakes, TriggerStop, ExecuteOrder, EndOrder
  <1>3. StopsStay
    BY <1>2 DEF StopsStay, ShapeInv, AlgoShape, NoStop
  <1>4. unit.remaining \in Nat
    BY CoverNumbers
  <1> QED BY <1>1, <1>3, <1>4, CoverKept

LEMMA AmendCover ==
    ASSUME ShapeInv, ShapeInv', CoverInv, Amend PROVE CoverInv'
  <1>0. unit' = unit /\ unit.remaining \in Nat
    BY CoverNumbers DEF Amend, AmendStart, AmendVerify, AmendSend, AmendConfirm,
       ResolveAmend, PublishAmend, store
  <1>1. ASSUME algo' = algo PROVE StopsStay
    BY <1>1 DEF StopsStay
  <1>2. call \in CallRow /\ prot \in ProtRow /\ NoCall.op = "none"
    BY EmptyRows DEF ShapeInv, CallShape
  <1>3. call.op = "amend" => call.qty >= unit.remaining
    BY DEF ShapeInv, CallShape
  <1>4. ASSUME prot' = [prot EXCEPT !.status = "failed"], call' = NoCall, algo' = algo
        PROVE  CoverInv'
    <2>1. prot'.stop = prot.stop /\ prot'.id = prot.id /\ prot'.status = "failed"
      BY <1>2, <1>4 DEF ProtRow
    <2> QED BY <1>0, <1>1, <1>2, <1>4, <2>1, CoverKept
  <1>5. ASSUME call.op = "amend", call.pc # "verify", prot' = prot, algo' = algo,
               \/ call' = [call EXCEPT !.pc = "resolve"]
               \/ /\ call' = [call EXCEPT !.pc = "publish"]
                  /\ Verified(call.id, call.stop, call.qty)
        PROVE  CoverInv'
    <2>1. /\ call'.op = "amend" /\ call'.id = call.id /\ call'.old = call.old
          /\ call'.stop = call.stop /\ call'.qty = call.qty
          /\ call'.pc \in {"resolve", "publish"}
          /\ call'.pc = "publish" => Verified(call.id, call.stop, call.qty)
      BY <1>2, <1>5 DEF CallRow
    <2> QED BY <1>5, <2>1 DEF CoverInv, AmendHidden, CancelCovers, ProvenStop,
                              ActiveCovers, Verified, Pending
  <1>10. CASE \E by \in {"api", "daemon"}, why \in {"edit", "even", "trail"}, s \in Price :
               AmendStart(by, why, s)
    <2>1. /\ algo' = algo /\ prot' = prot
          /\ call'.op = "amend" /\ call'.pc = "verify" /\ call'.id = prot.id
          /\ call'.old = prot.stop
      BY <1>10 DEF AmendStart, exchange, store
    <2> QED BY <1>0, <2>1 DEF CoverInv, AmendHidden, CancelCovers, ProvenStop,
                              ActiveCovers, Covers, Pending
  <1>11. CASE AmendVerify
    <2>1. algo' = algo /\ call.op = "amend"
      BY <1>11 DEF AmendVerify, exchange
    <2>2. CASE call' = NoCall /\ prot' = prot
      BY <1>0, <1>1, <1>2, <2>1, <2>2, CoverKept
    <2>3. CASE prot' = [prot EXCEPT !.status = "amending"]
               /\ call' = [call EXCEPT !.pc = "send"]
      <3>1. /\ prot'.status = "amending" /\ prot'.id = prot.id /\ prot'.stop = prot.stop
            /\ call'.op = "amend" /\ call'.pc = "send" /\ call'.id = call.id
            /\ call'.old = call.old
        BY <1>2, <2>1, <2>3 DEF CallRow, ProtRow
      <3> QED BY <2>1, <3>1 DEF CoverInv, AmendHidden, CancelCovers, ProvenStop, ActiveCovers
    <2> QED BY <1>11, <2>2, <2>3 DEF AmendVerify
  <1>12. CASE AmendSend
    <2>1. /\ prot' = prot /\ call.op = "amend" /\ call.pc = "send"
          /\ \E pc \in {"confirm", "resolve"} : call' = [call EXCEPT !.pc = pc]
      BY <1>12 DEF AmendSend, store
    <2>2. /\ call'.op = "amend" /\ call'.pc \in {"confirm", "resolve"}
          /\ call'.id = call.id /\ call'.old = call.old
      BY <1>2, <2>1 DEF CallRow
    <2> QED BY <2>1, <2>2 DEF CoverInv, AmendHidden, CancelCovers, ProvenStop, ActiveCovers
  <1>13. CASE AmendConfirm
    BY <1>13, <1>5 DEF AmendConfirm, exchange, store
  <1>14. CASE ResolveAmend
    <2>1. algo' = algo /\ call.op = "amend" /\ call.pc = "resolve"
      BY <1>14 DEF ResolveAmend, exchange
    <2>2. CASE FailAmend
      BY <1>4, <2>1, <2>2 DEF FailAmend
    <2>3. CASE Verified(call.id, call.stop, call.qty) /\ prot' = prot
               /\ call' = [call EXCEPT !.pc = "publish"]
      BY <1>5, <2>1, <2>3
    <2>4. CASE /\ Verified(call.id, call.old, call.qty) /\ call' = NoCall
               /\ prot' = [prot EXCEPT !.status = "active"]
      <3>1. call.id = prot.id /\ call.old = prot.stop
        BY <2>1 DEF CoverInv, AmendHidden
      <3>2. Covers(prot.id)
        BY <1>0, <1>3, <2>1, <2>4, <3>1, CoverNumbers DEF Covers, Verified
      <3>3. prot'.stop = prot.stop /\ prot'.id = prot.id
        BY <1>2, <2>4 DEF ProtRow
      <3> QED BY <1>0, <1>1, <1>2, <2>1, <2>4, <3>2, <3>3, CoverKept
    <2> QED BY <1>14, <2>2, <2>3, <2>4 DEF ResolveAmend
  <1>15. CASE PublishAmend
    <2>1. algo' = algo /\ call.op = "amend" /\ call.pc = "publish" /\ call' = NoCall
      BY <1>15 DEF PublishAmend, FailAmend, exchange
    <2>2. CASE FailAmend
      BY <1>4, <2>1, <2>2 DEF FailAmend
    <2>3. CASE \E st \in {"active", "failed"} :
                  prot' = [prot EXCEPT !.status = st, !.stop = call.stop]
      <3>1. prot'.stop = call.stop /\ prot'.id = prot.id
        BY <1>2, <2>3 DEF ProtRow
      <3>2. call.id = prot.id
        BY <2>1 DEF CoverInv, AmendHidden
      <3>3. Covers(prot.id)'
        BY <1>0, <1>3, <2>1, <3>1, <3>2, CoverNumbers
        DEF Covers, Pending, CoverInv, ProvenStop
      <3> QED BY <1>2, <2>1, <3>3 DEF CoverInv, AmendHidden, CancelCovers, ProvenStop,
                                      ActiveCovers
    <2> QED BY <1>15, <2>2, <2>3 DEF PublishAmend
  <1> QED BY <1>10, <1>11, <1>12, <1>13, <1>14, <1>15 DEF Amend

LEMMA ProtectCover ==
    ASSUME ShapeInv, ShapeInv', CoverInv, ChosenStopKept, Protect PROVE CoverInv'
  <1>0. unit.remaining \in Nat /\ NoCall.op = "none" /\ call \in CallRow
    BY CoverNumbers, EmptyRows DEF ShapeInv, CallShape
  <1>1. ASSUME algo' = algo PROVE StopsStay
    BY <1>1 DEF StopsStay
  <1>2. ASSUME NEW by, BeginProtect(by), UNCHANGED <<algo, unit, prot>> PROVE CoverInv'
    <2>1. call'.op = "protect" /\ call'.pc = "balance"
      BY <1>2 DEF BeginProtect, NoCall
    <2> QED BY <1>0, <1>1, <1>2, <2>1, CoverKept
  <1>3. ASSUME ProtectError, UNCHANGED <<algo, unit, prot>> PROVE CoverInv'
    <2>1. call'.op = "none"
      BY <1>0, <1>3 DEF ProtectError
    <2> QED BY <1>0, <1>1, <1>3, <2>1, CoverKept
  <1>4. ASSUME call.op = "protect", Verified(call.id, call.stop, call.qty),
               call' = [call EXCEPT !.pc = "save"], UNCHANGED <<algo, unit, prot>>
        PROVE  CoverInv'
    <2>1. /\ call'.op = "protect" /\ call'.id = call.id /\ call'.stop = call.stop
          /\ call'.qty = call.qty
      BY <1>0, <1>4 DEF CallRow
    <2> QED BY <1>4, <2>1 DEF CoverInv, AmendHidden, CancelCovers, ProvenStop,
                              ActiveCovers, Verified, Pending, Covers
  <1>5. call.op = "protect" => call.qty >= unit.remaining
    BY DEF ShapeInv, CallShape
  <1>10. CASE OperatorProtect
    BY <1>2, <1>10 DEF OperatorProtect, exchange, store
  <1>11. CASE \E s \in Price : AdoptRecovered(s)
    BY <1>2, <1>11 DEF AdoptRecovered, exchange
  <1>12. CASE \E s \in Price \cup {NoRule} : EditStopRule(s)
    BY <1>12, QuietCover DEF EditStopRule, exchange
  <1>13. CASE ReconcileProtection
    <2>1. UNCHANGED <<algo, unit, prot>> /\ (call' = call \/ BeginProtect("daemon"))
      BY <1>13 DEF ReconcileProtection, exchange
    <2> QED BY <1>2, <2>1, QuietCover
  <1>14. CASE Rearm
    BY <1>2, <1>14 DEF Rearm, exchange, store
  <1>15. CASE ProtectBalance
    <2>1. UNCHANGED <<algo, unit, prot>> /\ call.op = "protect"
      BY <1>15 DEF ProtectBalance, exchange
    <2>2. CASE ProtectError
      BY <1>3, <2>1, <2>2
    <2>3. CASE call' = [call EXCEPT !.pc = "find", !.stop = TargetStop, !.id = AlgoClientId]
      <3>1. call'.op = "protect" /\ call'.pc = "find"
        BY <1>0, <2>1, <2>3 DEF CallRow
      <3> QED BY <1>0, <1>1, <2>1, <3>1, CoverKept
    <2> QED BY <1>15, <2>2, <2>3 DEF ProtectBalance
  <1>16. CASE ProtectFind
    <2>1. UNCHANGED <<algo, unit, prot>> /\ call.op = "protect"
      BY <1>16 DEF ProtectFind, exchange
    <2>2. CASE ProtectError
      BY <1>3, <2>1, <2>2
    <2>3. CASE Verified(call.id, call.stop, call.qty) /\ call' = [call EXCEPT !.pc = "save"]
      BY <1>4, <2>1, <2>3
    <2>4. CASE \E pc \in {"place", "amend"} : call' = [call EXCEPT !.pc = pc]
      <3>1. call'.op = "protect" /\ call'.pc \in {"place", "amend"}
        BY <1>0, <2>1, <2>4 DEF CallRow
      <3> QED BY <1>0, <1>1, <2>1, <3>1, CoverKept
    <2>5. \/ ProtectError
          \/ Verified(call.id, call.stop, call.qty) /\ call' = [call EXCEPT !.pc = "save"]
          \/ \E pc \in {"place", "amend"} : call' = [call EXCEPT !.pc = pc]
      BY <1>16 DEF ProtectFind, Verified
    <2> QED BY <2>2, <2>3, <2>4, <2>5
  <1>17. CASE ProtectSend
    <2>1. /\ UNCHANGED <<unit, prot>> /\ call.op = "protect" /\ call.pc \in {"amend", "place"}
          /\ algo' \in {algo, AmendedStop, PlacedStop}
          /\ ProtectError \/ call' = [call EXCEPT !.pc = "recheck"]
      BY <1>17 DEF ProtectSend
    <2>2. call'.op = "none" \/ (call'.op = "protect" /\ call'.pc = "recheck")
      BY <1>0, <2>1 DEF CallRow, ProtectError
    <2>3. CASE algo' = algo
      BY <1>0, <1>1, <2>1, <2>2, <2>3, CoverKept
    <2>4. CASE algo' = AmendedStop \/ algo' = PlacedStop
      <3>1. /\ algo'[call.id].stop = call.stop /\ algo'[call.id].qty = call.qty
            /\ \A i \in StopId \ {call.id} : algo'[i] = algo[i]
        BY <2>4, CoverNumbers DEF AmendedStop, PlacedStop, ShapeInv, AlgoShape, AlgoRow
      <3>2. prot.status = "active" => call.stop >= prot.stop
        BY <2>1 DEF ChosenStopKept
      <3>3. prot.status = "active" => Covers(prot.id)'
        BY <1>5, <2>1, <3>1, <3>2, CoverNumbers DEF Covers, Pending, CoverInv, ActiveCovers
      <3> QED BY <2>1, <2>2, <3>3 DEF CoverInv, AmendHidden, CancelCovers, ProvenStop,
                                      ActiveCovers
    <2> QED BY <2>1, <2>3, <2>4
  <1>18. CASE ProtectRecheck
    <2>1. UNCHANGED <<algo, unit, prot>> /\ call.op = "protect"
      BY <1>18 DEF ProtectRecheck, exchange
    <2>2. CASE ProtectError
      BY <1>3, <2>1, <2>2
    <2>3. CASE Verified(call.id, call.stop, call.qty) /\ call' = [call EXCEPT !.pc = "save"]
      BY <1>4, <2>1, <2>3
    <2> QED BY <1>18, <2>2, <2>3 DEF ProtectRecheck
  <1>19. CASE ProtectSave
    <2>1. /\ algo' = algo /\ call.op = "protect" /\ call.pc = "save" /\ call' = NoCall
          /\ prot'.id = call.id /\ prot'.stop = call.stop
      BY <1>19 DEF ProtectSave, ProtectError, exchange
    <2>2. unit'.remaining = unit.remaining
      BY <1>19 DEF ProtectSave, ShapeInv, UnitRow
    <2>3. Covers(prot.id)'
      BY <1>5, <2>1, <2>2, CoverNumbers DEF Covers, Pending, CoverInv, ProvenStop
    <2> QED BY <1>0, <2>1, <2>3 DEF CoverInv, AmendHidden, CancelCovers, ProvenStop,
                                    ActiveCovers
  <1> QED
    BY <1>10, <1>11, <1>12, <1>13, <1>14, <1>15, <1>16, <1>17, <1>18, <1>19 DEF Protect

LEMMA ExitCover ==
    ASSUME ShapeInv, ShapeInv', CoverInv, Exit PROVE CoverInv'
  <1>0. /\ unit.remaining \in Nat /\ NoCall.op = "none" /\ call \in CallRow
        /\ prot \in ProtRow /\ unit \in UnitRow /\ call.id \in StopId
    BY CoverNumbers, EmptyRows DEF ShapeInv, CallShape
  <1>1. ASSUME algo' = algo PROVE StopsStay
    BY <1>1 DEF StopsStay
  <1>2. ASSUME NEW st, BlockExit(st), StopsStay, unit' = unit,
               st # "active" \/ prot.status = "active" \/ Covers(prot.id)
        PROVE  CoverInv'
    <2>1. /\ prot'.stop = prot.stop /\ prot'.id = prot.id /\ prot'.status = st
          /\ call'.op = "none"
      BY <1>0, <1>2 DEF BlockExit, ProtRow
    <2> QED BY <1>0, <1>2, <2>1, CoverKept
  <1>10. CASE \E act \in {"close", "reduce"}, q \in 1..Size : ClaimExit(act, q)
    <2>1. UNCHANGED <<algo, prot, call>>
      BY <1>10 DEF ClaimExit
    <2>2. unit'.remaining = unit.remaining
      BY <1>0, <1>10 DEF ClaimExit, UnitRow
    <2> QED BY <1>0, <1>1, <2>1, <2>2, CoverKept
  <1>11. CASE CancelBegin
    <2>1. algo' = algo /\ unit' = unit
      BY <1>11 DEF CancelBegin, exchange
    <2>2. CASE BlockExit(prot.status)
      BY <1>1, <1>2, <2>1, <2>2
    <2>3. CASE UNCHANGED <<prot, call>>
      BY <2>1, <2>3, QuietCover
    <2>4. CASE /\ prot.status = "active"
               /\ prot' = [prot EXCEPT !.status = "canceling"]
               /\ call' = [NoCall EXCEPT !.op = "cancel", !.by = "daemon", !.pc = "send",
                                         !.id = prot.id]
      <3>1. /\ prot'.stop = prot.stop /\ prot'.id = prot.id /\ prot'.status = "canceling"
            /\ call'.op = "cancel" /\ call'.id = prot.id
        BY <1>0, <2>4 DEF ProtRow, NoCall
      <3>2. Covers(prot.id)'
        BY <2>1, <2>4, <3>1 DEF CoverInv, ActiveCovers, Covers, Pending
      <3> QED BY <3>1, <3>2 DEF CoverInv, AmendHidden, CancelCovers, ProvenStop, ActiveCovers
    <2> QED BY <1>11, <2>2, <2>3, <2>4 DEF CancelBegin
  <1>12. CASE CancelSend
    <2>1. (algo' = algo \/ (Pending(call.id) /\ algo' = CanceledStop)) /\ unit' = unit
      BY <1>12 DEF CancelSend
    <2>2. StopsStay
      BY <1>0, <1>1, <2>1 DEF StopsStay, CanceledStop, Pending, ShapeInv, AlgoShape, AlgoRow
    <2>3. CASE BlockExit("failed")
      BY <1>2, <2>1, <2>2, <2>3
    <2>4. CASE call' = [call EXCEPT !.pc = "poll"] /\ UNCHANGED prot
      <3>1. call'.op = "cancel" /\ call.op = "cancel" /\ call'.id = call.id
        BY <1>0, <1>12, <2>4 DEF CallRow, CancelSend
      <3> QED BY <1>0, <2>1, <2>2, <2>4, <3>1, CoverKept
    <2> QED BY <1>12, <2>3, <2>4 DEF CancelSend
  <1>13. CASE CancelPoll
    <2>1. algo' = algo /\ unit' = unit /\ call.op = "cancel"
      BY <1>13 DEF CancelPoll, exchange
    <2>2. Covers(prot.id)
      BY <2>1 DEF CoverInv, CancelCovers
    <2>3. CASE BlockExit("failed") \/ BlockExit("active")
      BY <1>1, <1>2, <2>1, <2>2, <2>3
    <2>4. CASE prot' = [prot EXCEPT !.status = "canceled"] /\ call' = NoCall
      <3>1. prot'.stop = prot.stop /\ prot'.id = prot.id /\ prot'.status = "canceled"
        BY <1>0, <2>4 DEF ProtRow
      <3> QED BY <1>0, <1>1, <2>1, <2>4, <3>1, CoverKept
    <2> QED BY <1>13, <2>3, <2>4 DEF CancelPoll
  <1>14. CASE SubmitExit
    <2>1. UNCHANGED <<algo, prot, call>>
      BY <1>14 DEF SubmitExit
    <2>2. unit'.remaining = unit.remaining
      BY <1>0, <1>14, UnitMarks DEF SubmitExit, UnitRow
    <2> QED BY <1>0, <1>1, <2>1, <2>2, CoverKept
  <1>15. CASE RetryExit
    <2>1. UNCHANGED <<algo, prot, call>>
      BY <1>15 DEF RetryExit
    <2>2. unit'.remaining = unit.remaining
      BY <1>0, <1>15, UnitMarks DEF RetryExit, UnitRow
    <2> QED BY <1>0, <1>1, <2>1, <2>2, CoverKept
  <1>16. CASE ReleaseExit
    <2>1. UNCHANGED <<algo, prot, call>> /\ unit' = Released
      BY <1>16 DEF ReleaseExit, exchange
    <2>2. unit'.remaining = unit.remaining
      BY <1>0, <2>1, UnitMarks
    <2> QED BY <1>0, <1>1, <2>1, <2>2, CoverKept
  <1>17. CASE RereadProtection \/ DisableEntries
    BY <1>17, QuietCover DEF RereadProtection, DisableEntries, exchange, store
  <1> QED BY <1>10, <1>11, <1>12, <1>13, <1>14, <1>15, <1>16, <1>17 DEF Exit

\* A fill takes contracts from the unit and never makes the row active.
LEMMA FillCover ==
    ASSUME ShapeInv, ShapeInv', CoverInv, NEW o \in Orders, algo' = algo, call' = call,
           unit' = FilledUnit(o, LinkedUnit(o)),
           prot' = FilledProtection(o, unit', LinkedProtection(o))
    PROVE  CoverInv'
  <1> DEFINE q == LinkedProtection(o)
  <1>1. q \in ProtRow /\ q.stop = prot.stop /\ q.id = prot.id
        /\ (q.status = "active" => prot.status = "active")
    BY DEF ShapeInv, LinkedProtection, ProtRow, ProtectionStatus, Orders
  <1> HIDE DEF q
  <1>2. /\ prot'.stop = q.stop /\ prot'.id = q.id
        /\ (prot'.status = "active" => q.status = "active")
    <2>1. prot' = q \/ \E st \in {"exhausted", "triggered"} : prot' = [q EXCEPT !.status = st]
      BY DEF FilledProtection, q
    <2> QED BY <1>1, <2>1 DEF ProtRow
  <1>3. unit'.remaining <= unit.remaining
    BY FillShape
  <1>4. StopsStay
    BY DEF StopsStay
  <1> QED BY <1>1, <1>2, <1>3, <1>4, CoverKept

LEMMA DaemonCover ==
    ASSUME ShapeInv, ShapeInv', CoverInv, Daemon PROVE CoverInv'
  <1>0. algo' = algo /\ call' = call /\ unit.remaining \in Nat /\ unit \in UnitRow
    BY CoverNumbers DEF Daemon, IngestFill, RecoverTerminalOrder, RecoverExitIntent,
       TrackProtectionGap, exchange, ShapeInv
  <1>1. StopsStay
    BY <1>0 DEF StopsStay
  <1>2. CASE \E o \in Orders : IngestFill(o)
    <2> PICK o \in Orders : IngestFill(o)
      BY <1>2
    <2>1. CASE Matched(o)
      BY <1>0, <2>1, FillCover DEF IngestFill
    <2>2. CASE ~Matched(o)
      BY <1>0, <2>2, QuietCover DEF IngestFill
    <2> QED BY <2>1, <2>2
  <1>3. CASE \E o \in Orders : RecoverTerminalOrder(o)
    <2>1. prot' = prot /\ unit'.remaining = unit.remaining
      BY <1>0, <1>3 DEF RecoverTerminalOrder, UnitRow
    <2> QED BY <1>0, <1>1, <2>1, CoverKept
  <1>4. CASE RecoverExitIntent
    <2>1. prot' = prot
      BY <1>4 DEF RecoverExitIntent
    <2>2. unit'.remaining = unit.remaining
      BY <1>0, <1>4, UnitMarks DEF RecoverExitIntent, UnitRow
    <2> QED BY <1>0, <1>1, <2>1, <2>2, CoverKept
  <1>5. CASE TrackProtectionGap
    BY <1>0, <1>5, QuietCover DEF TrackProtectionGap
  <1> QED BY <1>2, <1>3, <1>4, <1>5 DEF Daemon

LEMMA ProcessCover ==
    ASSUME ShapeInv, ShapeInv', CoverInv, Process PROVE CoverInv'
  <1>1. CASE EnableEntries
    BY <1>1, QuietCover DEF EnableEntries, exchange
  <1>2. CASE Crash
    <2>1. UNCHANGED <<algo, prot, unit>> /\ call'.op = "none"
      BY <1>2, EmptyRows DEF Crash, exchange, store
    <2>2. StopsStay /\ unit.remaining \in Nat
      BY <2>1, CoverNumbers DEF StopsStay
    <2> QED BY <2>1, <2>2, CoverKept
  <1>3. CASE RecoverAtStartup
    <2>1. prot.id \in Orders
      BY DEF ShapeInv, ProtRow, Orders
    <2> QED BY <1>3, <2>1, FillCover DEF RecoverAtStartup
  <1>4. CASE StartArmed
    BY <1>4, QuietCover DEF StartArmed, exchange
  <1> QED BY <1>1, <1>2, <1>3, <1>4 DEF Process

LEMMA EntryCover ==
    ASSUME ShapeInv, ShapeInv', CoverInv, EntryCall PROVE CoverInv'
  <1>1. UNCHANGED <<algo, prot, unit>>
    BY DEF EntryCall, EntryBegin, EntryUnits, EntryStop, EntryEnd, exchange, store
  <1>2. call \in CallRow /\ unit.remaining \in Nat
    BY CoverNumbers DEF ShapeInv, CallShape
  <1>3. call'.op \in {"none", "entry"}
    BY <1>2, EmptyRows DEF EntryCall, EntryBegin, EntryUnits, EntryStop, EntryEnd, NoCall,
                           CallRow
  <1>4. StopsStay
    BY <1>1 DEF StopsStay
  <1> QED BY <1>1, <1>2, <1>3, <1>4, CoverKept

LEMMA NextCover ==
    ShapeInv /\ ShapeInv' /\ ProtectionInv /\ CoverInv /\ [Next]_vars => CoverInv'
  <1> SUFFICES ASSUME ShapeInv, ShapeInv', ProtectionInv, CoverInv, [Next]_vars
               PROVE  CoverInv'
    OBVIOUS
  <1>1. CASE UNCHANGED vars
    BY <1>1, QuietCover DEF vars
  <1> QED
    BY <1>1, ExchangeCover, AmendCover, ProtectCover, ExitCover, DaemonCover, EntryCover,
       ProcessCover DEF Next, ProtectionInv

LEMMA CoverGivesRecord == CoverInv => RecordedStopCovers
  BY DEF CoverInv, ActiveCovers, Covers, RecordedStopCovers

\* The record of a stop is never better than the stop the exchange has, whatever was
\* lost, crashed or filled between the request and the row: amend_stop_condition and
\* protect write the row only for what they proved pending, _resolve_amend_error
\* compares with the old stop before it restores the row, and a quantity read before
\* fills is only ever too large.
THEOREM RecordNeverBetter == Spec => []RecordedStopCovers
  <1>1. Spec => []ShapeInv
    BY InitShape, NextShape, PTL DEF Spec
  <1>2. Spec => []ProtectionInv
    <2>1. ProtectionInv /\ [Next]_vars => ProtectionInv'
      BY StepIsGood
    <2> QED BY <2>1, InitInv, PTL DEF Spec
  <1>3. Spec => []CoverInv
    BY <1>1, <1>2, InitCover, NextCover, PTL DEF Spec
  <1> QED BY <1>3, CoverGivesRecord, PTL

-----------------------------------------------------------------------------
(***************************************************************************)
(* Entries.  An entry at its order has seen the stop recorded as active, or*)
(* the unit closed.  The first is undone only by a trigger, since whoever  *)
(* else writes the row holds the lock; the second never is, since the exit *)
(* that gives its claim back still has it.                                 *)
(***************************************************************************)
\* The exit in progress holds the claim of its unit.
Claimed ==
    flow.pc \in {"stop", "blocked", "submit"} \/ (flow.pc = "disable" /\ flow.canceled)

GateInv ==
    /\ unit.status = "closed" => unit.remaining = 0
    /\ ~armed => LockFree /\ flow.pc = "idle"
    /\ call.op = "cancel" => flow.pc = "stop"
    /\ flow.pc \in {"stop", "blocked", "reread"} => ~flow.canceled
    /\ Claimed => unit.status \in Active
    /\ EntriesMeetProvenStops

\* An entry whose approval has ended.
Sending(c) == c.op = "entry" /\ c.pc = "send"

LEMMA InitGate == Init => GateInv
  BY DEF Init, GateInv, Claimed, EntriesMeetProvenStops, OpenUnit, Idle, NoCall, LockFree,
         Active

LEMMA QuietGate ==
    ASSUME GateInv, UNCHANGED <<unit, prot, armed, call, flow>> PROVE GateInv'
  BY DEF GateInv, Claimed, EntriesMeetProvenStops, LockFree

\* A call of the armed process that is neither a cancel nor an entry leaves the flow
\* and the unit's status alone.
LEMMA LockedGate ==
    ASSUME GateInv, armed, UNCHANGED <<armed, flow>>, unit'.status = unit.status,
           unit'.remaining = unit.remaining, call'.op \notin {"cancel", "entry"}
    PROVE  GateInv'
  BY DEF GateInv, Claimed, EntriesMeetProvenStops, LockFree

\* The daemon writes the unit without the lock, while no exit is in progress.
LEMMA DaemonGate ==
    ASSUME GateInv, UNCHANGED <<armed, call>>, flow.pc = "idle",
           flow' = flow \/ (armed /\ flow' = [Idle EXCEPT !.pc = "rearm"]),
           unit'.status = "closed" => unit'.remaining = 0,
           unit.status \notin Active => unit'.status \notin Active,
           Sending(call) /\ unit'.status \in Active /\ prot.status \in {"active", "triggered"}
               => prot'.status \in {"active", "triggered"}
    PROVE  GateInv'
  BY DEF GateInv, Claimed, EntriesMeetProvenStops, LockFree, Idle, Sending

LEMMA ExchangeGate == ASSUME GateInv, Exchange PROVE GateInv'
  <1>1. UNCHANGED <<unit, prot, armed, call, flow>>
    BY DEF Exchange, CancelTakes, TriggerStop, ExecuteOrder, EndOrder, store
  <1> QED BY <1>1, QuietGate

LEMMA AmendGate == ASSUME ShapeInv, GateInv, Amend PROVE GateInv'
  <1>1. UNCHANGED <<unit, armed, flow>> /\ (armed \/ call.op = "amend")
    BY DEF Amend, AmendStart, AmendVerify, AmendSend, AmendConfirm, ResolveAmend,
           PublishAmend, store
  <1>2. armed
    BY <1>1 DEF GateInv, LockFree
  <1>3. call'.op \in {"none", "amend"}
    <2>1. call \in CallRow /\ NoCall.op = "none"
      BY EmptyRows DEF ShapeInv, CallShape
    <2>2. CASE \E by \in {"api", "daemon"}, why \in {"edit", "even", "trail"}, s \in Price :
                 AmendStart(by, why, s)
      BY <2>2 DEF AmendStart
    <2>3. CASE AmendVerify
      BY <2>1, <2>3 DEF AmendVerify, CallRow
    <2>4. CASE AmendSend
      BY <2>1, <2>4 DEF AmendSend, CallRow
    <2>5. CASE AmendConfirm
      BY <2>1, <2>5 DEF AmendConfirm, CallRow
    <2>6. CASE ResolveAmend
      BY <2>1, <2>6 DEF ResolveAmend, FailAmend, CallRow
    <2>7. CASE PublishAmend
      BY <2>1, <2>7 DEF PublishAmend, FailAmend, CallRow
    <2> QED BY <2>2, <2>3, <2>4, <2>5, <2>6, <2>7 DEF Amend
  <1> QED BY <1>1, <1>2, <1>3, LockedGate

LEMMA ProtectGate == ASSUME ShapeInv, GateInv, Protect PROVE GateInv'
  <1>0. call \in CallRow /\ unit \in UnitRow /\ NoCall.op = "none"
    BY EmptyRows DEF ShapeInv, CallShape
  <1>1. ASSUME NEW by, BeginProtect(by) PROVE call'.op = "protect"
    BY <1>1 DEF BeginProtect, NoCall
  <1>2. ASSUME call.op = "protect" PROVE armed
    BY <1>2 DEF GateInv, LockFree
  <1>10. CASE OperatorProtect
    BY <1>1, <1>10, LockedGate DEF OperatorProtect, store
  <1>11. CASE \E s \in Price : AdoptRecovered(s)
    BY <1>1, <1>11, LockedGate DEF AdoptRecovered
  <1>12. CASE \E s \in Price \cup {NoRule} : EditStopRule(s)
    BY <1>12, QuietGate DEF EditStopRule
  <1>13. CASE ReconcileProtection
    <2>1. UNCHANGED <<unit, prot, armed, flow>>
          /\ (call' = call \/ (armed /\ BeginProtect("daemon")))
      BY <1>13 DEF ReconcileProtection
    <2> QED BY <1>1, <2>1, QuietGate, LockedGate
  <1>14. CASE Rearm
    <2>1. /\ UNCHANGED <<unit, prot, armed>> /\ flow.pc = "rearm" /\ flow' = Idle
          /\ call'.op = "protect"
      BY <1>1, <1>14 DEF Rearm, store
    <2> QED BY <2>1 DEF GateInv, Claimed, EntriesMeetProvenStops, LockFree, Idle
  <1>15. CASE ProtectBalance \/ ProtectFind \/ ProtectSend \/ ProtectRecheck
    <2>1. UNCHANGED <<unit, armed, flow>> /\ call.op = "protect"
      BY <1>15 DEF ProtectBalance, ProtectFind, ProtectSend, ProtectRecheck
    <2>2. call'.op \in {"none", "protect"}
      <3> USE <1>0 DEF CallRow, ProtectError
      <3>1. CASE ProtectBalance
        BY <3>1 DEF ProtectBalance
      <3>2. CASE ProtectFind
        BY <3>2 DEF ProtectFind
      <3>3. CASE ProtectSend
        BY <3>3 DEF ProtectSend
      <3>4. CASE ProtectRecheck
        BY <3>4 DEF ProtectRecheck
      <3> QED BY <1>15, <3>1, <3>2, <3>3, <3>4
    <2> QED BY <1>2, <2>1, <2>2, LockedGate
  <1>16. CASE ProtectSave
    <2>1. call.op = "protect" /\ call' = NoCall /\ UNCHANGED <<armed, flow>>
      BY <1>16 DEF ProtectSave, ProtectError
    <2>2. unit'.status = unit.status /\ unit'.remaining = unit.remaining
      BY <1>0, <1>16 DEF ProtectSave, UnitRow
    <2> QED BY <1>0, <1>2, <2>1, <2>2, LockedGate
  <1> QED BY <1>10, <1>11, <1>12, <1>13, <1>14, <1>15, <1>16 DEF Protect

\* An exit that goes on keeps its claim until it gives the unit back or submits.
LEMMA ExitGate == ASSUME ShapeInv, GateInv, Exit PROVE GateInv'
  <1>0. /\ call \in CallRow /\ unit \in UnitRow /\ prot \in ProtRow /\ flow \in FlowRow
        /\ NoCall.op = "none"
    BY EmptyRows DEF ShapeInv, CallShape
  <1>1. flow.pc # "idle" => armed
    BY DEF GateInv
  <1>2. /\ Released.status = "open" /\ [Released EXCEPT !.unknown = FALSE].status = "open"
        /\ [Idle EXCEPT !.pc = "rearm"].pc = "rearm" /\ Idle.pc = "idle"
    BY <1>0 DEF Released, Idle, UnitRow
  <1>3. ASSUME NEW st, BlockExit(st), flow.pc = "stop", UNCHANGED <<unit, armed>>
        PROVE  GateInv'
    <2>1. flow'.pc = "blocked" /\ flow'.canceled = flow.canceled /\ call'.op = "none"
      BY <1>0, <1>3 DEF BlockExit, FlowRow
    <2> QED BY <1>1, <1>3, <2>1 DEF GateInv, Claimed, EntriesMeetProvenStops, LockFree
  <1>10. CASE \E act \in {"close", "reduce"}, q \in 1..Size : ClaimExit(act, q)
    <2>1. /\ UNCHANGED <<prot, armed, call>> /\ armed /\ flow.pc = "idle"
          /\ unit.status = "open" /\ flow' = [pc |-> "stop", canceled |-> FALSE]
      BY <1>10 DEF ClaimExit, DaemonFree
    <2>2. unit'.status \in {"closing", "reducing"}
      BY <1>0, <1>10 DEF ClaimExit, UnitRow
    <2> QED BY <2>1, <2>2 DEF GateInv, Claimed, EntriesMeetProvenStops, LockFree, Active
  <1>11. CASE CancelBegin
    <2>1. UNCHANGED <<unit, armed>> /\ flow.pc = "stop" /\ call.op = "none"
      BY <1>11 DEF CancelBegin, LockFree
    <2>2. CASE BlockExit(prot.status)
      BY <1>3, <2>1, <2>2
    <2>3. CASE flow' = [flow EXCEPT !.pc = "submit"] /\ UNCHANGED <<prot, call>>
      <3>1. flow'.pc = "submit"
        BY <1>0, <2>3 DEF FlowRow
      <3> QED BY <1>1, <2>1, <2>3, <3>1
              DEF GateInv, Claimed, EntriesMeetProvenStops, LockFree
    <2>4. CASE /\ flow' = flow
               /\ call' = [NoCall EXCEPT !.op = "cancel", !.by = "daemon", !.pc = "send",
                                         !.id = prot.id]
      <3>1. call'.op = "cancel"
        BY <2>4 DEF NoCall
      <3> QED BY <1>1, <2>1, <2>4, <3>1
              DEF GateInv, Claimed, EntriesMeetProvenStops, LockFree
    <2> QED BY <1>11, <2>2, <2>3, <2>4 DEF CancelBegin
  <1>12. CASE CancelSend
    <2>1. UNCHANGED <<unit, armed>> /\ call.op = "cancel" /\ flow.pc = "stop"
      BY <1>12 DEF CancelSend, GateInv
    <2>2. CASE BlockExit("failed")
      BY <1>3, <2>1, <2>2
    <2>3. CASE call' = [call EXCEPT !.pc = "poll"] /\ UNCHANGED <<prot, flow>>
      <3>1. call'.op = "cancel"
        BY <1>0, <2>1, <2>3 DEF CallRow
      <3> QED BY <1>1, <2>1, <2>3, <3>1
              DEF GateInv, Claimed, EntriesMeetProvenStops, LockFree
    <2> QED BY <1>12, <2>2, <2>3 DEF CancelSend
  <1>13. CASE CancelPoll
    <2>1. UNCHANGED <<unit, armed>> /\ call.op = "cancel" /\ flow.pc = "stop"
      BY <1>13 DEF CancelPoll, GateInv
    <2>2. CASE BlockExit("failed") \/ BlockExit("active")
      BY <1>3, <2>1, <2>2
    <2>3. CASE flow' = [pc |-> "disable", canceled |-> TRUE] /\ call' = NoCall
      BY <1>0, <1>1, <2>1, <2>3 DEF GateInv, Claimed, EntriesMeetProvenStops, LockFree
    <2> QED BY <1>13, <2>2, <2>3 DEF CancelPoll
  <1>14. CASE ReleaseExit
    <2>1. /\ UNCHANGED <<prot, armed, call>> /\ flow.pc = "blocked" /\ unit' = Released
          /\ flow' = [flow EXCEPT !.pc = "reread"]
      BY <1>14 DEF ReleaseExit
    <2>2. flow'.pc = "reread" /\ flow'.canceled = flow.canceled /\ unit'.status = "open"
      BY <1>0, <1>2, <2>1 DEF FlowRow
    <2> QED BY <1>1, <2>1, <2>2
            DEF GateInv, Claimed, EntriesMeetProvenStops, LockFree, Active
  <1>15. CASE RereadProtection
    <2>1. /\ UNCHANGED <<unit, prot, armed, call>> /\ flow.pc = "reread"
          /\ flow' = [flow EXCEPT !.pc = "disable"] \/ flow' = Idle
      BY <1>15 DEF RereadProtection, store
    <2>2. flow'.pc = "idle" \/ (flow'.pc = "disable" /\ flow'.canceled = flow.canceled)
      BY <1>0, <1>2, <2>1 DEF FlowRow
    <2> QED BY <1>1, <2>1, <2>2 DEF GateInv, Claimed, EntriesMeetProvenStops, LockFree
  <1>16. CASE DisableEntries
    <2>1. /\ UNCHANGED <<unit, prot, armed, call>> /\ flow.pc = "disable"
          /\ flow' = IF flow.canceled THEN [flow EXCEPT !.pc = "submit"] ELSE Idle
      BY <1>16 DEF DisableEntries
    <2>2. flow'.pc = "idle" \/ (flow'.pc = "submit" /\ flow.canceled)
      BY <1>0, <1>2, <2>1 DEF FlowRow
    <2> QED BY <1>1, <2>1, <2>2 DEF GateInv, Claimed, EntriesMeetProvenStops, LockFree
  <1>17. CASE SubmitExit
    <2>1. /\ UNCHANGED <<prot, armed, call>> /\ flow.pc = "submit" /\ flow' = Idle
          /\ \/ unit' = [unit EXCEPT !.ord = "exit"]
             \/ unit' = [unit EXCEPT !.unknown = TRUE]
             \/ unit' = Released
      BY <1>17 DEF SubmitExit
    <2>2. unit'.status = unit.status \/ unit'.status = "open"
      BY <1>0, <1>2, <2>1 DEF UnitRow
    <2>3. unit.status \in Active
      BY <2>1 DEF GateInv, Claimed
    <2> QED BY <1>1, <1>2, <2>1, <2>2, <2>3
            DEF GateInv, Claimed, EntriesMeetProvenStops, LockFree, Active
  <1>18. CASE RetryExit
    <2>1. /\ UNCHANGED <<prot, armed, call>> /\ armed /\ flow.pc = "idle"
          /\ unit.status \in {"closing", "reducing"}
          /\ flow' = flow \/ flow' = [Idle EXCEPT !.pc = "rearm"]
          /\ \/ unit' = [unit EXCEPT !.ord = "exit", !.unknown = FALSE]
             \/ unit' = [Released EXCEPT !.unknown = FALSE]
      BY <1>18 DEF RetryExit, DaemonFree
    <2>2. unit'.status = unit.status \/ unit'.status = "open"
      BY <1>0, <1>2, <2>1 DEF UnitRow
    <2> QED BY <2>1, <2>2, DaemonGate DEF Active
  <1> QED
    BY <1>10, <1>11, <1>12, <1>13, <1>14, <1>15, <1>16, <1>17, <1>18 DEF Exit

\* A fill never reopens a closed unit, and takes a stop recorded as active or
\* triggered to triggered, or to exhausted once the unit is closed.
LEMMA FillGate ==
    ASSUME ShapeInv, GateInv, NEW o \in Orders
    PROVE  LET u == FilledUnit(o, LinkedUnit(o))
               p == FilledProtection(o, u, LinkedProtection(o))
           IN  /\ u.status = "closed" => u.remaining = 0
               /\ unit.status \notin Active => u.status \notin Active
               /\ u.status \in Active /\ prot.status \in {"active", "triggered"}
                      => p.status \in {"active", "triggered"}
  <1> DEFINE v == LinkedUnit(o)
             u == FilledUnit(o, v)
             q == LinkedProtection(o)
             p == FilledProtection(o, u, q)
  <1>0. unit \in UnitRow /\ prot \in ProtRow /\ Size \in Nat
    BY SizeAssumption DEF ShapeInv
  <1>1. /\ v \in UnitRow /\ v.remaining = unit.remaining
        /\ v.status = unit.status \/ (v.status = "closing" /\ unit.status \in Active)
    BY <1>0 DEF LinkedUnit, UnitRow, Active, Orders
  <1>2. q \in ProtRow /\ (q.status = prot.status \/ q.status = "triggered")
    BY <1>0 DEF LinkedProtection, ProtRow, ProtectionStatus, Orders
  <1> HIDE DEF v, q
  <1>3. CASE v.remaining = 0
    <2>1. u = v
      BY <1>3 DEF FilledUnit
    <2>2. /\ u.status = "closed" => u.remaining = 0
          /\ unit.status \notin Active => u.status \notin Active
      BY <1>1, <1>3, <2>1
    <2> HIDE DEF u
    <2>3. u.status \in Active /\ prot.status \in {"active", "triggered"}
             => p.status \in {"active", "triggered"}
      BY <1>2 DEF FilledProtection, ProtRow, Active
    <2> HIDE DEF p
    <2> QED BY <2>2, <2>3 DEF p, u, v, q
  <1>4. CASE v.remaining # 0
    <2>1. u.remaining = v.remaining - 1 /\ u.status = StatusAfterFill(o, v.remaining - 1)
      BY <1>1, <1>4 DEF FilledUnit, UnitRow
    <2>2. u.status = "closed" => u.remaining = 0
      BY <2>1 DEF StatusAfterFill
    <2>3. unit.status \in Active
      BY <1>0, <1>1, <1>4 DEF GateInv, UnitRow
    <2> HIDE DEF u
    <2>4. u.status \in Active /\ prot.status \in {"active", "triggered"}
             => p.status \in {"active", "triggered"}
      BY <1>2 DEF FilledProtection, ProtRow, Active
    <2> HIDE DEF p
    <2> QED BY <2>2, <2>3, <2>4 DEF p, u, v, q
  <1> QED BY <1>3, <1>4

LEMMA DaemonStepGate == ASSUME ShapeInv, GateInv, Daemon PROVE GateInv'
  <1>0. unit \in UnitRow
    BY DEF ShapeInv
  <1>1. CASE \E o \in Orders : IngestFill(o)
    <2> PICK o \in Orders : IngestFill(o)
      BY <1>1
    <2>1. UNCHANGED <<armed, call>> /\ flow.pc = "idle"
      BY DEF IngestFill, DaemonFree
    <2>2. CASE Matched(o)
      <3>1. flow' = flow \/ (armed /\ flow' = [Idle EXCEPT !.pc = "rearm"])
        BY <2>2 DEF IngestFill, NeedsRearm
      <3>2. /\ unit' = FilledUnit(o, LinkedUnit(o))
            /\ prot' = FilledProtection(o, unit', LinkedProtection(o))
        BY <2>2 DEF IngestFill
      <3> QED BY <2>1, <3>1, <3>2, FillGate, DaemonGate
    <2>3. CASE ~Matched(o)
      BY <2>1, <2>3, QuietGate DEF IngestFill
    <2> QED BY <2>2, <2>3
  <1>2. CASE \E o \in Orders : RecoverTerminalOrder(o)
    <2> PICK o \in Orders : RecoverTerminalOrder(o)
      BY <1>2
    <2>1. /\ UNCHANGED <<prot, armed, call>> /\ flow.pc = "idle" /\ unit.status \in Active
          /\ flow' = flow \/ (armed /\ flow' = [Idle EXCEPT !.pc = "rearm"])
      BY DEF RecoverTerminalOrder, DaemonFree, NeedsRearm
    <2>2. unit'.remaining = unit.remaining
          /\ (unit'.status = "closed" => unit.remaining = 0)
      BY <1>0, <2>1 DEF RecoverTerminalOrder, UnitRow, Active
    <2> QED BY <2>1, <2>2, DaemonGate
  <1>3. CASE RecoverExitIntent
    <2>1. /\ UNCHANGED <<prot, armed, call>> /\ flow.pc = "idle"
          /\ unit.status \in {"closing", "reducing"}
          /\ flow' = flow \/ (armed /\ flow' = [Idle EXCEPT !.pc = "rearm"])
          /\ \/ unit' = [unit EXCEPT !.ord = "exit", !.unknown = FALSE]
             \/ unit' = [Released EXCEPT !.unknown = FALSE]
      BY <1>3 DEF RecoverExitIntent, DaemonFree, NeedsRearm
    <2>2. unit'.status = unit.status \/ unit'.status = "open"
      BY <1>0, <2>1 DEF Released, UnitRow
    <2> QED BY <2>1, <2>2, DaemonGate DEF Active
  <1>4. CASE TrackProtectionGap
    BY <1>4, QuietGate DEF TrackProtectionGap
  <1> QED BY <1>1, <1>2, <1>3, <1>4 DEF Daemon

\* The approval gets to the order only where it found the stop active or the unit
\* closed.
LEMMA EntryGate == ASSUME ShapeInv, GateInv, EntryCall PROVE GateInv'
  <1>0. call \in CallRow /\ NoCall.op = "none"
    BY EmptyRows DEF ShapeInv, CallShape
  <1>1. /\ UNCHANGED <<unit, prot, armed, flow>> /\ (armed \/ call.op = "entry")
        /\ call.op \in {"none", "entry"}
    BY DEF EntryCall, EntryBegin, EntryUnits, EntryStop, EntryEnd, LockFree, store
  <1>2. armed
    BY <1>1 DEF GateInv, LockFree
  <1>3. /\ call'.op \in {"none", "entry"}
        /\ Sending(call') /\ unit.status \in Active => prot.status = "active"
    <2>1. CASE EntryBegin
      BY <2>1 DEF EntryBegin, NoCall, Sending
    <2>2. CASE EntryUnits
      BY <1>0, <2>2 DEF EntryUnits, CallRow, Sending
    <2>3. CASE EntryStop
      BY <1>0, <2>3 DEF EntryStop, CallRow
    <2>4. CASE EntryEnd
      BY <1>0, <2>4 DEF EntryEnd, Sending
    <2> QED BY <2>1, <2>2, <2>3, <2>4 DEF EntryCall
  <1> QED BY <1>1, <1>2, <1>3 DEF GateInv, Claimed, EntriesMeetProvenStops, LockFree, Sending

LEMMA ProcessGate == ASSUME ShapeInv, GateInv, Process PROVE GateInv'
  <1>1. CASE EnableEntries
    BY <1>1, QuietGate DEF EnableEntries
  <1>2. CASE Crash
    BY <1>2, EmptyRows
    DEF Crash, GateInv, Claimed, EntriesMeetProvenStops, LockFree, Idle, store
  <1>3. CASE RecoverAtStartup
    <2>1. UNCHANGED <<armed, call, flow>> /\ flow.pc = "idle" /\ call.op = "none"
      BY <1>3 DEF RecoverAtStartup, GateInv, LockFree
    <2>2. prot.id \in Orders
      BY DEF ShapeInv, ProtRow, Orders
    <2>3. unit' = FilledUnit(prot.id, LinkedUnit(prot.id))
      BY <1>3 DEF RecoverAtStartup
    <2> QED BY <2>1, <2>2, <2>3, FillGate, DaemonGate DEF Sending
  <1>4. CASE StartArmed
    BY <1>4 DEF StartArmed, GateInv, Claimed, EntriesMeetProvenStops, LockFree
  <1> QED BY <1>1, <1>2, <1>3, <1>4 DEF Process

LEMMA NextGate == ShapeInv /\ GateInv /\ [Next]_vars => GateInv'
  <1> SUFFICES ASSUME ShapeInv, GateInv, [Next]_vars PROVE GateInv'
    OBVIOUS
  <1>1. CASE UNCHANGED vars
    BY <1>1, QuietGate DEF vars
  <1> QED
    BY <1>1, ExchangeGate, AmendGate, ProtectGate, ExitGate, DaemonStepGate, EntryGate,
       ProcessGate DEF Next

\* No order of an entry goes out beside a unit whose stop is uncertain or canceled for
\* an exit: cancel_for_close frees ENTRY_EXECUTION_LOCK before the position manager
\* closes the entries, and what refuses the entry in between is its own approval,
\* under the lock, of the record of every active unit's stop.
THEOREM EntriesNeedProvenStops == Spec => []EntriesMeetProvenStops
  <1>1. Spec => []ShapeInv
    BY InitShape, NextShape, PTL DEF Spec
  <1>2. Spec => []GateInv
    BY <1>1, InitGate, NextGate, PTL DEF Spec
  <1>3. GateInv => EntriesMeetProvenStops
    BY DEF GateInv
  <1> QED BY <1>2, <1>3, PTL
=============================================================================
