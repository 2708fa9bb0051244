------------------------- MODULE StrategyRunProofs -------------------------
(***************************************************************************)
(* Proofs about StrategyRun, for every set of strategies and every number  *)
(* of rises, edits and crashes: the types, and at most one entry for each  *)
(* rise of a strategy's signal.                                            *)
(*                                                                         *)
(* OnceForEachRise is not inductive.  An accepted order has a decision id  *)
(* that was drawn; a decision id is drawn at an edge; and an edge uses up  *)
(* a rise, or the evaluation state that a deleted strategy took with it.   *)
(* DrawnForRises is the account of the two, and the other parts say that   *)
(* every id kept in the store, at the exchange or in the tick was drawn.   *)
(***************************************************************************)
EXTENDS StrategyRun, FiniteSetTheorems, TLAPS

\* The tick holds the decision id of an entry.
Deciding == {"checked", "edge"} \cup Locked

\* Every id was drawn at an edge.  An edge that is still open, and the row that
\* remembers the last one, each have a rise or a life that is not used up.
Drawn(s, n) == ids[s] + n <= rises[s] + lives[s]
Present(s) == strat[s] # "absent"
DrawnForRises ==
    \A s \in Strategy :
        /\ Drawn(s, 0)
        /\ Edge(s) => Drawn(s, 1)
        /\ Present(s) => Drawn(s, 1)
        /\ Edge(s) /\ Present(s) => Drawn(s, 2)
        /\ ids[s] > 0 => Drawn(s, 1)

\* Ids in use were drawn.
IdsDrawn ==
    /\ \A s \in Strategy : /\ pending[s] \in 0..ids[s]
                           /\ unit[s] \subseteq 1..ids[s]
                           /\ orders[s] \subseteq 1..ids[s]
    /\ pc \in Deciding => work \in 1..ids[cur]
    /\ pc \notin Deciding => work = 0

\* A strategy that is created again was deleted before: two edits.
LivesBounded ==
    \A s \in Strategy : /\ 2 * lives[s] <= edits + 1
                        /\ ~Present(s) => 2 * lives[s] <= edits

\* The types, with ids not bounded yet.
BaseType ==
    /\ strat \in [Strategy -> {"absent", "disabled", "enabled"}]
    /\ delayed \in [Strategy -> BOOLEAN]
    /\ matched \in [Strategy -> BOOLEAN]
    /\ pending \in [Strategy -> Nat]
    /\ due \in [Strategy -> BOOLEAN]
    /\ unit \in [Strategy -> SUBSET Nat]
    /\ signal \in [Strategy -> BOOLEAN]
    /\ rises \in [Strategy -> 0..MaxRise]
    /\ lives \in [Strategy -> Nat]
    /\ ids \in [Strategy -> Nat]
    /\ orders \in [Strategy -> SUBSET Nat]
    /\ pc \in PC
    /\ todo \subseteq Strategy
    /\ listed \in [Strategy -> {"no", "now", "delayed"}]
    /\ stale \subseteq Strategy
    /\ cur \in Strategy
    /\ corr \in 0..MaxId
    /\ work \in Nat
    /\ edits \in 0..MaxEdit
    /\ crashes \in 0..MaxCrash

Inv == BaseType /\ DrawnForRises /\ IdsDrawn /\ LivesBounded

----------------------------------------------------------------------------
(* What the invariant bounds.                                              *)

\* A strategy is created at most once more than it is deleted, so ids stay
\* below the rises and half of the edits.
LEMMA IdsBound ==
    Inv => /\ MaxId \in Nat
           /\ \A s \in Strategy : ids[s] \in 0..MaxId /\ lives[s] \in 0..MaxEdit
<1>1. MaxEdit \div 2 \in Nat /\ 2 * (MaxEdit \div 2) \in {MaxEdit, MaxEdit - 1}
  BY BoundsAssumption
<1>2. MaxId \in Nat
  BY <1>1, BoundsAssumption DEF MaxId
<1>3. SUFFICES ASSUME Inv, NEW s \in Strategy
               PROVE  ids[s] \in 0..MaxId /\ lives[s] \in 0..MaxEdit
  BY <1>2
<1>4. /\ ids[s] \in Nat /\ rises[s] \in Nat /\ rises[s] <= MaxRise
      /\ lives[s] \in Nat /\ edits \in Nat /\ edits <= MaxEdit
  BY <1>3, BoundsAssumption DEF Inv, BaseType
<1>5. /\ 2 * lives[s] <= edits + 1
      /\ ids[s] > 0 => ids[s] + 1 <= rises[s] + lives[s]
  BY <1>3 DEF Inv, DrawnForRises, LivesBounded, Drawn
<1>6. lives[s] <= MaxEdit
  BY <1>4, <1>5, BoundsAssumption
<1>7. ids[s] <= MaxId
  BY <1>1, <1>4, <1>5, BoundsAssumption DEF MaxId
<1> QED
  BY <1>2, <1>4, <1>6, <1>7, BoundsAssumption

\* A pending execution is removed, or it stays.
LEMMA DeletePendingType ==
    ASSUME BaseType, NEW s \in Strategy, NEW i, DeletePending(s, i)
    PROVE  pending' \in [Strategy -> Nat] /\ due' \in [Strategy -> BOOLEAN]
<1>1. pending \in [Strategy -> Nat] /\ due \in [Strategy -> BOOLEAN]
  BY DEF BaseType
<1>2. \/ /\ pending' = [pending EXCEPT ![s] = 0]
         /\ due' = [due EXCEPT ![s] = FALSE]
      \/ pending' = pending /\ due' = due
  BY DEF DeletePending
<1>3. pending' \in [Strategy -> Nat]
  BY <1>1, <1>2
<1>4. CASE due' = [due EXCEPT ![s] = FALSE]
  BY <1>1, <1>3, <1>4, Zenon
<1>5. CASE due' = due
  BY <1>1, <1>3, <1>5
<1> QED
  BY <1>2, <1>4, <1>5

LEMMA InitInv == Init => Inv
<1> SUFFICES ASSUME Init PROVE Inv
  OBVIOUS
<1>1. MaxId \in Nat
  <2>1. MaxEdit \div 2 \in Nat
    BY BoundsAssumption
  <2> QED
    BY <2>1, BoundsAssumption DEF MaxId
<1>2. BaseType
  BY <1>1, BoundsAssumption DEF Init, BaseType, PC
<1>3. DrawnForRises /\ IdsDrawn /\ LivesBounded
  BY DEF Init, DrawnForRises, IdsDrawn, LivesBounded, Drawn, Present, Edge,
     Deciding, Locked
<1> QED
  BY <1>2, <1>3 DEF Inv

----------------------------------------------------------------------------
(* The market and the clock.                                               *)

\* A rise pays for the edge that it opens.
LEMMA MarketStep ==
    ASSUME Inv, NEW s \in Strategy,
           \/ Rise(s) \/ Fall(s) \/ BecomesDue(s)
    PROVE  Inv'
<1>0. /\ MaxId \in Nat
      /\ \A r \in Strategy : ids[r] \in 0..MaxId
  BY IdsBound
<1>1. CASE Rise(s)
  <2>1. BaseType'
    BY <1>0, <1>1, BoundsAssumption DEF Inv, BaseType, stored, world, tick,
       Rise, IdsDrawn, PC, Loop, Locked
  <2>2. DrawnForRises'
    BY <1>1, BoundsAssumption DEF Inv, BaseType, stored, world, tick, Rise,
       DrawnForRises, Drawn, Present, Edge
  <2>3. IdsDrawn'
    BY <1>1, BoundsAssumption DEF Inv, BaseType, stored, world, tick, Rise,
       IdsDrawn, Deciding, Locked
  <2>4. LivesBounded'
    BY <1>1, BoundsAssumption DEF Inv, BaseType, stored, world, tick, Rise,
       LivesBounded, Present
  <2> QED
    BY <2>1, <2>2, <2>3, <2>4 DEF Inv
<1>2. CASE Fall(s)
  <2>1. BaseType'
    BY <1>0, <1>2, BoundsAssumption DEF Inv, BaseType, stored, world, tick,
       Fall, IdsDrawn, PC, Loop, Locked
  <2>2. DrawnForRises'
    BY <1>2, BoundsAssumption DEF Inv, BaseType, stored, world, tick, Fall,
       DrawnForRises, Drawn, Present, Edge
  <2>3. IdsDrawn'
    BY <1>2, BoundsAssumption DEF Inv, BaseType, stored, world, tick, Fall,
       IdsDrawn, Deciding, Locked
  <2>4. LivesBounded'
    BY <1>2, BoundsAssumption DEF Inv, BaseType, stored, world, tick, Fall,
       LivesBounded, Present
  <2> QED
    BY <2>1, <2>2, <2>3, <2>4 DEF Inv
<1>3. CASE BecomesDue(s)
  <2>1. BaseType'
    BY <1>0, <1>3, BoundsAssumption DEF Inv, BaseType, stored, world, tick,
       BecomesDue, IdsDrawn, PC, Loop, Locked
  <2>2. DrawnForRises'
    BY <1>3, BoundsAssumption DEF Inv, BaseType, stored, world, tick,
       BecomesDue, DrawnForRises, Drawn, Present, Edge
  <2>3. IdsDrawn'
    BY <1>3, BoundsAssumption DEF Inv, BaseType, stored, world, tick,
       BecomesDue, IdsDrawn, Deciding, Locked
  <2>4. LivesBounded'
    BY <1>3, BoundsAssumption DEF Inv, BaseType, stored, world, tick,
       BecomesDue, LivesBounded, Present
  <2> QED
    BY <2>1, <2>2, <2>3, <2>4 DEF Inv
<1> QED
  BY <1>1, <1>2, <1>3

\* An id taken from a unit stays drawn.
LEMMA ClearStep ==
    ASSUME Inv, NEW s \in Strategy,
           \E i \in unit[s] : ClearClientId(s, i)
    PROVE  Inv'
<1>0. /\ MaxId \in Nat
      /\ \A r \in Strategy : ids[r] \in 0..MaxId
  BY IdsBound
<1>1. CASE \E i \in unit[s] : ClearClientId(s, i)
  <2>1. BaseType'
    BY <1>0, <1>1, BoundsAssumption DEF Inv, BaseType, stored, world, tick,
       ClearClientId, IdsDrawn, PC, Loop, Locked
  <2>2. DrawnForRises'
    BY <1>1, BoundsAssumption DEF Inv, BaseType, stored, world, tick,
       ClearClientId, DrawnForRises, Drawn, Present, Edge
  <2>3. IdsDrawn'
    BY <1>1, BoundsAssumption DEF Inv, BaseType, stored, world, tick,
       ClearClientId, IdsDrawn, Deciding, Locked
  <2>4. LivesBounded'
    BY <1>1, BoundsAssumption DEF Inv, BaseType, stored, world, tick,
       ClearClientId, LivesBounded, Present
  <2> QED
    BY <2>1, <2>2, <2>3, <2>4 DEF Inv
<1> QED
  BY <1>1

(* The routes.                                                             *)

\* The new life of a strategy that is created again pays for the edge its
\* forgotten match may open.
LEMMA RouteStep ==
    ASSUME Inv, NEW s \in Strategy,
           \/ CreateStrategy(s) \/ UpdateStrategy(s) \/ EnableStrategy(s)
           \/ DisableStrategy(s) \/ DeleteStrategy(s)
    PROVE  Inv'
<1>0. /\ MaxId \in Nat
      /\ \A r \in Strategy : ids[r] \in 0..MaxId
  BY IdsBound
<1>1. CASE CreateStrategy(s)
  <2>1. BaseType'
    BY <1>0, <1>1, BoundsAssumption DEF Inv, BaseType, stored, world, tick,
       CreateStrategy, Edited, IdsDrawn, PC, Loop, Locked
  <2>2. DrawnForRises'
    BY <1>1, BoundsAssumption DEF Inv, BaseType, stored, world, tick,
       CreateStrategy, Edited, DrawnForRises, Drawn, Present, Edge
  <2>3. IdsDrawn'
    BY <1>1, BoundsAssumption DEF Inv, BaseType, stored, world, tick,
       CreateStrategy, Edited, IdsDrawn, Deciding, Locked
  <2>4. LivesBounded'
    BY <1>1, BoundsAssumption DEF Inv, BaseType, stored, world, tick,
       CreateStrategy, Edited, LivesBounded, Present
  <2> QED
    BY <2>1, <2>2, <2>3, <2>4 DEF Inv
<1>2. CASE UpdateStrategy(s)
  <2>1. BaseType'
    BY <1>0, <1>2, BoundsAssumption DEF Inv, BaseType, stored, world, tick,
       UpdateStrategy, SetRow, Edited, IdsDrawn, PC, Loop, Locked
  <2>2. DrawnForRises'
    BY <1>2, BoundsAssumption DEF Inv, BaseType, stored, world, tick,
       UpdateStrategy, SetRow, Edited, DrawnForRises, Drawn, Present, Edge
  <2>3. IdsDrawn'
    BY <1>2, BoundsAssumption DEF Inv, BaseType, stored, world, tick,
       UpdateStrategy, SetRow, Edited, IdsDrawn, Deciding, Locked
  <2>4. LivesBounded'
    BY <1>2, BoundsAssumption DEF Inv, BaseType, stored, world, tick,
       UpdateStrategy, SetRow, Edited, LivesBounded, Present
  <2> QED
    BY <2>1, <2>2, <2>3, <2>4 DEF Inv
<1>3. CASE EnableStrategy(s)
  <2>1. BaseType'
    BY <1>0, <1>3, BoundsAssumption DEF Inv, BaseType, stored, world, tick,
       EnableStrategy, SetRow, Edited, IdsDrawn, PC, Loop, Locked
  <2>2. DrawnForRises'
    BY <1>3, BoundsAssumption DEF Inv, BaseType, stored, world, tick,
       EnableStrategy, SetRow, Edited, DrawnForRises, Drawn, Present, Edge
  <2>3. IdsDrawn'
    BY <1>3, BoundsAssumption DEF Inv, BaseType, stored, world, tick,
       EnableStrategy, SetRow, Edited, IdsDrawn, Deciding, Locked
  <2>4. LivesBounded'
    BY <1>3, BoundsAssumption DEF Inv, BaseType, stored, world, tick,
       EnableStrategy, SetRow, Edited, LivesBounded, Present
  <2> QED
    BY <2>1, <2>2, <2>3, <2>4 DEF Inv
<1>4. CASE DisableStrategy(s)
  <2>1. BaseType'
    BY <1>0, <1>4, BoundsAssumption DEF Inv, BaseType, stored, world, tick,
       DisableStrategy, SetRow, Edited, IdsDrawn, PC, Loop, Locked
  <2>2. DrawnForRises'
    BY <1>4, BoundsAssumption DEF Inv, BaseType, stored, world, tick,
       DisableStrategy, SetRow, Edited, DrawnForRises, Drawn, Present, Edge
  <2>3. IdsDrawn'
    BY <1>4, BoundsAssumption DEF Inv, BaseType, stored, world, tick,
       DisableStrategy, SetRow, Edited, IdsDrawn, Deciding, Locked
  <2>4. LivesBounded'
    BY <1>4, BoundsAssumption DEF Inv, BaseType, stored, world, tick,
       DisableStrategy, SetRow, Edited, LivesBounded, Present
  <2> QED
    BY <2>1, <2>2, <2>3, <2>4 DEF Inv
<1>5. CASE DeleteStrategy(s)
  <2>1. BaseType'
    BY <1>0, <1>5, BoundsAssumption DEF Inv, BaseType, stored, world, tick,
       DeleteStrategy, Edited, IdsDrawn, PC, Loop, Locked
  <2>2. DrawnForRises'
    BY <1>5, BoundsAssumption DEF Inv, BaseType, stored, world, tick,
       DeleteStrategy, Edited, DrawnForRises, Drawn, Present, Edge
  <2>3. IdsDrawn'
    BY <1>5, BoundsAssumption DEF Inv, BaseType, stored, world, tick,
       DeleteStrategy, Edited, IdsDrawn, Deciding, Locked
  <2>4. LivesBounded'
    BY <1>5, BoundsAssumption DEF Inv, BaseType, stored, world, tick,
       DeleteStrategy, Edited, LivesBounded, Present
  <2> QED
    BY <2>1, <2>2, <2>3, <2>4 DEF Inv
<1> QED
  BY <1>1, <1>2, <1>3, <1>4, <1>5

\* An edit of the rules or of a child signal.
LEMMA ReviewStep ==
    ASSUME Inv, NEW s \in Strategy,
           DisableForReview(s)
    PROVE  Inv'
<1>0. /\ MaxId \in Nat
      /\ \A r \in Strategy : ids[r] \in 0..MaxId
  BY IdsBound
<1>1. CASE DisableForReview(s)
  <2>1. BaseType'
    BY <1>0, <1>1, BoundsAssumption DEF Inv, BaseType, stored, world, tick,
       DisableForReview, SetRow, Edited, IdsDrawn, PC, Loop, Locked
  <2>2. DrawnForRises'
    BY <1>1, BoundsAssumption DEF Inv, BaseType, stored, world, tick,
       DisableForReview, SetRow, Edited, DrawnForRises, Drawn, Present, Edge
  <2>3. IdsDrawn'
    BY <1>1, BoundsAssumption DEF Inv, BaseType, stored, world, tick,
       DisableForReview, SetRow, Edited, IdsDrawn, Deciding, Locked
  <2>4. LivesBounded'
    BY <1>1, BoundsAssumption DEF Inv, BaseType, stored, world, tick,
       DisableForReview, SetRow, Edited, LivesBounded, Present
  <2> QED
    BY <2>1, <2>2, <2>3, <2>4 DEF Inv
<1> QED
  BY <1>1

(* The tick.                                                               *)

\* The steps that leave the entries alone.
LEMMA PassStep ==
    ASSUME Inv,
           \/ StartDaemon \/ Crash \/ BeginTick \/ CancelFails
           \/ ListEnabled \/ NotReady \/ EndTick
    PROVE  Inv'
<1>0. /\ MaxId \in Nat
      /\ \A r \in Strategy : ids[r] \in 0..MaxId
  BY IdsBound
<1>1. CASE StartDaemon
  <2>1. BaseType'
    BY <1>0, <1>1, BoundsAssumption DEF Inv, BaseType, stored, world, tick,
       StartDaemon, IdsDrawn, PC, Loop, Locked
  <2>2. DrawnForRises'
    BY <1>1, BoundsAssumption DEF Inv, BaseType, stored, world, tick,
       StartDaemon, DrawnForRises, Drawn, Present, Edge
  <2>3. IdsDrawn'
    BY <1>1, BoundsAssumption DEF Inv, BaseType, stored, world, tick,
       StartDaemon, IdsDrawn, Deciding, Locked
  <2>4. LivesBounded'
    BY <1>1, BoundsAssumption DEF Inv, BaseType, stored, world, tick,
       StartDaemon, LivesBounded, Present
  <2> QED
    BY <2>1, <2>2, <2>3, <2>4 DEF Inv
<1>2. CASE Crash
  <2>1. BaseType'
    BY <1>0, <1>2, BoundsAssumption DEF Inv, BaseType, stored, world, tick,
       Crash, IdsDrawn, PC, Loop, Locked
  <2>2. DrawnForRises'
    BY <1>2, BoundsAssumption DEF Inv, BaseType, stored, world, tick, Crash,
       DrawnForRises, Drawn, Present, Edge
  <2>3. IdsDrawn'
    BY <1>2, BoundsAssumption DEF Inv, BaseType, stored, world, tick, Crash,
       IdsDrawn, Deciding, Locked
  <2>4. LivesBounded'
    BY <1>2, BoundsAssumption DEF Inv, BaseType, stored, world, tick, Crash,
       LivesBounded, Present
  <2> QED
    BY <2>1, <2>2, <2>3, <2>4 DEF Inv
<1>3. CASE BeginTick
  <2>1. BaseType'
    BY <1>0, <1>3, BoundsAssumption DEF Inv, BaseType, stored, world, tick,
       BeginTick, IdsDrawn, PC, Loop, Locked
  <2>2. DrawnForRises'
    BY <1>3, BoundsAssumption DEF Inv, BaseType, stored, world, tick,
       BeginTick, DrawnForRises, Drawn, Present, Edge
  <2>3. IdsDrawn'
    BY <1>3, BoundsAssumption DEF Inv, BaseType, stored, world, tick,
       BeginTick, IdsDrawn, Deciding, Locked
  <2>4. LivesBounded'
    BY <1>3, BoundsAssumption DEF Inv, BaseType, stored, world, tick,
       BeginTick, LivesBounded, Present
  <2> QED
    BY <2>1, <2>2, <2>3, <2>4 DEF Inv
<1>4. CASE CancelFails
  <2>1. BaseType'
    BY <1>0, <1>4, BoundsAssumption DEF Inv, BaseType, stored, world, tick,
       CancelFails, IdsDrawn, PC, Loop, Locked
  <2>2. DrawnForRises'
    BY <1>4, BoundsAssumption DEF Inv, BaseType, stored, world, tick,
       CancelFails, DrawnForRises, Drawn, Present, Edge
  <2>3. IdsDrawn'
    BY <1>4, BoundsAssumption DEF Inv, BaseType, stored, world, tick,
       CancelFails, IdsDrawn, Deciding, Locked
  <2>4. LivesBounded'
    BY <1>4, BoundsAssumption DEF Inv, BaseType, stored, world, tick,
       CancelFails, LivesBounded, Present
  <2> QED
    BY <2>1, <2>2, <2>3, <2>4 DEF Inv
<1>5. CASE ListEnabled
  <2>1. BaseType'
    BY <1>0, <1>5, BoundsAssumption DEF Inv, BaseType, stored, world, tick,
       ListEnabled, IdsDrawn, PC, Loop, Locked
  <2>2. DrawnForRises'
    BY <1>5, BoundsAssumption DEF Inv, BaseType, stored, world, tick,
       ListEnabled, DrawnForRises, Drawn, Present, Edge
  <2>3. IdsDrawn'
    BY <1>5, BoundsAssumption DEF Inv, BaseType, stored, world, tick,
       ListEnabled, IdsDrawn, Deciding, Locked
  <2>4. LivesBounded'
    BY <1>5, BoundsAssumption DEF Inv, BaseType, stored, world, tick,
       ListEnabled, LivesBounded, Present
  <2> QED
    BY <2>1, <2>2, <2>3, <2>4 DEF Inv
<1>6. CASE NotReady
  <2>1. BaseType'
    BY <1>0, <1>6, BoundsAssumption DEF Inv, BaseType, stored, world, tick,
       NotReady, IdsDrawn, PC, Loop, Locked
  <2>2. DrawnForRises'
    BY <1>6, BoundsAssumption DEF Inv, BaseType, stored, world, tick,
       NotReady, DrawnForRises, Drawn, Present, Edge
  <2>3. IdsDrawn'
    BY <1>6, BoundsAssumption DEF Inv, BaseType, stored, world, tick,
       NotReady, IdsDrawn, Deciding, Locked
  <2>4. LivesBounded'
    BY <1>6, BoundsAssumption DEF Inv, BaseType, stored, world, tick,
       NotReady, LivesBounded, Present
  <2> QED
    BY <2>1, <2>2, <2>3, <2>4 DEF Inv
<1>7. CASE EndTick
  <2>1. BaseType'
    BY <1>0, <1>7, BoundsAssumption DEF Inv, BaseType, stored, world, tick,
       EndTick, IdsDrawn, PC, Loop, Locked
  <2>2. DrawnForRises'
    BY <1>7, BoundsAssumption DEF Inv, BaseType, stored, world, tick, EndTick,
       DrawnForRises, Drawn, Present, Edge
  <2>3. IdsDrawn'
    BY <1>7, BoundsAssumption DEF Inv, BaseType, stored, world, tick, EndTick,
       IdsDrawn, Deciding, Locked
  <2>4. LivesBounded'
    BY <1>7, BoundsAssumption DEF Inv, BaseType, stored, world, tick, EndTick,
       LivesBounded, Present
  <2> QED
    BY <2>1, <2>2, <2>3, <2>4 DEF Inv
<1> QED
  BY <1>1, <1>2, <1>3, <1>4, <1>5, <1>6, <1>7

\* The loops over the strategies.
LEMMA LoopStep ==
    ASSUME Inv, NEW s \in Strategy,
           \/ CancelDisabled(s) \/ TakeStrategy(s) \/ SkipStrategy(s)
    PROVE  Inv'
<1>0. /\ MaxId \in Nat
      /\ \A r \in Strategy : ids[r] \in 0..MaxId
  BY IdsBound
<1>1. CASE CancelDisabled(s)
  <2>1. BaseType'
    <3>1. pending' \in [Strategy -> Nat] /\ due' \in [Strategy -> BOOLEAN]
      BY <1>1, DeletePendingType DEF Inv, BaseType, CancelDisabled
    <3> QED
      BY <1>0, <1>1, <3>1 DEF Inv, BaseType, stored, world, tick,
         CancelDisabled, PC, Loop, Locked
  <2>2. DrawnForRises'
    BY <1>1, BoundsAssumption DEF Inv, BaseType, stored, world, tick,
       CancelDisabled, DeletePending, DrawnForRises, Drawn, Present, Edge
  <2>3. IdsDrawn'
    BY <1>1, BoundsAssumption DEF Inv, BaseType, stored, world, tick,
       CancelDisabled, DeletePending, IdsDrawn, Deciding, Locked
  <2>4. LivesBounded'
    BY <1>1, BoundsAssumption DEF Inv, BaseType, stored, world, tick,
       CancelDisabled, DeletePending, LivesBounded, Present
  <2> QED
    BY <2>1, <2>2, <2>3, <2>4 DEF Inv
<1>2. CASE TakeStrategy(s)
  <2>1. BaseType'
    BY <1>0, <1>2, BoundsAssumption DEF Inv, BaseType, stored, world, tick,
       TakeStrategy, IdsDrawn, PC, Loop, Locked
  <2>2. DrawnForRises'
    BY <1>2, BoundsAssumption DEF Inv, BaseType, stored, world, tick,
       TakeStrategy, DrawnForRises, Drawn, Present, Edge
  <2>3. IdsDrawn'
    BY <1>2, BoundsAssumption DEF Inv, BaseType, stored, world, tick,
       TakeStrategy, IdsDrawn, Deciding, Locked
  <2>4. LivesBounded'
    BY <1>2, BoundsAssumption DEF Inv, BaseType, stored, world, tick,
       TakeStrategy, LivesBounded, Present
  <2> QED
    BY <2>1, <2>2, <2>3, <2>4 DEF Inv
<1>3. CASE SkipStrategy(s)
  <2>1. BaseType'
    BY <1>0, <1>3, BoundsAssumption DEF Inv, BaseType, stored, world, tick,
       SkipStrategy, IdsDrawn, PC, Loop, Locked
  <2>2. DrawnForRises'
    BY <1>3, BoundsAssumption DEF Inv, BaseType, stored, world, tick,
       SkipStrategy, DrawnForRises, Drawn, Present, Edge
  <2>3. IdsDrawn'
    BY <1>3, BoundsAssumption DEF Inv, BaseType, stored, world, tick,
       SkipStrategy, IdsDrawn, Deciding, Locked
  <2>4. LivesBounded'
    BY <1>3, BoundsAssumption DEF Inv, BaseType, stored, world, tick,
       SkipStrategy, LivesBounded, Present
  <2> QED
    BY <2>1, <2>2, <2>3, <2>4 DEF Inv
<1> QED
  BY <1>1, <1>2, <1>3

\* A delayed execution keeps the id it was scheduled with.
LEMMA DueStep ==
    ASSUME Inv,
           \/ NothingDue \/ DueRecovered \/ DueMatches
           \/ DueNoLongerMatches \/ DueFails \/ FinishDelayed
           \/ FinishFails
    PROVE  Inv'
<1>0. /\ MaxId \in Nat
      /\ \A r \in Strategy : ids[r] \in 0..MaxId
  BY IdsBound
<1>1. CASE NothingDue
  <2>1. BaseType'
    BY <1>0, <1>1, BoundsAssumption DEF Inv, BaseType, stored, world, tick,
       NothingDue, Goto, IdsDrawn, PC, Loop, Locked
  <2>2. DrawnForRises'
    BY <1>1, BoundsAssumption DEF Inv, BaseType, stored, world, tick,
       NothingDue, Goto, DrawnForRises, Drawn, Present, Edge
  <2>3. IdsDrawn'
    BY <1>1, BoundsAssumption DEF Inv, BaseType, stored, world, tick,
       NothingDue, Goto, IdsDrawn, Deciding, Locked
  <2>4. LivesBounded'
    BY <1>1, BoundsAssumption DEF Inv, BaseType, stored, world, tick,
       NothingDue, Goto, LivesBounded, Present
  <2> QED
    BY <2>1, <2>2, <2>3, <2>4 DEF Inv
<1>2. CASE DueRecovered
  <2>1. BaseType'
    BY <1>0, <1>2, BoundsAssumption DEF Inv, BaseType, stored, world, tick,
       DueRecovered, Goto, IsDue, IdsDrawn, PC, Loop, Locked
  <2>2. DrawnForRises'
    BY <1>2, BoundsAssumption DEF Inv, BaseType, stored, world, tick,
       DueRecovered, Goto, IsDue, DrawnForRises, Drawn, Present, Edge
  <2>3. IdsDrawn'
    BY <1>2, BoundsAssumption DEF Inv, BaseType, stored, world, tick,
       DueRecovered, Goto, IsDue, IdsDrawn, Deciding, Locked
  <2>4. LivesBounded'
    BY <1>2, BoundsAssumption DEF Inv, BaseType, stored, world, tick,
       DueRecovered, Goto, IsDue, LivesBounded, Present
  <2> QED
    BY <2>1, <2>2, <2>3, <2>4 DEF Inv
<1>3. CASE DueMatches
  <2>1. BaseType'
    BY <1>0, <1>3, BoundsAssumption DEF Inv, BaseType, stored, world, tick,
       DueMatches, Goto, IsDue, DueDecision, IdsDrawn, PC, Loop, Locked
  <2>2. DrawnForRises'
    BY <1>3, BoundsAssumption DEF Inv, BaseType, stored, world, tick,
       DueMatches, Goto, IsDue, DueDecision, DrawnForRises, Drawn, Present, Edge
  <2>3. IdsDrawn'
    BY <1>3, BoundsAssumption DEF Inv, BaseType, stored, world, tick,
       DueMatches, Goto, IsDue, DueDecision, IdsDrawn, Deciding, Locked
  <2>4. LivesBounded'
    BY <1>3, BoundsAssumption DEF Inv, BaseType, stored, world, tick,
       DueMatches, Goto, IsDue, DueDecision, LivesBounded, Present
  <2> QED
    BY <2>1, <2>2, <2>3, <2>4 DEF Inv
<1>4. CASE DueNoLongerMatches
  <2>1. BaseType'
    BY <1>0, <1>4, BoundsAssumption DEF Inv, BaseType, stored, world, tick,
       DueNoLongerMatches, Goto, IsDue, IdsDrawn, PC, Loop, Locked
  <2>2. DrawnForRises'
    BY <1>4, BoundsAssumption DEF Inv, BaseType, stored, world, tick,
       DueNoLongerMatches, Goto, IsDue, DrawnForRises, Drawn, Present, Edge
  <2>3. IdsDrawn'
    BY <1>4, BoundsAssumption DEF Inv, BaseType, stored, world, tick,
       DueNoLongerMatches, Goto, IsDue, IdsDrawn, Deciding, Locked
  <2>4. LivesBounded'
    BY <1>4, BoundsAssumption DEF Inv, BaseType, stored, world, tick,
       DueNoLongerMatches, Goto, IsDue, LivesBounded, Present
  <2> QED
    BY <2>1, <2>2, <2>3, <2>4 DEF Inv
<1>5. CASE DueFails
  <2>1. BaseType'
    BY <1>0, <1>5, BoundsAssumption DEF Inv, BaseType, stored, world, tick,
       DueFails, Goto, IdsDrawn, PC, Loop, Locked
  <2>2. DrawnForRises'
    BY <1>5, BoundsAssumption DEF Inv, BaseType, stored, world, tick,
       DueFails, Goto, DrawnForRises, Drawn, Present, Edge
  <2>3. IdsDrawn'
    BY <1>5, BoundsAssumption DEF Inv, BaseType, stored, world, tick,
       DueFails, Goto, IdsDrawn, Deciding, Locked
  <2>4. LivesBounded'
    BY <1>5, BoundsAssumption DEF Inv, BaseType, stored, world, tick,
       DueFails, Goto, LivesBounded, Present
  <2> QED
    BY <2>1, <2>2, <2>3, <2>4 DEF Inv
<1>6. CASE FinishDelayed
  <2>1. BaseType'
    <3>1. pending' \in [Strategy -> Nat] /\ due' \in [Strategy -> BOOLEAN]
      BY <1>6, DeletePendingType DEF Inv, BaseType, FinishDelayed
    <3> QED
      BY <1>0, <1>6, <3>1 DEF Inv, BaseType, stored, world, tick,
         FinishDelayed, Goto, PC, Loop, Locked
  <2>2. DrawnForRises'
    BY <1>6, BoundsAssumption DEF Inv, BaseType, stored, world, tick,
       FinishDelayed, Goto, DeletePending, DrawnForRises, Drawn, Present, Edge
  <2>3. IdsDrawn'
    BY <1>6, BoundsAssumption DEF Inv, BaseType, stored, world, tick,
       FinishDelayed, Goto, DeletePending, IdsDrawn, Deciding, Locked
  <2>4. LivesBounded'
    BY <1>6, BoundsAssumption DEF Inv, BaseType, stored, world, tick,
       FinishDelayed, Goto, DeletePending, LivesBounded, Present
  <2> QED
    BY <2>1, <2>2, <2>3, <2>4 DEF Inv
<1>7. CASE FinishFails
  <2>1. BaseType'
    BY <1>0, <1>7, BoundsAssumption DEF Inv, BaseType, stored, world, tick,
       FinishFails, Goto, IdsDrawn, PC, Loop, Locked
  <2>2. DrawnForRises'
    BY <1>7, BoundsAssumption DEF Inv, BaseType, stored, world, tick,
       FinishFails, Goto, DrawnForRises, Drawn, Present, Edge
  <2>3. IdsDrawn'
    BY <1>7, BoundsAssumption DEF Inv, BaseType, stored, world, tick,
       FinishFails, Goto, IdsDrawn, Deciding, Locked
  <2>4. LivesBounded'
    BY <1>7, BoundsAssumption DEF Inv, BaseType, stored, world, tick,
       FinishFails, Goto, LivesBounded, Present
  <2> QED
    BY <2>1, <2>2, <2>3, <2>4 DEF Inv
<1> QED
  BY <1>1, <1>2, <1>3, <1>4, <1>5, <1>6, <1>7

\* An id is drawn at an edge, which is then closed.
LEMMA EvaluateStep ==
    ASSUME Inv,
           \/ EvaluateNoEdge \/ EvaluateEdge \/ EvaluateFails \/ Schedule
           \/ ScheduleBlocked
    PROVE  Inv'
<1>0. /\ MaxId \in Nat
      /\ \A r \in Strategy : ids[r] \in 0..MaxId
  BY IdsBound
<1>1. CASE EvaluateNoEdge
  <2>1. BaseType'
    BY <1>0, <1>1, BoundsAssumption DEF Inv, BaseType, stored, world, tick,
       EvaluateNoEdge, Goto, Edge, IdsDrawn, PC, Loop, Locked
  <2>2. DrawnForRises'
    BY <1>1, BoundsAssumption DEF Inv, BaseType, stored, world, tick,
       EvaluateNoEdge, Goto, Edge, DrawnForRises, Drawn, Present
  <2>3. IdsDrawn'
    BY <1>1, BoundsAssumption DEF Inv, BaseType, stored, world, tick,
       EvaluateNoEdge, Goto, Edge, IdsDrawn, Deciding, Locked
  <2>4. LivesBounded'
    BY <1>1, BoundsAssumption DEF Inv, BaseType, stored, world, tick,
       EvaluateNoEdge, Goto, Edge, LivesBounded, Present
  <2> QED
    BY <2>1, <2>2, <2>3, <2>4 DEF Inv
<1>2. CASE EvaluateEdge
  <2>1. BaseType'
    BY <1>0, <1>2, BoundsAssumption DEF Inv, BaseType, stored, world, tick,
       EvaluateEdge, Goto, NextId, Edge, IdsDrawn, PC, Loop, Locked
  <2>2. DrawnForRises'
    BY <1>2, BoundsAssumption DEF Inv, BaseType, stored, world, tick,
       EvaluateEdge, Goto, NextId, Edge, DrawnForRises, Drawn, Present
  <2>3. IdsDrawn'
    BY <1>2, BoundsAssumption DEF Inv, BaseType, stored, world, tick,
       EvaluateEdge, Goto, NextId, Edge, IdsDrawn, Deciding, Locked
  <2>4. LivesBounded'
    BY <1>2, BoundsAssumption DEF Inv, BaseType, stored, world, tick,
       EvaluateEdge, Goto, NextId, Edge, LivesBounded, Present
  <2> QED
    BY <2>1, <2>2, <2>3, <2>4 DEF Inv
<1>3. CASE EvaluateFails
  <2>1. BaseType'
    BY <1>0, <1>3, BoundsAssumption DEF Inv, BaseType, stored, world, tick,
       EvaluateFails, Goto, IdsDrawn, PC, Loop, Locked
  <2>2. DrawnForRises'
    BY <1>3, BoundsAssumption DEF Inv, BaseType, stored, world, tick,
       EvaluateFails, Goto, DrawnForRises, Drawn, Present, Edge
  <2>3. IdsDrawn'
    BY <1>3, BoundsAssumption DEF Inv, BaseType, stored, world, tick,
       EvaluateFails, Goto, IdsDrawn, Deciding, Locked
  <2>4. LivesBounded'
    BY <1>3, BoundsAssumption DEF Inv, BaseType, stored, world, tick,
       EvaluateFails, Goto, LivesBounded, Present
  <2> QED
    BY <2>1, <2>2, <2>3, <2>4 DEF Inv
<1>4. CASE Schedule
  <2>1. BaseType'
    BY <1>0, <1>4, BoundsAssumption DEF Inv, BaseType, stored, world, tick,
       Schedule, Goto, IdsDrawn, PC, Loop, Locked
  <2>2. DrawnForRises'
    BY <1>4, BoundsAssumption DEF Inv, BaseType, stored, world, tick,
       Schedule, Goto, DrawnForRises, Drawn, Present, Edge
  <2>3. IdsDrawn'
    BY <1>4, BoundsAssumption DEF Inv, BaseType, stored, world, tick,
       Schedule, Goto, IdsDrawn, Deciding, Locked
  <2>4. LivesBounded'
    BY <1>4, BoundsAssumption DEF Inv, BaseType, stored, world, tick,
       Schedule, Goto, LivesBounded, Present
  <2> QED
    BY <2>1, <2>2, <2>3, <2>4 DEF Inv
<1>5. CASE ScheduleBlocked
  <2>1. BaseType'
    BY <1>0, <1>5, BoundsAssumption DEF Inv, BaseType, stored, world, tick,
       ScheduleBlocked, Goto, IdsDrawn, PC, Loop, Locked
  <2>2. DrawnForRises'
    BY <1>5, BoundsAssumption DEF Inv, BaseType, stored, world, tick,
       ScheduleBlocked, Goto, DrawnForRises, Drawn, Present, Edge
  <2>3. IdsDrawn'
    BY <1>5, BoundsAssumption DEF Inv, BaseType, stored, world, tick,
       ScheduleBlocked, Goto, IdsDrawn, Deciding, Locked
  <2>4. LivesBounded'
    BY <1>5, BoundsAssumption DEF Inv, BaseType, stored, world, tick,
       ScheduleBlocked, Goto, LivesBounded, Present
  <2> QED
    BY <2>1, <2>2, <2>3, <2>4 DEF Inv
<1> QED
  BY <1>1, <1>2, <1>3, <1>4, <1>5

\* An entry uses the id that was drawn for it.
LEMMA EntryStep ==
    ASSUME Inv,
           \/ TakeLock \/ EntryBlocked \/ PersistenceFails
           \/ PrepareOpenUnit \/ SubmitAccepted \/ SubmitFails
           \/ RecordSubmission
    PROVE  Inv'
<1>0. /\ MaxId \in Nat
      /\ \A r \in Strategy : ids[r] \in 0..MaxId
  BY IdsBound
<1>1. CASE TakeLock
  <2>1. BaseType'
    BY <1>0, <1>1, BoundsAssumption DEF Inv, BaseType, stored, world, tick,
       TakeLock, Goto, IdsDrawn, PC, Loop, Locked
  <2>2. DrawnForRises'
    BY <1>1, BoundsAssumption DEF Inv, BaseType, stored, world, tick,
       TakeLock, Goto, DrawnForRises, Drawn, Present, Edge
  <2>3. IdsDrawn'
    BY <1>1, BoundsAssumption DEF Inv, BaseType, stored, world, tick,
       TakeLock, Goto, IdsDrawn, Deciding, Locked
  <2>4. LivesBounded'
    BY <1>1, BoundsAssumption DEF Inv, BaseType, stored, world, tick,
       TakeLock, Goto, LivesBounded, Present
  <2> QED
    BY <2>1, <2>2, <2>3, <2>4 DEF Inv
<1>2. CASE EntryBlocked
  <2>1. BaseType'
    BY <1>0, <1>2, BoundsAssumption DEF Inv, BaseType, stored, world, tick,
       EntryBlocked, AfterEntry, Goto, IdsDrawn, PC, Loop, Locked
  <2>2. DrawnForRises'
    BY <1>2, BoundsAssumption DEF Inv, BaseType, stored, world, tick,
       EntryBlocked, AfterEntry, Goto, DrawnForRises, Drawn, Present, Edge
  <2>3. IdsDrawn'
    BY <1>2, BoundsAssumption DEF Inv, BaseType, stored, world, tick,
       EntryBlocked, AfterEntry, Goto, IdsDrawn, Deciding, Locked
  <2>4. LivesBounded'
    BY <1>2, BoundsAssumption DEF Inv, BaseType, stored, world, tick,
       EntryBlocked, AfterEntry, Goto, LivesBounded, Present
  <2> QED
    BY <2>1, <2>2, <2>3, <2>4 DEF Inv
<1>3. CASE PersistenceFails
  <2>1. BaseType'
    BY <1>0, <1>3, BoundsAssumption DEF Inv, BaseType, stored, world, tick,
       PersistenceFails, AfterEntry, Goto, IdsDrawn, PC, Loop, Locked
  <2>2. DrawnForRises'
    BY <1>3, BoundsAssumption DEF Inv, BaseType, stored, world, tick,
       PersistenceFails, AfterEntry, Goto, DrawnForRises, Drawn, Present, Edge
  <2>3. IdsDrawn'
    BY <1>3, BoundsAssumption DEF Inv, BaseType, stored, world, tick,
       PersistenceFails, AfterEntry, Goto, IdsDrawn, Deciding, Locked
  <2>4. LivesBounded'
    BY <1>3, BoundsAssumption DEF Inv, BaseType, stored, world, tick,
       PersistenceFails, AfterEntry, Goto, LivesBounded, Present
  <2> QED
    BY <2>1, <2>2, <2>3, <2>4 DEF Inv
<1>4. CASE PrepareOpenUnit
  <2>1. BaseType'
    BY <1>0, <1>4, BoundsAssumption DEF Inv, BaseType, stored, world, tick,
       PrepareOpenUnit, Goto, IdsDrawn, PC, Loop, Locked
  <2>2. DrawnForRises'
    BY <1>4, BoundsAssumption DEF Inv, BaseType, stored, world, tick,
       PrepareOpenUnit, Goto, DrawnForRises, Drawn, Present, Edge
  <2>3. IdsDrawn'
    BY <1>4, BoundsAssumption DEF Inv, BaseType, stored, world, tick,
       PrepareOpenUnit, Goto, IdsDrawn, Deciding, Locked
  <2>4. LivesBounded'
    BY <1>4, BoundsAssumption DEF Inv, BaseType, stored, world, tick,
       PrepareOpenUnit, Goto, LivesBounded, Present
  <2> QED
    BY <2>1, <2>2, <2>3, <2>4 DEF Inv
<1>5. CASE SubmitAccepted
  <2>1. BaseType'
    BY <1>0, <1>5, BoundsAssumption DEF Inv, BaseType, stored, world, tick,
       SubmitAccepted, Goto, IdsDrawn, PC, Loop, Locked
  <2>2. DrawnForRises'
    BY <1>5, BoundsAssumption DEF Inv, BaseType, stored, world, tick,
       SubmitAccepted, Goto, DrawnForRises, Drawn, Present, Edge
  <2>3. IdsDrawn'
    BY <1>5, BoundsAssumption DEF Inv, BaseType, stored, world, tick,
       SubmitAccepted, Goto, IdsDrawn, Deciding, Locked
  <2>4. LivesBounded'
    BY <1>5, BoundsAssumption DEF Inv, BaseType, stored, world, tick,
       SubmitAccepted, Goto, LivesBounded, Present
  <2> QED
    BY <2>1, <2>2, <2>3, <2>4 DEF Inv
<1>6. CASE SubmitFails
  <2>1. BaseType'
    BY <1>0, <1>6, BoundsAssumption DEF Inv, BaseType, stored, world, tick,
       SubmitFails, AfterEntry, Goto, IdsDrawn, PC, Loop, Locked
  <2>2. DrawnForRises'
    BY <1>6, BoundsAssumption DEF Inv, BaseType, stored, world, tick,
       SubmitFails, AfterEntry, Goto, DrawnForRises, Drawn, Present, Edge
  <2>3. IdsDrawn'
    BY <1>6, BoundsAssumption DEF Inv, BaseType, stored, world, tick,
       SubmitFails, AfterEntry, Goto, IdsDrawn, Deciding, Locked
  <2>4. LivesBounded'
    BY <1>6, BoundsAssumption DEF Inv, BaseType, stored, world, tick,
       SubmitFails, AfterEntry, Goto, LivesBounded, Present
  <2> QED
    BY <2>1, <2>2, <2>3, <2>4 DEF Inv
<1>7. CASE RecordSubmission
  <2>1. BaseType'
    BY <1>0, <1>7, BoundsAssumption DEF Inv, BaseType, stored, world, tick,
       RecordSubmission, AfterEntry, Goto, IdsDrawn, PC, Loop, Locked
  <2>2. DrawnForRises'
    BY <1>7, BoundsAssumption DEF Inv, BaseType, stored, world, tick,
       RecordSubmission, AfterEntry, Goto, DrawnForRises, Drawn, Present, Edge
  <2>3. IdsDrawn'
    BY <1>7, BoundsAssumption DEF Inv, BaseType, stored, world, tick,
       RecordSubmission, AfterEntry, Goto, IdsDrawn, Deciding, Locked
  <2>4. LivesBounded'
    BY <1>7, BoundsAssumption DEF Inv, BaseType, stored, world, tick,
       RecordSubmission, AfterEntry, Goto, LivesBounded, Present
  <2> QED
    BY <2>1, <2>2, <2>3, <2>4 DEF Inv
<1> QED
  BY <1>1, <1>2, <1>3, <1>4, <1>5, <1>6, <1>7

----------------------------------------------------------------------------
LEMMA NextInv == Inv /\ [Next]_vars => Inv'
<1> SUFFICES ASSUME Inv, [Next]_vars PROVE Inv'
  OBVIOUS
<1>1. CASE UNCHANGED vars
  BY <1>1 DEF Inv, BaseType, DrawnForRises, IdsDrawn, LivesBounded, Drawn, Present,
     Edge, vars, stored, world, tick
<1>2. CASE Tick
  BY <1>2, PassStep, LoopStep, DueStep, EvaluateStep, EntryStep DEF Tick
<1>3. CASE StartDaemon \/ Crash
  BY <1>3, PassStep
<1>4. ASSUME NEW s \in Strategy, Rise(s) \/ Fall(s) \/ BecomesDue(s)
      PROVE  Inv'
  BY <1>4, MarketStep
<1>5. ASSUME NEW s \in Strategy, \E i \in unit[s] : ClearClientId(s, i)
      PROVE  Inv'
  BY <1>5, ClearStep
<1>6. ASSUME NEW s \in Strategy,
             \/ CreateStrategy(s) \/ UpdateStrategy(s) \/ EnableStrategy(s)
             \/ DisableStrategy(s) \/ DeleteStrategy(s)
      PROVE  Inv'
  BY <1>6, RouteStep
<1>7. ASSUME NEW s \in Strategy,
             \/ PromoteStrategyRiskStop(s) \/ CreateStrategySignal(s)
             \/ UpdateStrategySignal(s) \/ DeleteStrategySignal(s)
      PROVE  Inv'
  BY <1>7, ReviewStep DEF PromoteStrategyRiskStop, CreateStrategySignal,
     UpdateStrategySignal, DeleteStrategySignal
<1> QED
  BY <1>1, <1>2, <1>3, <1>4, <1>5, <1>6, <1>7 DEF Next

LEMMA SpecInv == Spec => []Inv
<1> QED
  BY InitInv, NextInv, PTL DEF Spec

----------------------------------------------------------------------------
LEMMA InvType == Inv => TypeOK
<1> SUFFICES ASSUME Inv PROVE TypeOK
  OBVIOUS
<1>1. /\ MaxId \in Nat
      /\ \A s \in Strategy : ids[s] \in 0..MaxId /\ lives[s] \in 0..MaxEdit
  BY IdsBound
<1>2. ids \in [Strategy -> 0..MaxId] /\ lives \in [Strategy -> 0..MaxEdit]
  BY <1>1 DEF Inv, BaseType
<1>3. \A s \in Strategy : /\ pending[s] \in 0..MaxId
                          /\ unit[s] \subseteq 1..MaxId
                          /\ orders[s] \subseteq 1..MaxId
  BY <1>1 DEF Inv, IdsDrawn
<1>4. /\ pending \in [Strategy -> 0..MaxId]
      /\ unit \in [Strategy -> SUBSET (1..MaxId)]
      /\ orders \in [Strategy -> SUBSET (1..MaxId)]
  BY <1>3 DEF Inv, BaseType
<1>5. work \in 0..MaxId
  BY <1>1 DEF Inv, BaseType, IdsDrawn
<1> QED
  BY <1>2, <1>4, <1>5 DEF Inv, BaseType, TypeOK

\* The accepted orders of a strategy are among the ids it drew.
LEMMA InvOnce == Inv => OnceForEachRise
<1> SUFFICES ASSUME Inv, NEW s \in Strategy, orders[s] # {}
             PROVE  Cardinality(orders[s]) < rises[s] + lives[s]
  BY DEF OnceForEachRise
<1>1. ids[s] \in Nat /\ rises[s] \in Nat /\ lives[s] \in Nat
  BY BoundsAssumption DEF Inv, BaseType
<1>2. orders[s] \subseteq 1..ids[s]
  BY DEF Inv, IdsDrawn
<1>3. IsFiniteSet(1..ids[s]) /\ Cardinality(1..ids[s]) = ids[s]
  <2>1. 1 \in Int /\ ids[s] \in Int
    BY <1>1
  <2>2. /\ IsFiniteSet(1..ids[s])
        /\ Cardinality(1..ids[s]) = IF 1 > ids[s] THEN 0 ELSE ids[s] - 1 + 1
    BY <2>1, FS_Interval
  <2> QED
    BY <1>1, <2>2
<1>4. IsFiniteSet(orders[s]) /\ Cardinality(orders[s]) <= Cardinality(1..ids[s])
  BY <1>2, <1>3, FS_Subset
<1>5. ids[s] > 0
  BY <1>1, <1>2
<1>6. ids[s] + 1 <= rises[s] + lives[s]
  BY <1>5 DEF Inv, DrawnForRises, Drawn
<1>7. Cardinality(orders[s]) \in Nat
  BY <1>4, FS_CardinalityType
<1> QED
  BY <1>1, <1>3, <1>4, <1>6, <1>7

\* Every variable keeps its type; decision ids stay below the bound that the
\* rises and the edits set, so no action draws ids without end.
THEOREM StrategyTypes == Spec => []TypeOK
<1> QED
  BY SpecInv, InvType, PTL

\* At most one entry is accepted for each rise of a strategy's signal and for
\* each time the strategy was created again: over restarts of the service,
\* delayed executions, retries under the same client order id and edits.
THEOREM StrategyEntersOnce == Spec => []OnceForEachRise
<1> QED
  BY SpecInv, InvOnce, PTL
============================================================================
