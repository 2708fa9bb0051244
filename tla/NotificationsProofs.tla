------------------------- MODULE NotificationsProofs -------------------------
(***************************************************************************)
(* Proofs about Notifications, for every number of events and faults and   *)
(* every set of messages: the types, at most one message for an event and  *)
(* a channel beyond the faults, and a cursor that passes handled events    *)
(* only.                                                                   *)
(*                                                                         *)
(* Neither safety property is inductive.  That a channel is not sent an    *)
(* event twice rests on the acknowledgements that the tick read before it  *)
(* began to deliver: those missing from that reading are still missing     *)
(* when the channel's turn comes (AckedBefore).  That the cursor passes no *)
(* event by rests on the list that the tick read before other threads      *)
(* committed more events: an event that is neither in the list nor behind  *)
(* all of it was written late (BatchComplete).                             *)
(***************************************************************************)
EXTENDS Notifications, WellFoundedInduction, TLAPS

\* The places at which the first event of the list is being delivered.
Delivering == {"send", "record", "ack"}

\* TypeOK, with the number of messages not bounded yet.
BaseType ==
    /\ stamped \in 0..MaxEvent
    /\ kind \in [Event -> Text \cup {Noise}]
    /\ written \subseteq 1..stamped
    /\ late \subseteq written
    /\ old \subseteq 1..stamped
    /\ cursor \in 0..MaxEvent
    /\ acks \subseteq Event \X Channel
    /\ backoff \subseteq Channel
    /\ hot \in [Channel -> SUBSET Text]
    /\ sends \in [Event \X Channel -> Nat]
    /\ faults \in 0..MaxFault
    /\ pc \in PC
    /\ batch \subseteq written
    /\ acknowledged \subseteq Channel
    /\ at \in 1..3
    /\ delivered \in BOOLEAN

\* The list is what is left of the events ahead of the cursor.
Listing ==
    /\ pc \in {"down", "idle"} <=> batch = {}
    /\ \A e \in batch : cursor < e
    /\ pc \in {"record", "ack"} => at \in 1..2

\* An event written in time is in the list or behind all of it.
BatchComplete ==
    \A e \in written \ late : cursor < e => e \in batch \/ \A f \in batch : f < e

\* The channel has its turn behind it.
Before(c) == \E i \in 1..at - 1 : Order[i] = c

\* The event being delivered is news; its acknowledgements are those that were
\* read, and those of the channels that had their turn.
AckedBefore ==
    pc \in Delivering =>
        /\ HasCategory(First)
        /\ \A c \in acknowledged : <<First, c>> \in acks
        /\ \A c \in Channel : <<First, c>> \in acks => c \in acknowledged \/ Before(c)

Took(e, c) == sends[<<e, c>>] > 0 \/ <<e, c>> \in acks

\* While nothing has failed, the channels that had their turn are served.
ServedSoFar ==
    pc \in Delivering /\ delivered =>
        \A c \in Enabled : Before(c) => Took(First, c)

\* The event the cursor is about to pass is handled.
PassingHandled ==
    pc = "advance" => ~HasCategory(First) \/ First \in old \/ Reached(First)

\* No further message of the event to the channel will be attempted, unless
\* something fails.
Settled(e, c) ==
    \/ e <= cursor
    \/ <<e, c>> \in acks
    \/ pc \in {"record", "ack"} /\ e = First /\ c = Order[at]

SendsCounted ==
    \A e \in Event, c \in Channel :
        /\ sends[<<e, c>>] <= 1 + faults
        /\ ~Settled(e, c) => sends[<<e, c>>] <= faults

Inv == /\ BaseType /\ Listing /\ BatchComplete /\ AckedBefore /\ ServedSoFar
       /\ PassingHandled /\ SendsCounted

-----------------------------------------------------------------------------
(* The operators.                                                          *)

LEMMA OrderFacts ==
    /\ Len(Order) = 2 /\ Order[1] = "line" /\ Order[2] = "email"
    /\ Channel = {"line", "email"}
<1>1. Len(Order) = 2 /\ Order[1] = "line" /\ Order[2] = "email"
  BY DEF Order
<1>2. Channel = {Order[i] : i \in 1..2}
  BY <1>1 DEF Channel
<1> QED
  BY <1>1, <1>2

LEMMA LeastNat ==
    ASSUME NEW S \in SUBSET Nat, S # {}
    PROVE  \E x \in S : \A y \in S : x <= y
<1>1. PICK x \in S : \A y \in S : ~(<<y, x>> \in OpToRel(<, Nat))
  BY NatLessThanWellFounded, WFMin
<1>2. \A y \in S : ~(y < x)
  BY <1>1 DEF OpToRel
<1> QED
  BY <1>2

LEMMA MinIn ==
    ASSUME NEW S \in SUBSET Nat, S # {}
    PROVE  Min(S) \in S /\ \A y \in S : Min(S) <= y
<1> QED
  BY LeastNat DEF Min

\* The largest is the least distance from a bound.
LEMMA MaxIn ==
    ASSUME NEW n \in Nat, NEW S \in SUBSET (0..n), S # {}
    PROVE  Max(S) \in S
<1> DEFINE D == {n - y : y \in S}
<1>1. D \in SUBSET Nat /\ D # {}
  <2>1. \A y \in S : n - y \in Nat
    OBVIOUS
  <2> QED
    BY <2>1
<1>2. PICK d \in D : \A y \in D : d <= y
  <2> HIDE DEF D
  <2> QED
    BY <1>1, LeastNat
<1>3. PICK x \in S : d = n - x
  OBVIOUS
<1>4. \A y \in S : x >= y
  <2> SUFFICES ASSUME NEW y \in S PROVE x >= y
    OBVIOUS
  <2>1. d <= n - y
    BY <1>2
  <2> QED
    BY <1>3, <2>1
<1> QED
  BY <1>4 DEF Max

\* The event at the head of the list.
LEMMA FirstIn ==
    ASSUME BaseType, batch # {}
    PROVE  /\ First \in batch /\ First \in Event /\ First \in written
           /\ \A e \in batch : First <= e
<1>1. batch \in SUBSET Nat /\ batch \subseteq Event /\ batch \subseteq written
  BY BoundsAssumption DEF BaseType, Event
<1> QED
  BY <1>1, MinIn DEF First

\* One more channel has had its turn.
LEMMA BeforeNext ==
    ASSUME at \in 1..2, at' = at + 1, NEW c
    PROVE  Before(c)' <=> Before(c) \/ c = Order[at]
<1>1. 1..at' - 1 = (1..at - 1) \cup {at}
  OBVIOUS
<1> QED
  BY <1>1 DEF Before

LEMMA NotBefore ==
    at \in 1..2 => ~Before(Order[at])
<1> SUFFICES ASSUME at \in 1..2 PROVE ~Before(Order[at])
  OBVIOUS
<1>1. CASE at = 1
  BY <1>1 DEF Before
<1>2. CASE at = 2
  <2>1. 1..at - 1 = {1}
    BY <1>2
  <2> QED
    BY <1>2, <2>1, OrderFacts DEF Before
<1> QED
  BY <1>1, <1>2

\* A channel takes one more message.
LEMMA SendsType ==
    ASSUME BaseType, NEW e \in Event, NEW c \in Channel,
           sends' = [sends EXCEPT ![<<e, c>>] = @ + 1]
    PROVE  /\ sends' \in [Event \X Channel -> Nat]
           /\ \A f \in Event, d \in Channel :
                /\ sends[<<f, d>>] \in Nat
                /\ sends'[<<f, d>>] = IF f = e /\ d = c THEN sends[<<f, d>>] + 1
                                      ELSE sends[<<f, d>>]
<1> QED
  BY DEF BaseType

\* The account of the messages, where none is sent.
LEMMA CountKept ==
    ASSUME Inv, sends' = sends, faults' = faults,
           \A e \in Event, c \in Channel : Settled(e, c) => Settled(e, c)'
    PROVE  SendsCounted'
<1> QED
  BY DEF Inv, SendsCounted

\* A fault pays for one more message.
LEMMA CountFault ==
    ASSUME Inv, sends' = sends, faults' = faults + 1
    PROVE  SendsCounted'
<1>1. \A e \in Event, c \in Channel : sends[<<e, c>>] \in Nat
  BY DEF Inv, BaseType
<1>2. faults \in Nat
  BY BoundsAssumption DEF Inv, BaseType
<1>3. \A e \in Event, c \in Channel : sends[<<e, c>>] <= 1 + faults
  BY DEF Inv, SendsCounted
<1> SUFFICES ASSUME NEW e \in Event, NEW c \in Channel
             PROVE  /\ sends'[<<e, c>>] <= 1 + faults'
                    /\ ~Settled(e, c)' => sends'[<<e, c>>] <= faults'
  BY DEF SendsCounted
<1>4. sends'[<<e, c>>] <= faults'
  BY <1>1, <1>2, <1>3
<1>5. sends'[<<e, c>>] \in Nat /\ faults' \in Nat
  BY <1>1, <1>2
<1> QED
  BY <1>4, <1>5

\* A message to a channel whose turn it is, and which has not acknowledged the
\* event: the first one since the last fault.
LEMMA TurnIsUnsettled ==
    ASSUME Inv, pc = "send", NEW c \in Channel, At(c), Wanted(c)
    PROVE  /\ at \in 1..2 /\ c = Order[at] /\ First \in Event
           /\ ~Settled(First, c)
           /\ sends[<<First, c>>] <= faults
<1>1. BaseType /\ batch # {}
  BY DEF Inv, Listing
<1>2. First \in Event /\ cursor < First /\ First \in Nat /\ cursor \in Nat
  BY <1>1, FirstIn, BoundsAssumption DEF Inv, Listing, Event, BaseType
<1>3. at \in 1..2 /\ c = Order[at]
  BY <1>1, OrderFacts DEF BaseType, At
<1>4. <<First, c>> \notin acks
  BY <1>3, NotBefore DEF Inv, AckedBefore, Delivering, Wanted
<1>5. ~Settled(First, c)
  BY <1>2, <1>4 DEF Settled
<1> QED
  BY <1>2, <1>3, <1>5 DEF Inv, SendsCounted

LEMMA InitInv == Init => Inv
<1> SUFFICES ASSUME Init PROVE Inv
  OBVIOUS
<1>1. BaseType
  BY BoundsAssumption DEF Init, BaseType, PC
<1>2. Listing /\ BatchComplete /\ AckedBefore /\ ServedSoFar /\ PassingHandled
  BY DEF Init, Listing, BatchComplete, AckedBefore, ServedSoFar, PassingHandled,
     Delivering
<1>3. SendsCounted
  BY DEF Init, SendsCounted
<1> QED
  BY <1>1, <1>2, <1>3 DEF Inv

-----------------------------------------------------------------------------
(* Writers and time.                                                       *)

\* An event is stamped.
LEMMA StampStep ==
    ASSUME Inv, NEW k \in Text \cup {Noise},
           Stamp(k)
    PROVE  Inv'
<1>0. /\ BaseType
      /\ batch # {} => /\ First \in batch /\ First \in Event /\ First \in written
                       /\ \A x \in batch : First <= x
  BY FirstIn DEF Inv
<1>1. CASE Stamp(k)
  <2>f. First' = First /\ \A d : Before(d)' <=> Before(d)
    BY <1>1 DEF Stamp, events, delivery, tick, First, Before
  <2>k. batch # {} => kind'[First] = kind[First]
    <3> SUFFICES ASSUME batch # {} PROVE kind'[First] = kind[First]
      OBVIOUS
    <3>1. First \in 1..stamped
      BY <1>0 DEF BaseType
    <3>2. First # stamped + 1
      BY <1>0, <3>1, BoundsAssumption DEF BaseType
    <3> QED
      BY <1>0, <1>1, <3>2 DEF Stamp, BaseType
  <2>u. UNCHANGED <<pc, batch, old, sends, acks, acknowledged, at>>
    BY <1>1 DEF Stamp, delivery, tick
  <2>1. BaseType'
    BY <1>0, <1>1, <2>f, BoundsAssumption, EnabledAssumption DEF Inv,
       BaseType, Stamp, events, delivery, tick, PC, Event
  <2>2. Listing'
    BY <1>0, <1>1, <2>f, BoundsAssumption, EnabledAssumption DEF Inv,
       BaseType, Stamp, events, delivery, tick, Listing, Event
  <2>3. BatchComplete'
    BY <1>0, <1>1, <2>f, BoundsAssumption, EnabledAssumption DEF Inv,
       BaseType, Stamp, events, delivery, tick, BatchComplete, Event
  <2>4. AckedBefore'
    BY <2>f, <2>k, <2>u DEF Inv, Listing, AckedBefore, Delivering, HasCategory
  <2>5. ServedSoFar'
    BY <1>0, <1>1, <2>f, EnabledAssumption DEF Inv, BaseType, Stamp, events,
       delivery, tick, ServedSoFar, Delivering, Took, Event
  <2>6. PassingHandled'
    BY <2>f, <2>k, <2>u DEF Inv, Listing, PassingHandled, Reached, HasCategory
  <2>7. SendsCounted'
    <3>1. \A e1 \in Event, d \in Channel : Settled(e1, d) => Settled(e1, d)'
      BY <1>0, <1>1, <2>f, BoundsAssumption DEF Inv, BaseType, Stamp, events,
         delivery, tick, Settled, Event
    <3> QED
      BY <1>1, <3>1, CountKept DEF Stamp, events, delivery, tick
  <2> QED
    BY <2>1, <2>2, <2>3, <2>4, <2>5, <2>6, <2>7 DEF Inv
<1> QED
  BY <1>1

\* An event is committed, or gets old.
LEMMA EventStep ==
    ASSUME Inv, NEW e \in Event,
           \/ Commit(e) \/ GrowsOld(e)
    PROVE  Inv'
<1>0. /\ BaseType
      /\ batch # {} => /\ First \in batch /\ First \in Event /\ First \in written
                       /\ \A x \in batch : First <= x
  BY FirstIn DEF Inv
<1>1. CASE Commit(e)
  <2>f. First' = First /\ \A d : Before(d)' <=> Before(d)
    BY <1>1 DEF Commit, events, delivery, tick, First, Before
  <2>1. BaseType'
    BY <1>0, <1>1, <2>f, BoundsAssumption, EnabledAssumption DEF Inv,
       BaseType, Commit, events, delivery, tick, PC, Event
  <2>2. Listing'
    BY <1>0, <1>1, <2>f, BoundsAssumption, EnabledAssumption DEF Inv,
       BaseType, Commit, events, delivery, tick, Listing, Event
  <2>3. BatchComplete'
    BY <1>0, <1>1, <2>f, BoundsAssumption, EnabledAssumption DEF Inv,
       BaseType, Commit, events, delivery, tick, BatchComplete, Event
  <2>4. AckedBefore'
    BY <1>0, <1>1, <2>f, EnabledAssumption DEF Inv, BaseType, Commit, events,
       delivery, tick, AckedBefore, Delivering, HasCategory, Event
  <2>5. ServedSoFar'
    BY <1>0, <1>1, <2>f, EnabledAssumption DEF Inv, BaseType, Commit, events,
       delivery, tick, ServedSoFar, Delivering, Took, Event
  <2>6. PassingHandled'
    BY <1>0, <1>1, <2>f, EnabledAssumption DEF Inv, BaseType, Commit, events,
       delivery, tick, PassingHandled, Reached, HasCategory, Event
  <2>7. SendsCounted'
    <3>1. \A e1 \in Event, d \in Channel : Settled(e1, d) => Settled(e1, d)'
      BY <1>0, <1>1, <2>f, BoundsAssumption DEF Inv, BaseType, Commit, events,
         delivery, tick, Settled, Event
    <3> QED
      BY <1>1, <3>1, CountKept DEF Commit, events, delivery, tick
  <2> QED
    BY <2>1, <2>2, <2>3, <2>4, <2>5, <2>6, <2>7 DEF Inv
<1>2. CASE GrowsOld(e)
  <2>f. First' = First /\ \A d : Before(d)' <=> Before(d)
    BY <1>2 DEF GrowsOld, events, delivery, tick, First, Before
  <2>1. BaseType'
    BY <1>0, <1>2, <2>f, BoundsAssumption, EnabledAssumption DEF Inv,
       BaseType, GrowsOld, events, delivery, tick, PC, Event
  <2>2. Listing'
    BY <1>0, <1>2, <2>f, BoundsAssumption, EnabledAssumption DEF Inv,
       BaseType, GrowsOld, events, delivery, tick, Listing, Event
  <2>3. BatchComplete'
    BY <1>0, <1>2, <2>f, BoundsAssumption, EnabledAssumption DEF Inv,
       BaseType, GrowsOld, events, delivery, tick, BatchComplete, Event
  <2>4. AckedBefore'
    BY <1>0, <1>2, <2>f, EnabledAssumption DEF Inv, BaseType, GrowsOld,
       events, delivery, tick, AckedBefore, Delivering, HasCategory, Event
  <2>5. ServedSoFar'
    BY <1>0, <1>2, <2>f, EnabledAssumption DEF Inv, BaseType, GrowsOld,
       events, delivery, tick, ServedSoFar, Delivering, Took, Event
  <2>6. PassingHandled'
    BY <1>0, <1>2, <2>f, EnabledAssumption DEF Inv, BaseType, GrowsOld,
       events, delivery, tick, PassingHandled, Reached, HasCategory, Event
  <2>7. SendsCounted'
    <3>1. \A e1 \in Event, d \in Channel : Settled(e1, d) => Settled(e1, d)'
      BY <1>0, <1>2, <2>f, BoundsAssumption DEF Inv, BaseType, GrowsOld,
         events, delivery, tick, Settled, Event
    <3> QED
      BY <1>2, <3>1, CountKept DEF GrowsOld, events, delivery, tick
  <2> QED
    BY <2>1, <2>2, <2>3, <2>4, <2>5, <2>6, <2>7 DEF Inv
<1> QED
  BY <1>1, <1>2

\* A backoff ends, or a test notification is sent.
LEMMA ChannelStep ==
    ASSUME Inv, NEW c \in Channel,
           \/ BackoffEnds(c) \/ TestNotification(c)
    PROVE  Inv'
<1>0. /\ BaseType
      /\ batch # {} => /\ First \in batch /\ First \in Event /\ First \in written
                       /\ \A x \in batch : First <= x
  BY FirstIn DEF Inv
<1>1. CASE BackoffEnds(c)
  <2>f. First' = First /\ \A d : Before(d)' <=> Before(d)
    BY <1>1 DEF BackoffEnds, events, delivery, tick, First, Before
  <2>1. BaseType'
    BY <1>0, <1>1, <2>f, BoundsAssumption, EnabledAssumption DEF Inv,
       BaseType, BackoffEnds, events, delivery, tick, PC, Event
  <2>2. Listing'
    BY <1>0, <1>1, <2>f, BoundsAssumption, EnabledAssumption DEF Inv,
       BaseType, BackoffEnds, events, delivery, tick, Listing, Event
  <2>3. BatchComplete'
    BY <1>0, <1>1, <2>f, BoundsAssumption, EnabledAssumption DEF Inv,
       BaseType, BackoffEnds, events, delivery, tick, BatchComplete, Event
  <2>4. AckedBefore'
    BY <1>0, <1>1, <2>f, EnabledAssumption DEF Inv, BaseType, BackoffEnds,
       events, delivery, tick, AckedBefore, Delivering, HasCategory, Event
  <2>5. ServedSoFar'
    BY <1>0, <1>1, <2>f, EnabledAssumption DEF Inv, BaseType, BackoffEnds,
       events, delivery, tick, ServedSoFar, Delivering, Took, Event
  <2>6. PassingHandled'
    BY <1>0, <1>1, <2>f, EnabledAssumption DEF Inv, BaseType, BackoffEnds,
       events, delivery, tick, PassingHandled, Reached, HasCategory, Event
  <2>7. SendsCounted'
    <3>1. \A e1 \in Event, d \in Channel : Settled(e1, d) => Settled(e1, d)'
      BY <1>0, <1>1, <2>f, BoundsAssumption DEF Inv, BaseType, BackoffEnds,
         events, delivery, tick, Settled, Event
    <3> QED
      BY <1>1, <3>1, CountKept DEF BackoffEnds, events, delivery, tick
  <2> QED
    BY <2>1, <2>2, <2>3, <2>4, <2>5, <2>6, <2>7 DEF Inv
<1>2. CASE TestNotification(c)
  <2>f. First' = First /\ \A d : Before(d)' <=> Before(d)
    BY <1>2 DEF TestNotification, events, delivery, tick, First, Before
  <2>1. BaseType'
    BY <1>0, <1>2, <2>f, BoundsAssumption, EnabledAssumption DEF Inv,
       BaseType, TestNotification, events, delivery, tick, PC, Event
  <2>2. Listing'
    BY <1>0, <1>2, <2>f, BoundsAssumption, EnabledAssumption DEF Inv,
       BaseType, TestNotification, events, delivery, tick, Listing, Event
  <2>3. BatchComplete'
    BY <1>0, <1>2, <2>f, BoundsAssumption, EnabledAssumption DEF Inv,
       BaseType, TestNotification, events, delivery, tick, BatchComplete, Event
  <2>4. AckedBefore'
    BY <1>0, <1>2, <2>f, EnabledAssumption DEF Inv, BaseType,
       TestNotification, events, delivery, tick, AckedBefore, Delivering,
       HasCategory, Event
  <2>5. ServedSoFar'
    BY <1>0, <1>2, <2>f, EnabledAssumption DEF Inv, BaseType,
       TestNotification, events, delivery, tick, ServedSoFar, Delivering,
       Took, Event
  <2>6. PassingHandled'
    BY <1>0, <1>2, <2>f, EnabledAssumption DEF Inv, BaseType,
       TestNotification, events, delivery, tick, PassingHandled, Reached,
       HasCategory, Event
  <2>7. SendsCounted'
    <3>1. \A e1 \in Event, d \in Channel : Settled(e1, d) => Settled(e1, d)'
      BY <1>0, <1>2, <2>f, BoundsAssumption DEF Inv, BaseType,
         TestNotification, events, delivery, tick, Settled, Event
    <3> QED
      BY <1>2, <3>1, CountKept DEF TestNotification, events, delivery, tick
  <2> QED
    BY <2>1, <2>2, <2>3, <2>4, <2>5, <2>6, <2>7 DEF Inv
<1> QED
  BY <1>1, <1>2

\* A notifier forgets a message.
LEMMA CooldownStep ==
    ASSUME Inv, NEW c \in Channel, NEW m \in Text,
           CooldownEnds(c, m)
    PROVE  Inv'
<1>0. /\ BaseType
      /\ batch # {} => /\ First \in batch /\ First \in Event /\ First \in written
                       /\ \A x \in batch : First <= x
  BY FirstIn DEF Inv
<1>1. CASE CooldownEnds(c, m)
  <2>f. First' = First /\ \A d : Before(d)' <=> Before(d)
    BY <1>1 DEF CooldownEnds, events, delivery, tick, First, Before
  <2>1. BaseType'
    BY <1>0, <1>1, <2>f, BoundsAssumption, EnabledAssumption DEF Inv,
       BaseType, CooldownEnds, events, delivery, tick, PC, Event
  <2>2. Listing'
    BY <1>0, <1>1, <2>f, BoundsAssumption, EnabledAssumption DEF Inv,
       BaseType, CooldownEnds, events, delivery, tick, Listing, Event
  <2>3. BatchComplete'
    BY <1>0, <1>1, <2>f, BoundsAssumption, EnabledAssumption DEF Inv,
       BaseType, CooldownEnds, events, delivery, tick, BatchComplete, Event
  <2>4. AckedBefore'
    BY <1>0, <1>1, <2>f, EnabledAssumption DEF Inv, BaseType, CooldownEnds,
       events, delivery, tick, AckedBefore, Delivering, HasCategory, Event
  <2>5. ServedSoFar'
    BY <1>0, <1>1, <2>f, EnabledAssumption DEF Inv, BaseType, CooldownEnds,
       events, delivery, tick, ServedSoFar, Delivering, Took, Event
  <2>6. PassingHandled'
    BY <1>0, <1>1, <2>f, EnabledAssumption DEF Inv, BaseType, CooldownEnds,
       events, delivery, tick, PassingHandled, Reached, HasCategory, Event
  <2>7. SendsCounted'
    <3>1. \A e1 \in Event, d \in Channel : Settled(e1, d) => Settled(e1, d)'
      BY <1>0, <1>1, <2>f, BoundsAssumption DEF Inv, BaseType, CooldownEnds,
         events, delivery, tick, Settled, Event
    <3> QED
      BY <1>1, <3>1, CountKept DEF CooldownEnds, events, delivery, tick
  <2> QED
    BY <2>1, <2>2, <2>3, <2>4, <2>5, <2>6, <2>7 DEF Inv
<1> QED
  BY <1>1

-----------------------------------------------------------------------------
(* The service.                                                            *)

\* The service starts, its tick fails, or it stops.
LEMMA FaultStep ==
    ASSUME Inv,
           \/ Setup \/ TickFails \/ Stop
    PROVE  Inv'
<1>0. /\ BaseType
      /\ batch # {} => /\ First \in batch /\ First \in Event /\ First \in written
                       /\ \A x \in batch : First <= x
  BY FirstIn DEF Inv
<1>1. CASE Setup
  <2>f. First' = First /\ \A d : Before(d)' <=> Before(d)
    BY <1>1 DEF Setup, events, delivery, tick, First, Before
  <2>c. cursor' \in 0..MaxEvent /\ cursor <= cursor' /\ batch' = batch
    <3>1. CASE cursor = 0 /\ written # {}
      <4>1. written \in SUBSET (0..MaxEvent)
        BY <1>0, BoundsAssumption DEF BaseType
      <4>2. Max(written) \in written
        BY <3>1, <4>1, MaxIn, BoundsAssumption
      <4>3. cursor' = Max(written) /\ batch' = batch
        BY <1>1, <3>1 DEF Setup
      <4>4. cursor' \in 0..MaxEvent
        BY <4>1, <4>2, <4>3
      <4> QED
        BY <3>1, <4>3, <4>4, BoundsAssumption
    <3>2. CASE ~(cursor = 0 /\ written # {})
      BY <1>0, <1>1, <3>2 DEF BaseType, Setup
    <3> QED
      BY <3>1, <3>2
  <2>1. BaseType'
    BY <1>0, <1>1, <2>f, <2>c, BoundsAssumption, EnabledAssumption DEF Inv,
       BaseType, Setup, events, delivery, tick, PC, Event
  <2>2. Listing'
    BY <1>0, <1>1, <2>f, <2>c, BoundsAssumption, EnabledAssumption DEF Inv,
       BaseType, Setup, events, delivery, tick, Listing, Event
  <2>3. BatchComplete'
    BY <1>0, <1>1, <2>f, <2>c, BoundsAssumption, EnabledAssumption DEF Inv,
       BaseType, Setup, events, delivery, tick, BatchComplete, Event
  <2>4. AckedBefore'
    BY <1>0, <1>1, <2>f, <2>c, EnabledAssumption DEF Inv, BaseType, Setup,
       events, delivery, tick, AckedBefore, Delivering, HasCategory, Event
  <2>5. ServedSoFar'
    BY <1>0, <1>1, <2>f, <2>c, EnabledAssumption DEF Inv, BaseType, Setup,
       events, delivery, tick, ServedSoFar, Delivering, Took, Event
  <2>6. PassingHandled'
    BY <1>0, <1>1, <2>f, <2>c, EnabledAssumption DEF Inv, BaseType, Setup,
       events, delivery, tick, PassingHandled, Reached, HasCategory, Event
  <2>7. SendsCounted'
    <3>1. \A e1 \in Event, d \in Channel : Settled(e1, d) => Settled(e1, d)'
      BY <1>0, <1>1, <2>f, <2>c, BoundsAssumption DEF Inv, BaseType, Setup,
         events, delivery, tick, Settled, Event
    <3> QED
      BY <1>1, <3>1, CountKept DEF Setup, events, delivery, tick
  <2> QED
    BY <2>1, <2>2, <2>3, <2>4, <2>5, <2>6, <2>7 DEF Inv
<1>2. CASE TickFails
  <2>1. BaseType'
    <3>1. /\ stamped' \in 0..MaxEvent /\ kind' \in [Event -> Text \cup {Noise}]
          /\ written' \subseteq 1..stamped' /\ written \subseteq written'
          /\ stamped <= stamped'
      <4>1. CASE stamped < MaxEvent
        <5>1. PICK m \in Text : /\ stamped' = stamped + 1
                                /\ kind' = [kind EXCEPT ![stamped + 1] = m]
                                /\ written' = written \cup {stamped + 1}
          BY <1>2, <4>1 DEF TickFails
        <5>2. stamped + 1 \in 1..MaxEvent /\ stamped' \in 0..MaxEvent
          BY <1>0, <4>1, <5>1, BoundsAssumption DEF BaseType
        <5>3. kind' \in [Event -> Text \cup {Noise}]
          BY <1>0, <5>1, <5>2 DEF BaseType, Event
        <5>4. written' \subseteq 1..stamped'
          BY <1>0, <5>1, <5>2, BoundsAssumption DEF BaseType
        <5> QED
          BY <5>1, <5>2, <5>3, <5>4, <1>0, BoundsAssumption DEF BaseType
      <4>2. CASE ~(stamped < MaxEvent)
        <5>1. UNCHANGED <<stamped, kind, written>>
          BY <1>2, <4>2 DEF TickFails
        <5> QED
          BY <1>0, <5>1, BoundsAssumption DEF BaseType
      <4> QED
        BY <4>1, <4>2
    <3>2. /\ faults' \in 0..MaxFault /\ pc' \in PC /\ batch' = {}
      BY <1>0, <1>2, BoundsAssumption DEF BaseType, TickFails, PC
    <3>3. UNCHANGED <<late, old, cursor, acks, backoff, hot, sends, acknowledged, at,
                      delivered>>
      BY <1>2 DEF TickFails, delivery
    <3>4. old' \subseteq 1..stamped'
      BY <1>0, <3>1, <3>3, BoundsAssumption DEF BaseType
    <3> QED
      BY <1>0, <3>1, <3>2, <3>3, <3>4 DEF BaseType
  <2>2. Listing'
    BY <1>0, <1>2, BoundsAssumption, EnabledAssumption DEF Inv, BaseType,
       TickFails, events, delivery, tick, Listing, Event
  <2>3. BatchComplete'
    BY <1>0, <1>2, BoundsAssumption, EnabledAssumption DEF Inv, BaseType,
       TickFails, events, delivery, tick, BatchComplete, Event
  <2>4. AckedBefore'
    BY <1>0, <1>2, EnabledAssumption DEF Inv, BaseType, TickFails, events,
       delivery, tick, AckedBefore, Delivering, HasCategory, Event
  <2>5. ServedSoFar'
    BY <1>0, <1>2, EnabledAssumption DEF Inv, BaseType, TickFails, events,
       delivery, tick, ServedSoFar, Delivering, Took, Event
  <2>6. PassingHandled'
    BY <1>0, <1>2, EnabledAssumption DEF Inv, BaseType, TickFails, events,
       delivery, tick, PassingHandled, Reached, HasCategory, Event
  <2>7. SendsCounted'
    BY <1>2, CountFault DEF TickFails, events, delivery, tick
  <2> QED
    BY <2>1, <2>2, <2>3, <2>4, <2>5, <2>6, <2>7 DEF Inv
<1>3. CASE Stop
  <2>1. BaseType'
    BY <1>0, <1>3, BoundsAssumption, EnabledAssumption DEF Inv, BaseType,
       Stop, events, delivery, tick, PC, Event
  <2>2. Listing'
    BY <1>0, <1>3, BoundsAssumption, EnabledAssumption DEF Inv, BaseType,
       Stop, events, delivery, tick, Listing, Event
  <2>3. BatchComplete'
    BY <1>0, <1>3, BoundsAssumption, EnabledAssumption DEF Inv, BaseType,
       Stop, events, delivery, tick, BatchComplete, Event
  <2>4. AckedBefore'
    BY <1>0, <1>3, EnabledAssumption DEF Inv, BaseType, Stop, events,
       delivery, tick, AckedBefore, Delivering, HasCategory, Event
  <2>5. ServedSoFar'
    BY <1>0, <1>3, EnabledAssumption DEF Inv, BaseType, Stop, events,
       delivery, tick, ServedSoFar, Delivering, Took, Event
  <2>6. PassingHandled'
    BY <1>0, <1>3, EnabledAssumption DEF Inv, BaseType, Stop, events,
       delivery, tick, PassingHandled, Reached, HasCategory, Event
  <2>7. SendsCounted'
    BY <1>3, CountFault DEF Stop, events, delivery, tick
  <2> QED
    BY <2>1, <2>2, <2>3, <2>4, <2>5, <2>6, <2>7 DEF Inv
<1> QED
  BY <1>1, <1>2, <1>3

\* The list, and the events that are passed over.
LEMMA ListStep ==
    ASSUME Inv,
           \/ BeginTick \/ PassOver \/ BeginDeliver
    PROVE  Inv'
<1>0. /\ BaseType
      /\ batch # {} => /\ First \in batch /\ First \in Event /\ First \in written
                       /\ \A x \in batch : First <= x
  BY FirstIn DEF Inv
<1>1. CASE BeginTick
  <2>1. BaseType'
    BY <1>0, <1>1, BoundsAssumption, EnabledAssumption DEF Inv, BaseType,
       BeginTick, events, delivery, tick, PC, Event
  <2>2. Listing'
    BY <1>0, <1>1, BoundsAssumption, EnabledAssumption DEF Inv, BaseType,
       BeginTick, events, delivery, tick, Listing, Event
  <2>3. BatchComplete'
    BY <1>0, <1>1, BoundsAssumption, EnabledAssumption DEF Inv, BaseType,
       BeginTick, events, delivery, tick, BatchComplete, Event
  <2>4. AckedBefore'
    BY <1>0, <1>1, EnabledAssumption DEF Inv, BaseType, BeginTick, events,
       delivery, tick, AckedBefore, Delivering, HasCategory, Event
  <2>5. ServedSoFar'
    BY <1>0, <1>1, EnabledAssumption DEF Inv, BaseType, BeginTick, events,
       delivery, tick, ServedSoFar, Delivering, Took, Event
  <2>6. PassingHandled'
    BY <1>0, <1>1, EnabledAssumption DEF Inv, BaseType, BeginTick, events,
       delivery, tick, PassingHandled, Reached, HasCategory, Event
  <2>7. SendsCounted'
    <3>1. \A e1 \in Event, d \in Channel : Settled(e1, d) => Settled(e1, d)'
      BY <1>0, <1>1, BoundsAssumption DEF Inv, BaseType, BeginTick, events,
         delivery, tick, Settled, Event
    <3> QED
      BY <1>1, <3>1, CountKept DEF BeginTick, events, delivery, tick
  <2> QED
    BY <2>1, <2>2, <2>3, <2>4, <2>5, <2>6, <2>7 DEF Inv
<1>2. CASE PassOver
  <2>f. First' = First /\ \A d : Before(d)' <=> Before(d)
    BY <1>2 DEF PassOver, IsStale, events, delivery, tick, First, Before
  <2>1. BaseType'
    BY <1>0, <1>2, <2>f, BoundsAssumption, EnabledAssumption DEF Inv,
       BaseType, PassOver, IsStale, events, delivery, tick, PC, Event
  <2>2. Listing'
    BY <1>0, <1>2, <2>f, BoundsAssumption, EnabledAssumption DEF Inv,
       BaseType, PassOver, IsStale, events, delivery, tick, Listing, Event
  <2>3. BatchComplete'
    BY <1>0, <1>2, <2>f, BoundsAssumption, EnabledAssumption DEF Inv,
       BaseType, PassOver, IsStale, events, delivery, tick, BatchComplete, Event
  <2>4. AckedBefore'
    BY <1>0, <1>2, <2>f, EnabledAssumption DEF Inv, BaseType, PassOver,
       IsStale, events, delivery, tick, AckedBefore, Delivering, HasCategory,
       Event
  <2>5. ServedSoFar'
    BY <1>0, <1>2, <2>f, EnabledAssumption DEF Inv, BaseType, PassOver,
       IsStale, events, delivery, tick, ServedSoFar, Delivering, Took, Event
  <2>6. PassingHandled'
    BY <1>0, <1>2, <2>f, EnabledAssumption DEF Inv, BaseType, PassOver,
       IsStale, events, delivery, tick, PassingHandled, Reached, HasCategory,
       Event
  <2>7. SendsCounted'
    <3>1. \A e1 \in Event, d \in Channel : Settled(e1, d) => Settled(e1, d)'
      BY <1>0, <1>2, <2>f, BoundsAssumption DEF Inv, BaseType, PassOver,
         IsStale, events, delivery, tick, Settled, Event
    <3> QED
      BY <1>2, <3>1, CountKept DEF PassOver, IsStale, events, delivery, tick
  <2> QED
    BY <2>1, <2>2, <2>3, <2>4, <2>5, <2>6, <2>7 DEF Inv
<1>3. CASE BeginDeliver
  <2>f. First' = First /\ \A d : ~Before(d)'
    BY <1>3 DEF BeginDeliver, First, Before
  <2>1. BaseType'
    BY <1>0, <1>3, <2>f, BoundsAssumption, EnabledAssumption DEF Inv,
       BaseType, BeginDeliver, Acknowledged, events, delivery, tick, PC, Event
  <2>2. Listing'
    BY <1>0, <1>3, <2>f, BoundsAssumption, EnabledAssumption DEF Inv,
       BaseType, BeginDeliver, Acknowledged, events, delivery, tick, Listing,
       Event
  <2>3. BatchComplete'
    BY <1>0, <1>3, <2>f, BoundsAssumption, EnabledAssumption DEF Inv,
       BaseType, BeginDeliver, Acknowledged, events, delivery, tick,
       BatchComplete, Event
  <2>4. AckedBefore'
    BY <1>0, <1>3, <2>f, EnabledAssumption DEF Inv, BaseType, BeginDeliver,
       Acknowledged, events, delivery, tick, AckedBefore, Delivering,
       HasCategory, Event
  <2>5. ServedSoFar'
    BY <1>0, <1>3, <2>f, EnabledAssumption DEF Inv, BaseType, BeginDeliver,
       Acknowledged, events, delivery, tick, ServedSoFar, Delivering, Took, Event
  <2>6. PassingHandled'
    BY <1>0, <1>3, <2>f, EnabledAssumption DEF Inv, BaseType, BeginDeliver,
       Acknowledged, events, delivery, tick, PassingHandled, Reached,
       HasCategory, Event
  <2>7. SendsCounted'
    <3>1. \A e1 \in Event, d \in Channel : Settled(e1, d) => Settled(e1, d)'
      BY <1>0, <1>3, <2>f, BoundsAssumption DEF Inv, BaseType, BeginDeliver,
         Acknowledged, events, delivery, tick, Settled, Event
    <3> QED
      BY <1>3, <3>1, CountKept DEF BeginDeliver, Acknowledged, events,
         delivery, tick
  <2> QED
    BY <2>1, <2>2, <2>3, <2>4, <2>5, <2>6, <2>7 DEF Inv
<1> QED
  BY <1>1, <1>2, <1>3

\* A channel has its turn.
LEMMA TurnStep ==
    ASSUME Inv, NEW c \in Channel,
           \/ SkipChannel(c) \/ WaitForRetry(c) \/ Suppress(c)
           \/ SendSucceeds(c) \/ SendFails(c)
    PROVE  Inv'
<1>0. /\ BaseType
      /\ batch # {} => /\ First \in batch /\ First \in Event /\ First \in written
                       /\ \A x \in batch : First <= x
  BY FirstIn DEF Inv
<1>1. CASE SkipChannel(c)
  <2>f. First' = First /\ at \in 1..2 /\ at' = at + 1 /\ Order[at] = c
        /\ at' \in 1..3
    BY <1>0, <1>1, OrderFacts DEF BaseType, SkipChannel, At, Wanted, First
  <2>b. \A d : Before(d)' <=> Before(d) \/ d = Order[at]
    BY <2>f, BeforeNext
  <2>1. BaseType'
    BY <1>0, <1>1, <2>f, <2>b, BoundsAssumption, EnabledAssumption DEF Inv,
       BaseType, SkipChannel, At, Wanted, events, delivery, tick, PC, Event
  <2>2. Listing'
    BY <1>0, <1>1, <2>f, <2>b, BoundsAssumption, EnabledAssumption DEF Inv,
       BaseType, SkipChannel, At, Wanted, events, delivery, tick, Listing, Event
  <2>3. BatchComplete'
    BY <1>0, <1>1, <2>f, <2>b, BoundsAssumption, EnabledAssumption DEF Inv,
       BaseType, SkipChannel, At, Wanted, events, delivery, tick,
       BatchComplete, Event
  <2>4. AckedBefore'
    BY <1>0, <1>1, <2>f, <2>b, EnabledAssumption DEF Inv, BaseType,
       SkipChannel, At, Wanted, events, delivery, tick, AckedBefore,
       Delivering, HasCategory, Event
  <2>5. ServedSoFar'
    <3> SUFFICES ASSUME delivered, NEW d \in Enabled, Before(d)'
                 PROVE  Took(First, d)
      BY <1>1, <2>f DEF ServedSoFar, SkipChannel, Took, delivery
    <3>1. CASE Before(d)
      BY <1>1, <3>1 DEF Inv, ServedSoFar, SkipChannel, Delivering
    <3>2. CASE d = c
      <4>1. d \in acknowledged
        BY <1>1, <3>2 DEF SkipChannel, Wanted
      <4> QED
        BY <1>1, <4>1 DEF Inv, AckedBefore, SkipChannel, Delivering, Took
    <3> QED
      BY <2>f, <2>b, <3>1, <3>2
  <2>6. PassingHandled'
    BY <1>0, <1>1, <2>f, <2>b, EnabledAssumption DEF Inv, BaseType,
       SkipChannel, At, Wanted, events, delivery, tick, PassingHandled,
       Reached, HasCategory, Event
  <2>7. SendsCounted'
    <3>1. \A e1 \in Event, d \in Channel : Settled(e1, d) => Settled(e1, d)'
      BY <1>0, <1>1, <2>f, <2>b, BoundsAssumption DEF Inv, BaseType,
         SkipChannel, At, Wanted, events, delivery, tick, Settled, Event
    <3> QED
      BY <1>1, <3>1, CountKept DEF SkipChannel, At, Wanted, events, delivery, tick
  <2> QED
    BY <2>1, <2>2, <2>3, <2>4, <2>5, <2>6, <2>7 DEF Inv
<1>2. CASE WaitForRetry(c)
  <2>f. First' = First /\ at \in 1..2 /\ at' = at + 1 /\ Order[at] = c
        /\ at' \in 1..3
    BY <1>0, <1>2, OrderFacts DEF BaseType, WaitForRetry, At, Wanted, First
  <2>b. \A d : Before(d)' <=> Before(d) \/ d = Order[at]
    BY <2>f, BeforeNext
  <2>1. BaseType'
    BY <1>0, <1>2, <2>f, <2>b, BoundsAssumption, EnabledAssumption DEF Inv,
       BaseType, WaitForRetry, At, Wanted, events, delivery, tick, PC, Event
  <2>2. Listing'
    BY <1>0, <1>2, <2>f, <2>b, BoundsAssumption, EnabledAssumption DEF Inv,
       BaseType, WaitForRetry, At, Wanted, events, delivery, tick, Listing, Event
  <2>3. BatchComplete'
    BY <1>0, <1>2, <2>f, <2>b, BoundsAssumption, EnabledAssumption DEF Inv,
       BaseType, WaitForRetry, At, Wanted, events, delivery, tick,
       BatchComplete, Event
  <2>4. AckedBefore'
    BY <1>0, <1>2, <2>f, <2>b, EnabledAssumption DEF Inv, BaseType,
       WaitForRetry, At, Wanted, events, delivery, tick, AckedBefore,
       Delivering, HasCategory, Event
  <2>5. ServedSoFar'
    BY <1>0, <1>2, <2>f, <2>b, EnabledAssumption DEF Inv, BaseType,
       WaitForRetry, At, Wanted, events, delivery, tick, ServedSoFar,
       Delivering, Took, Event
  <2>6. PassingHandled'
    BY <1>0, <1>2, <2>f, <2>b, EnabledAssumption DEF Inv, BaseType,
       WaitForRetry, At, Wanted, events, delivery, tick, PassingHandled,
       Reached, HasCategory, Event
  <2>7. SendsCounted'
    <3>1. \A e1 \in Event, d \in Channel : Settled(e1, d) => Settled(e1, d)'
      BY <1>0, <1>2, <2>f, <2>b, BoundsAssumption DEF Inv, BaseType,
         WaitForRetry, At, Wanted, events, delivery, tick, Settled, Event
    <3> QED
      BY <1>2, <3>1, CountKept DEF WaitForRetry, At, Wanted, events, delivery,
         tick
  <2> QED
    BY <2>1, <2>2, <2>3, <2>4, <2>5, <2>6, <2>7 DEF Inv
<1>3. CASE Suppress(c)
  <2>f. First' = First /\ at \in 1..2 /\ at' = at + 1 /\ Order[at] = c
        /\ at' \in 1..3
    BY <1>0, <1>3, OrderFacts DEF BaseType, Suppress, At, Wanted, First
  <2>b. \A d : Before(d)' <=> Before(d) \/ d = Order[at]
    BY <2>f, BeforeNext
  <2>1. BaseType'
    <3>1. acks' \subseteq Event \X Channel
      <4>1. First \in Event /\ c \in Channel
        BY <1>0, <1>3, <2>f, OrderFacts DEF Inv, Listing, Suppress
      <4> QED
        BY <1>0, <1>3, <4>1 DEF Suppress, BaseType
    <3> QED
      BY <1>0, <1>3, <2>f, <3>1 DEF BaseType, Suppress, events, PC
  <2>2. Listing'
    BY <1>0, <1>3, <2>f, <2>b, BoundsAssumption, EnabledAssumption DEF Inv,
       BaseType, Suppress, At, Wanted, events, delivery, tick, Listing, Event
  <2>3. BatchComplete'
    BY <1>0, <1>3, <2>f, <2>b, BoundsAssumption, EnabledAssumption DEF Inv,
       BaseType, Suppress, At, Wanted, events, delivery, tick, BatchComplete,
       Event
  <2>4. AckedBefore'
    BY <1>0, <1>3, <2>f, <2>b, EnabledAssumption DEF Inv, BaseType, Suppress,
       At, Wanted, events, delivery, tick, AckedBefore, Delivering,
       HasCategory, Event
  <2>5. ServedSoFar'
    BY <1>0, <1>3, <2>f, <2>b, EnabledAssumption DEF Inv, BaseType, Suppress,
       At, Wanted, events, delivery, tick, ServedSoFar, Delivering, Took, Event
  <2>6. PassingHandled'
    BY <1>0, <1>3, <2>f, <2>b, EnabledAssumption DEF Inv, BaseType, Suppress,
       At, Wanted, events, delivery, tick, PassingHandled, Reached,
       HasCategory, Event
  <2>7. SendsCounted'
    <3>1. \A e1 \in Event, d \in Channel : Settled(e1, d) => Settled(e1, d)'
      BY <1>0, <1>3, <2>f, <2>b, BoundsAssumption DEF Inv, BaseType, Suppress,
         At, Wanted, events, delivery, tick, Settled, Event
    <3> QED
      BY <1>3, <3>1, CountKept DEF Suppress, At, Wanted, events, delivery, tick
  <2> QED
    BY <2>1, <2>2, <2>3, <2>4, <2>5, <2>6, <2>7 DEF Inv
<1>4. CASE SendSucceeds(c)
  <2>f. First' = First /\ \A d : Before(d)' <=> Before(d)
    BY <1>4 DEF SendSucceeds, Sends, At, Wanted, events, delivery, tick,
       First, Before
  <2>s. /\ at \in 1..2 /\ c = Order[at] /\ First \in Event
        /\ sends[<<First, c>>] <= faults
    BY <1>4, TurnIsUnsettled DEF SendSucceeds, Sends
  <2>t. /\ sends' \in [Event \X Channel -> Nat]
        /\ \A x \in Event, d \in Channel :
              /\ sends[<<x, d>>] \in Nat
              /\ sends'[<<x, d>>] = IF x = First /\ d = c THEN sends[<<x, d>>] + 1
                                    ELSE sends[<<x, d>>]
    BY <1>0, <1>4, <2>s, SendsType DEF SendSucceeds
  <2>1. BaseType'
    <3>1. hot' \in [Channel -> SUBSET Text]
      <4>1. kind[First] \in Text
        BY <1>0, <1>4, <2>s DEF Inv, BaseType, AckedBefore,
           SendSucceeds, Sends, Delivering, HasCategory
      <4> QED
        BY <1>0, <1>4, <4>1 DEF BaseType, SendSucceeds
    <3> QED
      BY <1>0, <1>4, <2>t, <3>1 DEF BaseType, SendSucceeds, events, delivery, PC
  <2>2. Listing'
    BY <1>0, <1>4, <2>f, <2>s, <2>t, BoundsAssumption, EnabledAssumption
       DEF Inv, BaseType, SendSucceeds, Sends, At, Wanted, events, delivery,
       tick, Listing, Event
  <2>3. BatchComplete'
    BY <1>0, <1>4, <2>f, <2>s, <2>t, BoundsAssumption, EnabledAssumption
       DEF Inv, BaseType, SendSucceeds, Sends, At, Wanted, events, delivery,
       tick, BatchComplete, Event
  <2>4. AckedBefore'
    BY <1>0, <1>4, <2>f, <2>s, <2>t, EnabledAssumption DEF Inv, BaseType,
       SendSucceeds, Sends, At, Wanted, events, delivery, tick, AckedBefore,
       Delivering, HasCategory, Event
  <2>5. ServedSoFar'
    BY <1>0, <1>4, <2>f, <2>s, <2>t, EnabledAssumption DEF Inv, BaseType,
       SendSucceeds, Sends, At, Wanted, events, delivery, tick, ServedSoFar,
       Delivering, Took, Event
  <2>6. PassingHandled'
    BY <1>0, <1>4, <2>f, <2>s, <2>t, EnabledAssumption DEF Inv, BaseType,
       SendSucceeds, Sends, At, Wanted, events, delivery, tick,
       PassingHandled, Reached, HasCategory, Event
  <2>7. SendsCounted'
    <3>1. /\ faults' = faults /\ faults \in Nat
          /\ \A x \in Event, d \in Channel : Settled(x, d) => Settled(x, d)'
      BY <1>0, <1>4, <2>f, <2>s, BoundsAssumption
         DEF BaseType, SendSucceeds, Sends, Settled, delivery, tick
    <3> SUFFICES ASSUME NEW x \in Event, NEW d \in Channel
                 PROVE  /\ sends'[<<x, d>>] <= 1 + faults'
                        /\ ~Settled(x, d)' => sends'[<<x, d>>] <= faults'
      BY DEF SendsCounted
    <3>2. CASE x = First /\ d = c
      <4>1. sends'[<<x, d>>] = sends[<<x, d>>] + 1 /\ sends[<<x, d>>] \in Nat
        BY <2>t, <3>2
      <4>2. sends[<<x, d>>] <= faults
        BY <2>s, <3>2
      <4>3. Settled(x, d)'
        BY <1>4, <2>f, <2>s, <3>2 DEF Settled, SendSucceeds
      <4>4. sends'[<<x, d>>] <= 1 + faults'
        BY <3>1, <4>1, <4>2
      <4> QED
        BY <4>3, <4>4
    <3>3. CASE ~(x = First /\ d = c)
      BY <2>t, <3>1, <3>3 DEF Inv, SendsCounted
    <3> QED
      BY <3>2, <3>3
  <2> QED
    BY <2>1, <2>2, <2>3, <2>4, <2>5, <2>6, <2>7 DEF Inv
<1>5. CASE SendFails(c)
  <2>f. First' = First /\ at \in 1..2 /\ at' = at + 1 /\ Order[at] = c
        /\ at' \in 1..3
    BY <1>0, <1>5, OrderFacts DEF BaseType, SendFails, Sends, At, Wanted, First
  <2>b. \A d : Before(d)' <=> Before(d) \/ d = Order[at]
    BY <2>f, BeforeNext
  <2>s. First \in Event /\ sends[<<First, c>>] <= faults
    BY <1>5, TurnIsUnsettled DEF SendFails, Sends
  <2>t. /\ sends' \in [Event \X Channel -> Nat] /\ faults' \in 0..MaxFault
        /\ faults <= faults' /\ faults \in Nat
        /\ \A x \in Event, d \in Channel :
              /\ sends[<<x, d>>] \in Nat
              /\ \/ sends'[<<x, d>>] = sends[<<x, d>>]
                 \/ /\ x = First /\ d = c /\ faults' = faults + 1
                    /\ sends'[<<x, d>>] = sends[<<x, d>>] + 1
    <3>1. CASE UNCHANGED <<sends, faults>>
      BY <1>0, <3>1, BoundsAssumption DEF BaseType
    <3>2. CASE /\ faults < MaxFault
               /\ faults' = faults + 1
               /\ sends' = [sends EXCEPT ![<<First, c>>] = @ + 1]
      <4>1. /\ sends' \in [Event \X Channel -> Nat]
            /\ \A x \in Event, d \in Channel :
                  /\ sends[<<x, d>>] \in Nat
                  /\ sends'[<<x, d>>] = IF x = First /\ d = c THEN sends[<<x, d>>] + 1
                                        ELSE sends[<<x, d>>]
        BY <1>0, <2>s, <3>2, SendsType
      <4>2. faults' \in 0..MaxFault /\ faults <= faults' /\ faults \in Nat
        BY <1>0, <3>2, BoundsAssumption DEF BaseType
      <4> QED
        BY <3>2, <4>1, <4>2
    <3> QED
      BY <1>5, <3>1, <3>2 DEF SendFails
  <2>1. BaseType'
    BY <1>0, <1>5, <2>f, <2>b, <2>s, <2>t, BoundsAssumption,
       EnabledAssumption DEF Inv, BaseType, SendFails, Sends, At, Wanted,
       events, delivery, tick, PC, Event
  <2>2. Listing'
    BY <1>0, <1>5, <2>f, <2>b, <2>s, <2>t, BoundsAssumption,
       EnabledAssumption DEF Inv, BaseType, SendFails, Sends, At, Wanted,
       events, delivery, tick, Listing, Event
  <2>3. BatchComplete'
    BY <1>0, <1>5, <2>f, <2>b, <2>s, <2>t, BoundsAssumption,
       EnabledAssumption DEF Inv, BaseType, SendFails, Sends, At, Wanted,
       events, delivery, tick, BatchComplete, Event
  <2>4. AckedBefore'
    BY <1>0, <1>5, <2>f, <2>b, <2>s, <2>t, EnabledAssumption DEF Inv,
       BaseType, SendFails, Sends, At, Wanted, events, delivery, tick,
       AckedBefore, Delivering, HasCategory, Event
  <2>5. ServedSoFar'
    BY <1>0, <1>5, <2>f, <2>b, <2>s, <2>t, EnabledAssumption DEF Inv,
       BaseType, SendFails, Sends, At, Wanted, events, delivery, tick,
       ServedSoFar, Delivering, Took, Event
  <2>6. PassingHandled'
    BY <1>0, <1>5, <2>f, <2>b, <2>s, <2>t, EnabledAssumption DEF Inv,
       BaseType, SendFails, Sends, At, Wanted, events, delivery, tick,
       PassingHandled, Reached, HasCategory, Event
  <2>7. SendsCounted'
    <3>1. \A x \in Event, d \in Channel : Settled(x, d) => Settled(x, d)'
      BY <1>0, <1>5, <2>f DEF BaseType, SendFails, Sends, Settled
    <3> SUFFICES ASSUME NEW x \in Event, NEW d \in Channel
                 PROVE  /\ sends'[<<x, d>>] <= 1 + faults'
                        /\ ~Settled(x, d)' => sends'[<<x, d>>] <= faults'
      BY DEF SendsCounted
    <3>2. /\ sends[<<x, d>>] <= 1 + faults
          /\ ~Settled(x, d) => sends[<<x, d>>] <= faults
      BY DEF Inv, SendsCounted
    <3>3. faults' \in Nat
      BY <2>t, BoundsAssumption
    <3> QED
      BY <2>s, <2>t, <3>1, <3>2, <3>3
  <2> QED
    BY <2>1, <2>2, <2>3, <2>4, <2>5, <2>6, <2>7 DEF Inv
<1> QED
  BY <1>1, <1>2, <1>3, <1>4, <1>5

\* A message is recorded and acknowledged; the cursor advances.
LEMMA RecordStep ==
    ASSUME Inv,
           \/ RecordSuccess \/ Acknowledge \/ AllChannelsDone \/ AdvanceCursor
    PROVE  Inv'
<1>0. /\ BaseType
      /\ batch # {} => /\ First \in batch /\ First \in Event /\ First \in written
                       /\ \A x \in batch : First <= x
  BY FirstIn DEF Inv
<1>1. CASE RecordSuccess
  <2>f. First' = First /\ \A d : Before(d)' <=> Before(d)
    BY <1>1 DEF RecordSuccess, events, delivery, tick, First, Before
  <2>1. BaseType'
    BY <1>0, <1>1, <2>f, BoundsAssumption, EnabledAssumption DEF Inv,
       BaseType, RecordSuccess, events, delivery, tick, PC, Event
  <2>2. Listing'
    BY <1>0, <1>1, <2>f, BoundsAssumption, EnabledAssumption DEF Inv,
       BaseType, RecordSuccess, events, delivery, tick, Listing, Event
  <2>3. BatchComplete'
    BY <1>0, <1>1, <2>f, BoundsAssumption, EnabledAssumption DEF Inv,
       BaseType, RecordSuccess, events, delivery, tick, BatchComplete, Event
  <2>4. AckedBefore'
    BY <1>0, <1>1, <2>f, EnabledAssumption DEF Inv, BaseType, RecordSuccess,
       events, delivery, tick, AckedBefore, Delivering, HasCategory, Event
  <2>5. ServedSoFar'
    BY <1>0, <1>1, <2>f, EnabledAssumption DEF Inv, BaseType, RecordSuccess,
       events, delivery, tick, ServedSoFar, Delivering, Took, Event
  <2>6. PassingHandled'
    BY <1>0, <1>1, <2>f, EnabledAssumption DEF Inv, BaseType, RecordSuccess,
       events, delivery, tick, PassingHandled, Reached, HasCategory, Event
  <2>7. SendsCounted'
    <3>1. \A e1 \in Event, d \in Channel : Settled(e1, d) => Settled(e1, d)'
      BY <1>0, <1>1, <2>f, BoundsAssumption DEF Inv, BaseType, RecordSuccess,
         events, delivery, tick, Settled, Event
    <3> QED
      BY <1>1, <3>1, CountKept DEF RecordSuccess, events, delivery, tick
  <2> QED
    BY <2>1, <2>2, <2>3, <2>4, <2>5, <2>6, <2>7 DEF Inv
<1>2. CASE Acknowledge
  <2>f. First' = First /\ at \in 1..2 /\ at' = at + 1 /\ at' \in 1..3
    BY <1>0, <1>2 DEF Inv, Listing, Acknowledge, First
  <2>b. \A d : Before(d)' <=> Before(d) \/ d = Order[at]
    BY <2>f, BeforeNext
  <2>1. BaseType'
    <3>1. acks' \subseteq Event \X Channel
      <4>1. First \in Event /\ Order[at] \in Channel
        BY <1>0, <1>2, <2>f, OrderFacts DEF Inv, Listing, Acknowledge
      <4> QED
        BY <1>0, <1>2, <4>1 DEF Acknowledge, BaseType
    <3> QED
      BY <1>0, <1>2, <2>f, <3>1 DEF BaseType, Acknowledge, events, PC
  <2>2. Listing'
    BY <1>0, <1>2, <2>f, <2>b, BoundsAssumption, EnabledAssumption DEF Inv,
       BaseType, Acknowledge, events, delivery, tick, Listing, Event
  <2>3. BatchComplete'
    BY <1>0, <1>2, <2>f, <2>b, BoundsAssumption, EnabledAssumption DEF Inv,
       BaseType, Acknowledge, events, delivery, tick, BatchComplete, Event
  <2>4. AckedBefore'
    BY <1>0, <1>2, <2>f, <2>b, EnabledAssumption DEF Inv, BaseType,
       Acknowledge, events, delivery, tick, AckedBefore, Delivering,
       HasCategory, Event
  <2>5. ServedSoFar'
    BY <1>0, <1>2, <2>f, <2>b, EnabledAssumption DEF Inv, BaseType,
       Acknowledge, events, delivery, tick, ServedSoFar, Delivering, Took, Event
  <2>6. PassingHandled'
    BY <1>0, <1>2, <2>f, <2>b, EnabledAssumption DEF Inv, BaseType,
       Acknowledge, events, delivery, tick, PassingHandled, Reached,
       HasCategory, Event
  <2>7. SendsCounted'
    <3>1. \A e1 \in Event, d \in Channel : Settled(e1, d) => Settled(e1, d)'
      BY <1>0, <1>2, <2>f, <2>b, BoundsAssumption DEF Inv, BaseType,
         Acknowledge, events, delivery, tick, Settled, Event
    <3> QED
      BY <1>2, <3>1, CountKept DEF Acknowledge, events, delivery, tick
  <2> QED
    BY <2>1, <2>2, <2>3, <2>4, <2>5, <2>6, <2>7 DEF Inv
<1>3. CASE AllChannelsDone
  <2>f. pc' = "advance" => First' = First
    BY <1>3 DEF AllChannelsDone, First
  <2>1. BaseType'
    BY <1>0, <1>3, <2>f, BoundsAssumption, EnabledAssumption DEF Inv,
       BaseType, AllChannelsDone, events, delivery, tick, PC, Event
  <2>2. Listing'
    BY <1>0, <1>3, <2>f, BoundsAssumption, EnabledAssumption DEF Inv,
       BaseType, AllChannelsDone, events, delivery, tick, Listing, Event
  <2>3. BatchComplete'
    BY <1>0, <1>3, <2>f, BoundsAssumption, EnabledAssumption DEF Inv,
       BaseType, AllChannelsDone, events, delivery, tick, BatchComplete, Event
  <2>4. AckedBefore'
    BY <1>0, <1>3, <2>f, EnabledAssumption DEF Inv, BaseType, AllChannelsDone,
       events, delivery, tick, AckedBefore, Delivering, HasCategory, Event
  <2>5. ServedSoFar'
    BY <1>0, <1>3, <2>f, EnabledAssumption DEF Inv, BaseType, AllChannelsDone,
       events, delivery, tick, ServedSoFar, Delivering, Took, Event
  <2>6. PassingHandled'
    <3> SUFFICES ASSUME pc' = "advance", NEW c \in Enabled PROVE Took(First, c)
      BY <1>3, <2>f DEF PassingHandled, Reached, AllChannelsDone, delivery, Took
    <3>1. at = 3 /\ delivered /\ pc = "send"
      BY <1>0, <1>3, OrderFacts DEF BaseType, AllChannelsDone
    <3>2. Before(c)
      <4>1. 1 \in 1..at - 1 /\ 2 \in 1..at - 1
        BY <3>1
      <4> QED
        BY <4>1, OrderFacts, EnabledAssumption DEF Before
    <3> QED
      BY <3>1, <3>2 DEF Inv, ServedSoFar, Delivering
  <2>7. SendsCounted'
    <3>1. \A e1 \in Event, d \in Channel : Settled(e1, d) => Settled(e1, d)'
      BY <1>0, <1>3, <2>f, BoundsAssumption DEF Inv, BaseType,
         AllChannelsDone, events, delivery, tick, Settled, Event
    <3> QED
      BY <1>3, <3>1, CountKept DEF AllChannelsDone, events, delivery, tick
  <2> QED
    BY <2>1, <2>2, <2>3, <2>4, <2>5, <2>6, <2>7 DEF Inv
<1>4. CASE AdvanceCursor
  <2>c. /\ batch # {} /\ cursor' = First /\ batch' = batch \ {First}
        /\ cursor < First /\ First \in Nat /\ cursor \in Nat
    BY <1>0, <1>4, BoundsAssumption DEF Inv, Listing, BaseType, AdvanceCursor,
       Event
  <2>w. written \subseteq Nat
    BY <1>0, BoundsAssumption DEF BaseType
  <2>1. BaseType'
    <3>1. pc' \in PC
      BY <1>4 DEF AdvanceCursor, PC
    <3>2. acks' \subseteq acks
      BY <1>4 DEF AdvanceCursor
    <3>3. cursor' \in 0..MaxEvent
      BY <1>0, <2>c, BoundsAssumption DEF Event
    <3> QED
      BY <1>0, <1>4, <2>c, <3>1, <3>2, <3>3 DEF BaseType, AdvanceCursor, events
  <2>2. Listing'
    BY <1>0, <1>4, <2>c, <2>w, BoundsAssumption, EnabledAssumption DEF Inv,
       BaseType, AdvanceCursor, events, delivery, tick, Listing, Event
  <2>3. BatchComplete'
    <3> SUFFICES ASSUME NEW e \in written \ late, First < e
                 PROVE  e \in batch \ {First} \/ \A f \in batch \ {First} : f < e
      BY <1>4, <2>c DEF BatchComplete, AdvanceCursor, events
    <3>1. cursor < e /\ e # First
      BY <2>c, <2>w
    <3> QED
      BY <3>1 DEF Inv, BatchComplete
  <2>4. AckedBefore'
    BY <1>0, <1>4, <2>c, <2>w, EnabledAssumption DEF Inv, BaseType,
       AdvanceCursor, events, delivery, tick, AckedBefore, Delivering,
       HasCategory, Event
  <2>5. ServedSoFar'
    BY <1>0, <1>4, <2>c, <2>w, EnabledAssumption DEF Inv, BaseType,
       AdvanceCursor, events, delivery, tick, ServedSoFar, Delivering, Took, Event
  <2>6. PassingHandled'
    BY <1>0, <1>4, <2>c, <2>w, EnabledAssumption DEF Inv, BaseType,
       AdvanceCursor, events, delivery, tick, PassingHandled, Reached,
       HasCategory, Event
  <2>7. SendsCounted'
    <3>1. ASSUME NEW x \in Event, NEW d \in Channel, Settled(x, d)
          PROVE  Settled(x, d)'
      <4>1. x \in Nat
        BY BoundsAssumption DEF Event
      <4>2. CASE x <= cursor
        BY <2>c, <4>1, <4>2 DEF Settled
      <4>3. CASE <<x, d>> \in acks
        <5>1. CASE x <= First
          BY <2>c, <5>1 DEF Settled
        <5>2. CASE x > First
          BY <1>4, <4>3, <5>2 DEF Settled, AdvanceCursor
        <5> QED
          BY <2>c, <4>1, <5>1, <5>2
      <4> QED
        BY <1>4, <3>1, <4>2, <4>3 DEF Settled, AdvanceCursor
    <3> QED
      BY <1>4, <3>1, CountKept DEF AdvanceCursor
  <2> QED
    BY <2>1, <2>2, <2>3, <2>4, <2>5, <2>6, <2>7 DEF Inv
<1> QED
  BY <1>1, <1>2, <1>3, <1>4

-----------------------------------------------------------------------------
LEMMA NextInv == Inv /\ [Next]_vars => Inv'
<1> SUFFICES ASSUME Inv, [Next]_vars PROVE Inv'
  OBVIOUS
<1>1. CASE UNCHANGED vars
  BY <1>1 DEF Inv, BaseType, Listing, BatchComplete, AckedBefore, ServedSoFar,
     PassingHandled, SendsCounted, Settled, Took, Before, Reached, HasCategory, First,
     vars, events, delivery, tick
<1>2. CASE Work
  BY <1>2, ListStep, TurnStep, RecordStep DEF Work
<1>3. CASE Setup \/ TickFails \/ Stop
  BY <1>3, FaultStep
<1>4. CASE \/ \E k \in Text \cup {Noise} : Stamp(k)
           \/ \E e \in Event : Commit(e) \/ GrowsOld(e)
           \/ \E c \in Channel : BackoffEnds(c) \/ TestNotification(c)
           \/ \E c \in Channel, m \in Text : CooldownEnds(c, m)
  BY <1>4, StampStep, EventStep, ChannelStep, CooldownStep
<1> QED
  BY <1>1, <1>2, <1>3, <1>4 DEF Next

LEMMA SpecInv == Spec => []Inv
<1> QED
  BY InitInv, NextInv, PTL DEF Spec

LEMMA InvType == Inv => TypeOK
<1> SUFFICES ASSUME Inv PROVE TypeOK
  OBVIOUS
<1>1. \A p \in Event \X Channel : sends[p] \in 0..MaxFault + 1
  <2> SUFFICES ASSUME NEW e \in Event, NEW c \in Channel
               PROVE  sends[<<e, c>>] \in 0..MaxFault + 1
    OBVIOUS
  <2>1. sends[<<e, c>>] \in Nat /\ faults \in 0..MaxFault
    BY DEF Inv, BaseType
  <2>2. sends[<<e, c>>] <= 1 + faults
    BY DEF Inv, SendsCounted
  <2> QED
    BY <2>1, <2>2, BoundsAssumption
<1>2. sends \in [Event \X Channel -> 0..MaxFault + 1]
  BY <1>1 DEF Inv, BaseType
<1>3. at \in 1..Len(Order) + 1
  BY OrderFacts DEF Inv, BaseType
<1> QED
  BY <1>2, <1>3 DEF Inv, BaseType, TypeOK

LEMMA InvSentOnce == Inv => SentOnce
<1> SUFFICES ASSUME Inv, NEW e \in Event, NEW c \in Channel
             PROVE  sends[<<e, c>>] <= 1 + faults
  BY DEF SentOnce
<1> QED
  BY DEF Inv, SendsCounted

\* The variables have their types.
THEOREM NotificationTypes == Spec => []TypeOK
<1> QED
  BY SpecInv, InvType, PTL

\* A channel takes the message of an event once, and once more for each crash,
\* failed tick or misreported send, whatever the other channel does.
THEOREM NotificationsSentOnce == Spec => []SentOnce
<1> QED
  BY SpecInv, InvSentOnce, PTL

\* What PassesOnlyHandled says of a step.
PassAct ==
    cursor' # cursor /\ pc # "down" =>
        \A e \in written \ late :
            cursor < e /\ e <= cursor' /\ HasCategory(e) => Reached(e) \/ e \in old

\* A running service moves its cursor in one place only.
LEMMA OnlyAdvanceMoves ==
    ASSUME Next, cursor' # cursor, pc # "down"
    PROVE  AdvanceCursor
<1>1. ~Setup /\ ~TickFails /\ ~Stop
  BY DEF Setup, TickFails, Stop, delivery
<1>2. ~(\/ BeginTick \/ PassOver \/ BeginDeliver \/ RecordSuccess \/ Acknowledge
        \/ AllChannelsDone)
  BY DEF BeginTick, PassOver, BeginDeliver, RecordSuccess, Acknowledge,
     AllChannelsDone, delivery
<1>3. \A c \in Channel : ~(\/ SkipChannel(c) \/ WaitForRetry(c) \/ Suppress(c)
                           \/ SendSucceeds(c) \/ SendFails(c))
  BY DEF SkipChannel, WaitForRetry, Suppress, SendSucceeds, SendFails, delivery
<1>4. /\ \A k \in Text \cup {Noise} : ~Stamp(k)
      /\ \A e \in Event : ~Commit(e) /\ ~GrowsOld(e)
      /\ \A c \in Channel : ~BackoffEnds(c) /\ ~TestNotification(c)
      /\ \A c \in Channel, m \in Text : ~CooldownEnds(c, m)
  BY DEF Stamp, Commit, GrowsOld, BackoffEnds, TestNotification, CooldownEnds, delivery
<1> QED
  BY <1>1, <1>2, <1>3, <1>4 DEF Next, Work

\* The cursor of a running service passes an event with news only when every
\* enabled channel took it or acknowledged it, or when it is too old; an event
\* that was written in time is never left behind.
THEOREM CursorPassesHandled == Spec => PassesOnlyHandled
<1>1. Inv /\ [Next]_vars => [PassAct]_vars
  <2> SUFFICES ASSUME Inv, Next, cursor' # cursor, pc # "down",
                      NEW e \in written \ late,
                      cursor < e, e <= cursor', HasCategory(e)
               PROVE  Reached(e) \/ e \in old
    BY DEF PassAct
  <2>1. AdvanceCursor
    BY OnlyAdvanceMoves
  <2>2. batch # {} /\ BaseType
    BY <2>1 DEF Inv, Listing, AdvanceCursor
  <2>3. First \in batch /\ First \in Event /\ \A x \in batch : First <= x
    BY <2>2, FirstIn
  <2>4. First \in Nat /\ e \in Nat /\ cursor' = First
    BY <2>1, <2>2, <2>3, BoundsAssumption DEF BaseType, AdvanceCursor, Event
  <2>5. e \in batch \/ \A f \in batch : f < e
    BY DEF Inv, BatchComplete
  <2>6. e = First
    BY <2>3, <2>4, <2>5
  <2> QED
    BY <2>1, <2>6 DEF Inv, PassingHandled, AdvanceCursor
<1> QED
  BY <1>1, SpecInv, PTL DEF Spec, PassesOnlyHandled, PassAct
=============================================================================
