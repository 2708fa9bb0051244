------------------------------ MODULE Exposure ------------------------------
(***************************************************************************)
(* Logical units against the exchange's net position, for one instrument   *)
(* and side: the reconciler (src/src/trading/position_reconciliation.py),  *)
(* the account service's recovery and the operator's import                *)
(* (src/src/trading/position_import.py, src/src/daemon/account_service.py) *)
(* and the adoption of a recovered unit.                                   *)
(*                                                                         *)
(* The daemon's thread runs the account service and the fill service in    *)
(* turn; operators act on API threads.  The account service reads the net  *)
(* position first and without a lock, and judges it later against the rows *)
(* as they are then.  The rows of a mismatch are saved whole, from the     *)
(* copies that were judged.  Someone outside trades on the same account.   *)
(***************************************************************************)
EXTENDS Integers, Sequences, FiniteSets, FiniteSetsExt

CONSTANTS
    MaxSize,    \* largest order
    MaxOpen,    \* bound: entries of Maybech
    MaxAct,     \* bound: exits and imports
    MaxTrade    \* bound: trades from outside

ASSUME BoundsAssumption ==
    /\ MaxSize \in Nat \ {0}
    /\ MaxOpen \in Nat /\ MaxAct \in Nat /\ MaxTrade \in Nat

VARIABLES
    net,        \* size of the exchange's position
    unit,       \* the logical units, in the order of their creation
    acc,        \* account service: where its tick is and what it has read
    opens, acts, trades,
    strangers   \* history: contracts bought by orders that no unit owns, less
                \* the contracts of recovered units

vars == <<net, unit, acc, opens, acts, trades, strangers>>

Idle == [pc |-> "idle", seen |-> 0, rows |-> {}]

MaxNet == MaxSize * MaxOpen + MaxTrade
MaxOrdered == MaxNet * MaxAct

\* The exchange's and the units' total that a unit was marked for.
NoSignature == <<>>
Signature == {NoSignature} \cup ((0..MaxNet) \X (0..2 * MaxNet))

UnitType ==
    [source   : {"strategy", "recovery", "import"},
     status   : {"pending_open", "open", "closing", "closed", "failed"},
     remaining: 0..MaxNet,      \* remaining_quantity
     order    : 0..MaxSize,     \* entry contracts at the exchange, not executed
     due      : 0..MaxSize,     \* entry contracts executed, not recorded
     live     : 0..MaxOrdered,  \* exit contracts, not executed
     out      : 0..MaxOrdered,  \* exit contracts executed, not recorded
     sig      : Signature,      \* reconciliation_review_signature
     verified : BOOLEAN]        \* exchange_protection_verified

\* Types; in particular no unit holds less than nothing.
TypeOK ==
    /\ net \in 0..MaxNet
    /\ \A u \in DOMAIN unit : unit[u] \in UnitType
    /\ acc.pc \in {"idle", "fetched", "judged"}
    /\ acc.seen \in 0..MaxNet
    /\ \A r \in acc.rows : r[1] \in DOMAIN unit
    /\ opens \in 0..MaxOpen /\ acts \in 0..MaxAct /\ trades \in 0..MaxTrade
    /\ strangers \in Int

Init ==
    /\ net = 0 /\ unit = <<>> /\ acc = Idle
    /\ opens = 0 /\ acts = 0 /\ trades = 0
    /\ strangers = 0

-----------------------------------------------------------------------------
(***************************************************************************)
(* The reconciler.                                                         *)
(***************************************************************************)
\* list_active.
Listed == {u \in DOMAIN unit :
              unit[u].status \in {"pending_open", "open", "closing"}}

\* ACTIVE_STATUSES: a unit that is still opening is listed and not counted.
Counted == {u \in Listed : unit[u].status # "pending_open"}

\* A sum over units, as the number of their contracts.
Total(S, quantity) == Cardinality(UNION {{u} \X (1..quantity[u]) : u \in S})

Remaining == [u \in DOMAIN unit |-> unit[u].remaining]
Due == [u \in DOMAIN unit |-> unit[u].due]

\* _group_remaining.
GroupRemaining == Total(Counted, Remaining)

\* _group_state; "balanced" also when there is no group at all.
GroupState(size) ==
    IF size = 0 THEN IF Counted = {} THEN "balanced" ELSE "no_exchange_position"
    ELSE IF size = GroupRemaining THEN "balanced"
    ELSE IF size > GroupRemaining THEN "under_allocated" ELSE "over_allocated"

Unexplained(size) == size - GroupRemaining

\* reconcile_account: safe_for_entries.
Unprotected == {u \in Counted : unit[u].source # "strategy" /\ ~unit[u].verified}
SafeForEntries == GroupState(net) = "balanced" /\ Unprotected = {}

SignatureOf(size) == <<size, GroupRemaining>>

NewUnit == [source |-> "strategy", status |-> "pending_open",
            remaining |-> 0, order |-> 0, due |-> 0, live |-> 0, out |-> 0,
            sig |-> NoSignature, verified |-> FALSE]

Foreign(source, quantity) ==
    [NewUnit EXCEPT !.source = source, !.status = "open", !.remaining = quantity]

-----------------------------------------------------------------------------
(***************************************************************************)
(* The exchange, and whoever else trades on the account.                   *)
(***************************************************************************)
TradeOutside ==
    /\ trades < MaxTrade /\ trades' = trades + 1
    /\ \/ net' = net + 1 /\ strangers' = strangers + 1
       \/ net > 0 /\ net' = net - 1 /\ UNCHANGED strangers
    /\ UNCHANGED <<unit, acc, opens, acts>>

\* A fill-or-kill entry executes whole, whether or not a unit still waits.
ExecuteEntry(u) ==
    /\ unit[u].order > 0
    /\ net' = net + unit[u].order
    /\ IF unit[u].status = "failed"
       THEN /\ unit' = [unit EXCEPT ![u].order = 0]
            /\ strangers' = strangers + unit[u].order
       ELSE /\ unit' = [unit EXCEPT ![u].order = 0, ![u].due = unit[u].order]
            /\ UNCHANGED strangers
    /\ UNCHANGED <<acc, opens, acts, trades>>

\* A reduce-only order takes at most the position; the rest is canceled.
ExecuteExit(u) ==
    /\ unit[u].live > 0
    /\ LET q == Min({unit[u].live, net})
       IN  /\ net' = net - q
           /\ unit' = [unit EXCEPT ![u].live = 0, ![u].out = @ + q]
    /\ UNCHANGED <<acc, opens, acts, trades, strangers>>

-----------------------------------------------------------------------------
(***************************************************************************)
(* Entries, exits and fills, as far as the exposure goes.  The fill        *)
(* service runs on the daemon's thread, hence never inside the account     *)
(* service's tick; everything else here may.                               *)
(***************************************************************************)
LockFree == acc.pc # "judged"

\* approve_entry asks the reconciler; the unit and its order follow under
\* the same lock.
OpenUnit ==
    /\ LockFree /\ SafeForEntries
    /\ opens < MaxOpen /\ opens' = opens + 1
    /\ \E q \in 1..MaxSize : unit' = Append(unit, [NewUnit EXCEPT !.order = q])
    /\ UNCHANGED <<net, acc, acts, trades, strangers>>

\* The entry is refused, or its reply is lost: the unit fails either way.
FailEntry(u) ==
    /\ LockFree
    /\ unit[u].status = "pending_open" /\ unit[u].order > 0
    /\ \E left \in {0, unit[u].order} :
          unit' = [unit EXCEPT ![u].status = "failed", ![u].order = left]
    /\ UNCHANGED <<net, acc, opens, acts, trades, strangers>>

\* ingest, for a fill of an entry, which may have executed in several.
RecordEntryFill(u) ==
    /\ acc.pc = "idle"
    /\ \E q \in 1..unit[u].due :
          unit' = [unit EXCEPT
                     ![u].due = @ - q, ![u].remaining = @ + q,
                     ![u].status = IF @ = "pending_open" THEN "open" ELSE @]
    /\ UNCHANGED <<net, acc, opens, acts, trades, strangers>>

\* The operator or a rule closes the unit.
CloseUnit(u) ==
    /\ unit[u].status = "open"
    /\ acts < MaxAct /\ acts' = acts + 1
    /\ unit' = [unit EXCEPT ![u].status = "closing",
                            ![u].live = @ + unit[u].remaining]
    /\ UNCHANGED <<net, acc, opens, trades, strangers>>

\* ingest, for a fill of an exit; more than what remains is refused.  A unit
\* that ends so will refuse the fills of its entry that are still to come,
\* which from now on belong to nobody.
RecordExitFill(u) ==
    /\ acc.pc = "idle"
    /\ \E q \in 1..unit[u].out :
          IF q = unit[u].remaining
          THEN /\ unit' = [unit EXCEPT ![u].out = @ - q, ![u].remaining = 0,
                              ![u].status = "closed", ![u].due = 0]
               /\ strangers' = strangers + unit[u].due
          ELSE /\ unit' = [unit EXCEPT ![u].out = @ - q,
                              ![u].remaining = IF q < @ THEN @ - q ELSE @]
               /\ UNCHANGED strangers
    /\ UNCHANGED <<net, acc, opens, acts, trades>>

\* recover_terminal_order: the exit ended and left something.
ReopenUnit(u) ==
    /\ acc.pc = "idle"
    /\ unit[u].status = "closing" /\ unit[u].live = 0 /\ unit[u].out = 0
    /\ unit' = [unit EXCEPT ![u].status = "open"]
    /\ UNCHANGED <<net, acc, opens, acts, trades, strangers>>

-----------------------------------------------------------------------------
(***************************************************************************)
(* Import and adoption, by an operator who holds the lock.                 *)
(***************************************************************************)
\* Mutant: the size of the gap is taken whatever its sign.
ImportAnyGap ==
    /\ LockFree
    /\ acts < MaxAct /\ acts' = acts + 1
    /\ GroupState(net) # "balanced"
    /\ \E proven \in BOOLEAN :
          unit' = Append(unit, [Foreign("import", Unexplained(net))
                                   EXCEPT !.verified = proven])
    /\ UNCHANGED <<net, acc, opens, trades, strangers>>

\* _protect succeeds only for a group that balances; it may fail anyway.
ImportUnexplained ==
    /\ LockFree
    /\ acts < MaxAct /\ acts' = acts + 1
    /\ GroupState(net) = "under_allocated"
    /\ \E proven \in BOOLEAN :
          unit' = Append(unit, [Foreign("import", Unexplained(net))
                                   EXCEPT !.verified = proven])
    /\ UNCHANGED <<net, acc, opens, trades, strangers>>

AdoptRecoveredPosition(u) ==
    /\ LockFree
    /\ unit[u].source = "recovery" /\ u \in Counted
    /\ unit[u].sig = NoSignature /\ ~unit[u].verified
    /\ GroupState(net) = "balanced"
    /\ unit' = [unit EXCEPT ![u].verified = TRUE]
    /\ UNCHANGED <<net, acc, opens, acts, trades, strangers>>

-----------------------------------------------------------------------------
(***************************************************************************)
(* The account service's tick.                                             *)
(***************************************************************************)
Fetch ==
    /\ acc.pc = "idle"
    /\ acc' = [Idle EXCEPT !.pc = "fetched", !.seen = net]
    /\ UNCHANGED <<net, unit, opens, acts, trades, strangers>>

\* A half-recorded entry is open, so that its other fills look unexplained.
HalfRecorded == {u \in Counted : unit[u].due > 0}

\* Mutant: exposure is recovered while an entry is still opening.
PendingKeyIgnored == FALSE

PendingKey == Listed # Counted

CreateRecovery ==
    /\ unit' = Append(unit, Foreign("recovery", Unexplained(acc.seen)))
    /\ strangers' = strangers - Unexplained(acc.seen)
                      + Total(HalfRecorded, Due)
    /\ acc' = Idle

\* The mismatch to mark, and the rows that do not carry its signature yet.
Ambiguous == GroupState(acc.seen) \in {"over_allocated", "no_exchange_position"}

\* Mutant: a unit is marked once, for whatever mismatch came first.
UnmarkedSoFar == {u \in Listed : Ambiguous /\ unit[u].sig = NoSignature}

Unmarked == {u \in Listed : Ambiguous /\ unit[u].sig # SignatureOf(acc.seen)}

Judge ==
    /\ acc.pc = "fetched"
    /\ \/ /\ GroupState(acc.seen) = "under_allocated" /\ ~PendingKey
          /\ CreateRecovery
       \/ /\ \/ GroupState(acc.seen) = "under_allocated" /\ PendingKey
             \/ GroupState(acc.seen) = "balanced"
             \/ Ambiguous /\ Unmarked = {}
          /\ acc' = Idle
          /\ UNCHANGED <<unit, strangers>>
       \/ /\ Unmarked # {}
          /\ acc' = [acc EXCEPT !.pc = "judged",
                        !.rows = {<<u, unit[u].status>> : u \in Unmarked}]
          /\ UNCHANGED <<unit, strangers>>
    /\ UNCHANGED <<net, opens, acts, trades>>

\* _mark_manual_review: save() writes the whole row as it was judged, and
\* takes back the claim of an exit that an API thread has made meanwhile.
MarkManualReview ==
    /\ acc.pc = "judged"
    /\ unit' = [u \in DOMAIN unit |->
          IF \E r \in acc.rows : r[1] = u
          THEN [unit[u] EXCEPT !.sig = SignatureOf(acc.seen),
                  !.status = (CHOOSE r \in acc.rows : r[1] = u)[2]]
          ELSE unit[u]]
    /\ acc' = Idle
    /\ UNCHANGED <<net, opens, acts, trades, strangers>>

-----------------------------------------------------------------------------
Exchange == TradeOutside \/ \E u \in DOMAIN unit : ExecuteEntry(u) \/ ExecuteExit(u)

Operator ==
    \/ OpenUnit \/ ImportUnexplained
    \/ \E u \in DOMAIN unit :
          FailEntry(u) \/ CloseUnit(u) \/ AdoptRecoveredPosition(u)

RecordFill(u) == RecordEntryFill(u) \/ RecordExitFill(u)

FillService ==
    \E u \in DOMAIN unit : RecordFill(u) \/ ReopenUnit(u)

AccountTick == Fetch \/ Judge \/ MarkManualReview

Next == Exchange \/ Operator \/ FillService \/ AccountTick

Spec == Init /\ [][Next]_vars

\* The daemon's loop gives every service its turn; an order at the exchange
\* does not wait for ever.  Nobody has to trade, open, close or import.
FairSpec ==
    /\ Spec
    /\ WF_vars(AccountTick)
    /\ WF_vars(\E u \in DOMAIN unit : ExecuteEntry(u) \/ ExecuteExit(u))
    /\ SF_vars(\E u \in DOMAIN unit : RecordFill(u))
    /\ SF_vars(\E u \in DOMAIN unit : ReopenUnit(u))

-----------------------------------------------------------------------------
\* What the account service turns into recovered units was bought by orders
\* that no unit owns: it never takes for unexplained what an entry, an
\* import or an earlier recovery accounts for, although the position was
\* read before the rows and fills are recorded late (reconcile,
\* position_import.py:141-174).  The exception is an entry executed in
\* several trades, of which the first was recorded alone.
RecoveredIsForeign == strangers >= 0

\* In the end every mismatch is attributed or announced: the group balances,
\* or waits for an entry, or every unit in it carries the signature of this
\* very mismatch (position_import.py:249-306).
Announced ==
    \/ GroupState(net) = "balanced"
    \/ GroupState(net) = "under_allocated" /\ PendingKey
    \/ /\ GroupState(net) \in {"over_allocated", "no_exchange_position"}
       /\ \A u \in Listed : unit[u].sig = SignatureOf(net)

MismatchIsAnnounced == <>[]Announced
=============================================================================
