---------------------------- MODULE LogicalUnit ----------------------------
(***************************************************************************)
(* What the rest of the system may expect of a logical unit, with orders,  *)
(* links, deferrals, retries and crashes hidden: an account of executed    *)
(* fills.  Each is counted at most once, in the direction its order        *)
(* traded; the unit's quantity is what the counted ones leave, never below *)
(* zero; and a unit that is over counts nothing more and has nothing left. *)
(***************************************************************************)
EXTENDS Integers, Sequences, FiniteSets

CONSTANTS
    Entry,      \* the entry order, which adds; every other order takes away
    MaxFills    \* bound on the fills the exchange reports

VARIABLES
    tape,       \* the executed fills: order and quantity
    counted,    \* places on the tape of the counted ones
    quantity,   \* contracts the unit holds
    over        \* the unit is closed or failed

unitVars == <<tape, counted, quantity, over>>

Place == 1..Len(tape)

\* Contracts that the fills of S add and take away.
Lots(S) == UNION {{f} \X (1..tape[f].qty) : f \in S}
Added(S) == Cardinality(Lots({f \in S : tape[f].ord = Entry}))
Taken(S) == Cardinality(Lots({f \in S : tape[f].ord # Entry}))

Init == tape = <<>> /\ counted = {} /\ quantity = 0 /\ over = FALSE

\* The exchange executes.  What was executed stays.
Execute ==
    /\ Len(tape') \in (Len(tape) + 1)..MaxFills
    /\ SubSeq(tape', 1, Len(tape)) = tape
    /\ UNCHANGED <<counted, quantity, over>>

\* Fills are counted together with their quantities, and the unit may end.
Count ==
    /\ ~over
    /\ \E S \in SUBSET (Place \ counted) :
          /\ counted' = counted \cup S
          /\ quantity' = quantity + Added(S) - Taken(S)
    /\ quantity' >= 0
    /\ over' => quantity' = 0
    /\ UNCHANGED tape

Next == Execute \/ Count

Spec == Init /\ [][Next]_unitVars
=============================================================================
