------------------------------ MODULE FillFeed ------------------------------
(***************************************************************************)
(* What the allocator may expect of the fill service, with pages, cursor,  *)
(* stream and faults hidden: fills of the exchange's history are handed    *)
(* over, in any order and any number at a time, and a durable mark says up *)
(* to which fill nothing has to be looked at again.                        *)
(***************************************************************************)
EXTENDS Naturals

CONSTANT MaxBill    \* bound on the fills of the history

VARIABLES
    history,    \* fills 1..history were executed
    seen,       \* fills handed over
    mark        \* fills 1..mark are done with

feedVars == <<history, seen, mark>>

Init == history = 0 /\ seen = {} /\ mark = 0

Execute ==
    /\ history < MaxBill
    /\ history' = history + 1
    /\ UNCHANGED <<seen, mark>>

\* Some fills arrive, and the mark may follow over a gapless prefix.
HandOver ==
    /\ \E S \in SUBSET (1..history) : seen' = seen \cup S
    /\ mark' \in mark..history
    /\ 1..mark' \subseteq seen'
    /\ UNCHANGED history

Next == Execute \/ HandOver

Spec == Init /\ [][Next]_feedVars
=============================================================================
