--------------------------- MODULE MCPositionRules ---------------------------
(***************************************************************************)
(* Units for model checking: a long unit that is managed live with a       *)
(* trailing stop, and short ones in simulation with each kind of trailing  *)
(* rule.  The rules were created with the stop first, after the staged and *)
(* the break-even rule, or last.  A unit with a trailing take-profit has   *)
(* another one behind it in the list.                                      *)
(***************************************************************************)
EXTENDS PositionRules

StopFirst == [stop |-> 1, trail |-> 2, even |-> 3, stage |-> 4, review |-> 5]
StopMiddle == [stage |-> 1, even |-> 2, stop |-> 3, trail |-> 4, review |-> 5]
StopLast == [review |-> 1, stage |-> 2, trail |-> 3, even |-> 4, stop |-> 5]

Setup(side, live, kind, made, behind) ==
    [side |-> side, live |-> live, kind |-> kind, made |-> made, behind |-> behind]

MCSetups ==
    {Setup("long", TRUE, "stop", StopFirst, "none"),
     Setup("short", FALSE, "stop", StopMiddle, "none"),
     Setup("short", FALSE, "take_profit", StopFirst, "waiting"),
     Setup("short", FALSE, "take_profit", StopLast, "none")}

MCLongLive == {Setup("long", TRUE, "stop", StopFirst, "waiting")}
=============================================================================
