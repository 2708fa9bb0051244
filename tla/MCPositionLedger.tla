-------------------------- MODULE MCPositionLedger --------------------------
(***************************************************************************)
(* PositionLedger on small instances.                                      *)
(***************************************************************************)
EXTENDS PositionLedger, TLC

ExitSymmetry == Permutations(Exits)
=============================================================================
