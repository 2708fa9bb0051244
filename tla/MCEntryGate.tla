---------------------------- MODULE MCEntryGate -----------------------------
(***************************************************************************)
(* EntryGate on small instances.                                           *)
(***************************************************************************)
EXTENDS EntryGate, TLC

GateSymmetry ==
    Permutations(Database) \cup Permutations(Unit)
=============================================================================
