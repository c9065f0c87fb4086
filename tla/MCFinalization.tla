---------------------------- MODULE MCFinalization ----------------------------
(* Small instances of Finalization for TLC: the tabs are interchangeable. *)
EXTENDS Finalization, TLC

TabSymmetry == Permutations(Tabs)
=============================================================================
