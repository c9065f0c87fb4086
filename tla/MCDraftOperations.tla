-------------------------- MODULE MCDraftOperations --------------------------
(* Small instances of DraftOperations for TLC: the keys are interchangeable. *)
EXTENDS DraftOperations, TLC

KeySymmetry == Permutations(Keys)
=============================================================================
