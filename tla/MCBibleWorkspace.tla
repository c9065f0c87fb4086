--------------------------- MODULE MCBibleWorkspace ---------------------------
(* Small instances of BibleWorkspace.                                      *)
EXTENDS BibleWorkspace, TLC

Symmetric ==
  Permutations(Keys) \cup Permutations(ConfirmKeys) \cup Permutations(Contents)
=============================================================================
