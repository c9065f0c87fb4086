------------------------- MODULE MCCreativeFoundation -------------------------
(* Small instances of CreativeFoundation and CreativeAdvice together.      *)
EXTENDS CreativeAdvice, TLC

Symmetric == Permutations(Seeds) \cup Permutations(Contents) \cup Permutations(Keys)
=============================================================================
