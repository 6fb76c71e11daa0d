----------------------------- MODULE MCTtlCache -----------------------------
(* TtlCache for TLC: the keys are interchangeable.                         *)
EXTENDS TtlCache, TLC

KeySymmetry == Permutations(Keys)

=============================================================================
