----------------------------- MODULE MCSpendGate -----------------------------
(* SpendGate on small instances. *)
EXTENDS SpendGate, TLC

Symmetry == Permutations(Callers) \union Permutations(Keys)
=============================================================================
