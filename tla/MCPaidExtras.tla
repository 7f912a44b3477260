----------------------------- MODULE MCPaidExtras -----------------------------
(* PaidExtras on small instances. *)
EXTENDS PaidExtras, TLC

Symmetry ==
  Permutations(Callers) \union Permutations(Customers) \union Permutations(Regs)
=============================================================================
