-------------------------- MODULE MCSupplierRouting --------------------------
(* SupplierRouting on small instances. *)
EXTENDS SupplierRouting, TLC

Symmetry == Permutations(SupplierIds) \union Permutations(OrderTypes)
              \union Permutations(OrderIds) \union Permutations(Admins)
=============================================================================
