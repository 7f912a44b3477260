---------------------------- MODULE MCVehicleCache ----------------------------
(* VehicleCache on small instances. *)
EXTENDS VehicleCache, TLC

Symmetry == Permutations(Requests)
=============================================================================
