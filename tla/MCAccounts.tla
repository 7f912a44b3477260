------------------------------ MODULE MCAccounts ------------------------------
(* Two requests at once, and the values that are interchangeable.             *)
EXTENDS Accounts, TLC

MCSymmetry == Permutations(Ids) \union Permutations(Callers)
=============================================================================
