----------------------------- MODULE MCInventory -----------------------------
(* Small instances of Inventory. *)
EXTENDS Inventory, TLC

Symmetry == Permutations(Proc)
=============================================================================
