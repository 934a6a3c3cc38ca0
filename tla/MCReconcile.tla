---------------------------- MODULE MCReconcile ----------------------------
(* Instances of Reconcile for TLC. *)
EXTENDS Reconcile, TLC

Symmetry == Permutations(Target) \cup Permutations(Group) \cup Permutations(Data)

=============================================================================
