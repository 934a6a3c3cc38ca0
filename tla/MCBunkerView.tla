---------------------------- MODULE MCBunkerView ----------------------------
(***************************************************************************)
(* Instances of BunkerView for TLC.                                        *)
(***************************************************************************)
EXTENDS BunkerView, TLC

MCGrants == {{}, {"r"}, {"w"}}
Symmetry == Permutations(Group) \cup Permutations(Name)
=============================================================================
