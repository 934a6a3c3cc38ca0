---------------------------- MODULE MCKeyHistory ----------------------------
(* Bunker with its key history, instantiated for TLC. *)
EXTENDS KeyHistory, TLC

\* nothing, read, read and write, and an admin that cannot read; the creator of
\* a group has everything
MCGrants == {{}, {"r"}, {"r", "w"}, {"a"}}

Symmetry ==
  Permutations(Endpoint) \cup Permutations(Name) \cup Permutations(OpKey)
=============================================================================
