------------------------------- MODULE MCTui -------------------------------
(* Two groups, two names, two people: see MCTui.cfg. *)
EXTENDS Tui
MCTyped == {{}, {"read"}}
=============================================================================
