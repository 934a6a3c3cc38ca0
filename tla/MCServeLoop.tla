---------------------------- MODULE MCServeLoop ----------------------------
(***************************************************************************)
(* The serving processes with two relays.                                  *)
(***************************************************************************)
EXTENDS ServeLoop

=============================================================================
