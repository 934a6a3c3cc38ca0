------------------------------- MODULE MCAudit -------------------------------
(* Two handler threads and a db grant: see MCAudit.cfg. *)
EXTENDS Audit
=============================================================================
