----------------------------- MODULE MCAuditLog -----------------------------
(***************************************************************************)
(* Two payloads, four lines: enough for a good entry, a fault, a restart   *)
(* and two appends that build on what the fault left.                      *)
(***************************************************************************)
EXTENDS AuditLog

=============================================================================
