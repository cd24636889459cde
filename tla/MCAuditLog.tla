----------------------------- MODULE MCAuditLog -----------------------------
(***************************************************************************)
(* The audit log on a handful of entries and files.                        *)
(***************************************************************************)
EXTENDS AuditLog
=============================================================================
