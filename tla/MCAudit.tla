------------------------------ MODULE MCAudit ------------------------------
(* AuditStream for TLC: a record of a run, one of a run without a thread,  *)
(* and one of another run of the first one's thread.                       *)
EXTENDS AuditStream

MCRunOf == <<"a", "c", "b">>
=============================================================================
