-------------------------- MODULE MCAuditPipeline --------------------------
(***************************************************************************)
(* AuditPipeline with a queue of two, and as many events again.            *)
(***************************************************************************)
EXTENDS AuditPipeline

CONSTANTS e1, e2, e3, e4

MCEvents == {e1, e2, e3, e4}
=============================================================================
