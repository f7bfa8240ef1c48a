----------------------------- MODULE MCWorkflow -----------------------------
(***************************************************************************)
(* Small instances of WorkflowEngine: two calls, and a model whose plans   *)
(* and a clock whose times may differ or not.                              *)
(***************************************************************************)
EXTENDS WorkflowEngine

CONSTANTS c1, c2, p1, p2, t1, t2
=============================================================================
