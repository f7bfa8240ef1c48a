---------------------------- MODULE MCApproval ----------------------------
(***************************************************************************)
(* Small instances of ApprovalRequest: one evaluation with one request,    *)
(* and two calls about it at a time.                                       *)
(***************************************************************************)
EXTENDS ApprovalRequest

CONSTANTS p1, p2, x1

=============================================================================
