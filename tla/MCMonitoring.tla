---------------------------- MODULE MCMonitoring ----------------------------
(***************************************************************************)
(* Small instances of MonitoringContract: the contract of one workflow and *)
(* a few calls about it at a time.                                         *)
(***************************************************************************)
EXTENDS MonitoringContract, TLC

CONSTANTS p1, p2

MCSymmetry == Permutations(Proc)
=============================================================================
