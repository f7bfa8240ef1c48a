---------------------------- MODULE MCModelCalls ----------------------------
(***************************************************************************)
(* Small instances of ModelCalls: as many instances and calls as are       *)
(* needed to fill the slots and a queue behind them.                       *)
(***************************************************************************)
EXTENDS ModelCalls

CONSTANTS i1, i2, r1, r2
=============================================================================
