----------------------------- MODULE MCOutcome ------------------------------
(***************************************************************************)
(* Small instances of OutcomeContract: a quantity of two, snapshots that   *)
(* satisfy, fall short, break and predict, and claims that fall short,     *)
(* break, or say nothing of the quantity.                                  *)
(***************************************************************************)
EXTENDS OutcomeContract

CONSTANTS i1, i2, c1, c2, m1

Snapshot(received, delivery, conflicted) ==
  [received |-> received, ordered |-> None, settled |-> "yes", delivery |-> delivery,
   semantic |-> None, conflicted |-> conflicted]

MCEventFacts ==
  {Snapshot(2, "before", {}), Snapshot(2, "after", {}), Snapshot(2, "late", {}),
   Snapshot(None, "before", {"quantity_received"})}

MCClaimSets == {[received |-> {1}, alias |-> {}], [received |-> {0}, alias |-> {2}]}
=============================================================================
