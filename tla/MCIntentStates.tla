--------------------------- MODULE MCIntentStates ---------------------------
(***************************************************************************)
(* Small instances of IntentStates: one compilation that is grounded in an *)
(* execution bound and one that is not, and two verdicts.                  *)
(***************************************************************************)
EXTENDS IntentStates, TLC

CONSTANTS c1, c2, dated, undated, v1, v2, allow, block, t1

MCBoundOf == [k \in Compilation |-> IF k = dated THEN t1 ELSE None]

MCSymmetry == Permutations(Call) \cup Permutations(Verification) \cup Permutations(Policy)
=============================================================================
