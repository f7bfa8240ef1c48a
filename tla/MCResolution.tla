---------------------------- MODULE MCResolution ----------------------------
(***************************************************************************)
(* Small instances of ResolutionCase: two instances of the service, a few  *)
(* requests at a time and one remedy that pays.                            *)
(***************************************************************************)
EXTENDS ResolutionCase, TLC

CONSTANTS i1, i2, c1, c2, r1

\* The deployment also starts where an earlier one has opened and planned the
\* case and issued a mandate, so that a second issue and two executions fit
\* in the bound.
Issued ==
  /\ trigger = TRUE
  /\ row = [state |-> "AWAITING_AUTHORITY", plan |-> [made |-> TRUE, bound |-> Remedy]]
  /\ mandates = [r \in Remedy |-> [status |-> "ACTIVE", issue |-> 1]]
  /\ issued = [r \in Remedy |-> 1]
  /\ claims = [r \in Remedy |-> "NONE"]
  /\ artifacts = [r \in Remedy |-> NoArtifacts]
  /\ asked = {} /\ paid = {}
  /\ Started(1)

MCInit == Init \/ Issued
MCSpec == MCInit /\ [][Next]_vars

MCSymmetry == Permutations(Instance) \cup Permutations(Call)
=============================================================================
