-------------------------- MODULE LearnedDecisions --------------------------
(***************************************************************************)
(* LearningMemory and DecisionRules together: the authority decides under  *)
(* what it reads of the memory, while confirmations write it, are raced    *)
(* and are lost half way.                                                  *)
(***************************************************************************)
EXTENDS LearningMemory, DecisionRules

\* The read routes follow the tip; the authority passes over a record that is
\* not active.
Applies(topic) ==
  /\ tip[topic] # NoProposal
  /\ topic \in {"preference", "rule"} => record[tip[topic]].status = "ACTIVE"
  /\ topic \in {"agent", "counterparty"} => tip[topic] \in context

\* loadAdaptiveAuthoritySignals: what applies may differ from the action or
\* not.
MayLoad(learned) ==
  /\ learned.ruled => Applies("rule")
  /\ learned.preferred => Applies("preference")
  /\ learned.weak <= Cardinality({t \in {"agent", "counterparty"} : Applies(t)})

----------------------------------------------------------------------------
(* Properties.                                                             *)

\* What one answering judge says against an enforced constraint blocks the
\* action, whatever the other judges say, the scope grants and the memory
\* holds.
ContradictedIsBlocked ==
  \A d \in OnContradiction : d[2] = "BLOCK" \/ ~MayLoad(d[1])

\* A high-consequence action is not allowed without a human's approval when
\* a judge has not answered, or no judge spoke of an enforced constraint,
\* whatever the memory holds.
UnjudgedNeedsApproval ==
  \A d \in OnSilence : d[2] \in {"REQUIRE_APPROVAL", "BLOCK"} \/ ~MayLoad(d[1])

\* Under what the memory holds, a request is decided no more permissively for
\* a scope that was delegated than for the scope it was delegated from.
DelegationNarrows ==
  \A d \in OnDelegation : Severity[d[3]] >= Severity[d[2]] \/ ~MayLoad(d[1])
=============================================================================
