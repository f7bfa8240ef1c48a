---------------------------- MODULE DecisionRules ----------------------------
(***************************************************************************)
(* How the authority decides on an action, as pure rules in the order in   *)
(* which they are applied: the guardian merges what its judges say of each *)
(* constraint and sums it up in a status (packages/guardian-core); the     *)
(* gate turns the status into a decision, the scope of the request gives   *)
(* another, and the stricter one stands; what was learned about the user,  *)
(* the agent and the merchant may then tighten it (packages/authority).    *)
(* The rule that a delegated scope must be part of its parent's stands     *)
(* beside them, because the scope of a request is what it delegates.       *)
(*                                                                         *)
(* Confidences, reasons and hashes are left out: no decision depends on    *)
(* them.  Nothing here is recursive, so that LearningProofs can use it.    *)
(***************************************************************************)
EXTENDS Naturals

CONSTANTS
  Constraint, \* constraints of the intent state
  KindOf,     \* the kind of each
  Judge,      \* the judges that the guardian asks
  Required,   \* those without whom a high-consequence action is not judged
  Devil,      \* the devil's advocate
  Capability,
  Merchant,
  None,       \* an absent field
  Results,    \* what the judges may say,
  Scopes,     \* the scopes,
  Requests,   \* the requests
  Exposures   \* and the sums charged, over which the rules are checked

Kind == {"HARD", "SOFT", "SAFETY_CRITICAL", "LEGAL", "FINANCIAL", "TEMPORAL",
         "PREFERENCE", "NEGATIVE_PREFERENCE", "METHOD_CONSTRAINT",
         "ORGANIZATIONAL_POLICY", "LEARNED_PREFERENCE"}

----------------------------------------------------------------------------
(* Decisions.                                                              *)

Decision == {"ALLOW", "ALLOW_WITH_MONITORING", "REQUIRE_APPROVAL", "BLOCK"}

Severity == [ALLOW |-> 0, ALLOW_WITH_MONITORING |-> 1, REQUIRE_APPROVAL |-> 2,
             BLOCK |-> 3]

Combine(guardian, scope) ==
  IF Severity[guardian] >= Severity[scope] THEN guardian ELSE scope

----------------------------------------------------------------------------
(* The guardian.  A result holds all that an answering judge said of each  *)
(* constraint, by its classifications and by its findings, and the         *)
(* findings that count whatever they refer to.                             *)

Rank == [SUPPORTED |-> 4, PARTIALLY_SUPPORTED |-> 3, UNCERTAIN |-> 2,
         NOT_EVALUABLE |-> 1, CONTRADICTED |-> 0]
Classification == DOMAIN Rank
Finding == {"UNTRUSTED_INFLUENCE", "UNSUPPORTED_ASSUMPTION", "GRAVE"}
Result == [ok : BOOLEAN, said : [Constraint -> SUBSET Classification],
           found : SUBSET Finding]

Sticky == {c \in Constraint :
  KindOf[c] \in {"HARD", "SAFETY_CRITICAL", "LEGAL", "ORGANIZATIONAL_POLICY"}}
\* The constraints whose violation is critical.
Enforced == {c \in Constraint : c \in Sticky \/ KindOf[c] = "FINANCIAL"}

Said(results, c) ==
  UNION {results[j].said[c] : j \in {i \in Judge : results[i].ok}}

\* Fault: the best of what was said.
MergedBest(results, c) ==
  LET said == Said(results, c)
  IN  IF said = {} THEN "NOT_EVALUABLE"
      ELSE CHOOSE x \in said : \A y \in said : Rank[x] >= Rank[y]

\* The worst of what was said; a constraint nobody spoke of is not evaluable.
Merged(results, c) ==
  LET said == Said(results, c)
  IN  IF said = {} THEN "NOT_EVALUABLE"
      ELSE CHOOSE x \in said : \A y \in said : Rank[x] <= Rank[y]

Found(results, f) == \E j \in Judge : f \in results[j].found

\* An error: there is no verdict, and no decision follows.
Unavailable(results, high) == high /\ \E j \in Required : ~results[j].ok

Critical(results, high) ==
  \/ \E c \in Enforced :
       \/ Merged(results, c) = "CONTRADICTED"
       \/ high /\ Merged(results, c) = "NOT_EVALUABLE" /\ Said(results, c) # {}
  \/ Found(results, "UNTRUSTED_INFLUENCE")

Conflicted(results) ==
  \/ Found(results, "UNSUPPORTED_ASSUMPTION")
  \/ results[Devil].ok /\ "GRAVE" \in results[Devil].found

\* Fault: a judge that did not answer is passed over.
DoubtfulIfSaid(results, high) ==
  \/ \E c \in Sticky : Merged(results, c) # "SUPPORTED"
  \/ high /\ \E c \in Enforced : Said(results, c) = {}

Doubtful(results, high) ==
  \/ \E c \in Sticky : Merged(results, c) # "SUPPORTED"
  \/ high /\ \E c \in Enforced : Said(results, c) = {}
  \/ \E j \in Judge : ~results[j].ok

Status(results, high) ==
  CASE Critical(results, high) -> "CRITICAL_FAILURE"
    [] ~Critical(results, high) /\ Conflicted(results) -> "CONFLICTED"
    [] ~Critical(results, high) /\ ~Conflicted(results)
         /\ Doubtful(results, high) -> "UNCERTAIN"
    [] OTHER -> "CLEAR"

\* applyGuardianSemanticGate
Gate(status, high) ==
  CASE status = "CRITICAL_FAILURE" -> "BLOCK"
    [] status = "CONFLICTED" -> IF high THEN "BLOCK" ELSE "REQUIRE_APPROVAL"
    [] status = "UNCERTAIN" ->
         IF high THEN "REQUIRE_APPROVAL" ELSE "ALLOW_WITH_MONITORING"
    [] OTHER -> "ALLOW"

----------------------------------------------------------------------------
(* Scopes.  allowedCategories and resourceScope are compared like          *)
(* merchants, and no decision reads them.                                  *)

Optional(S) == {None} \cup S
Scope == [caps : [Capability -> Optional(Decision)], maxAmount : Optional(Nat),
          currency : Optional(Nat), merchants : Optional(SUBSET Merchant),
          denied : SUBSET Merchant, expiresAt : Optional(Nat),
          depth : Optional(Nat)]
Request == [capability : Capability, amount : Optional(Nat),
            currency : Optional(Nat), merchant : Optional(Merchant)]

\* A capability that the parent does not name is blocked; one that the child
\* does not name is not asked for.
Permits(child, parent) ==
  child # None =>
    Severity[child] >= IF parent = None THEN Severity["BLOCK"] ELSE Severity[parent]

Capped(child, parent) ==
  /\ child = None <=> parent = None
  /\ parent # None => child <= parent
NoLater(child, parent) == parent # None => child # None /\ child <= parent
\* Fault: a child without a list is taken for one that adds nothing.
ListedUnlessNone(child, parent) ==
  parent # None /\ child # None => child \subseteq parent
Listed(child, parent) == parent # None => child # None /\ child \subseteq parent

\* isCapabilityScopeSubset: what a parent restricts, the child must too.
ScopeSubset(child, parent) ==
  /\ \A k \in Capability : Permits(child.caps[k], parent.caps[k])
  /\ Capped(child.maxAmount, parent.maxAmount)
  /\ parent.currency # None => child.currency = parent.currency
  /\ Listed(child.merchants, parent.merchants)
  /\ parent.denied \subseteq child.denied
  /\ NoLater(child.expiresAt, parent.expiresAt)
  /\ Capped(child.depth, parent.depth)

OverAmount(scope, request) ==
  /\ request.amount # None
  /\ scope.maxAmount # None
  /\ request.amount > scope.maxAmount

\* The exposure of the intent in the request's currency is charged first.
OverExposure(scope, request, spent) ==
  /\ request.amount # None
  /\ request.currency # None
  /\ scope.maxAmount # None
  /\ spent + request.amount > scope.maxAmount

WrongMerchant(scope, request) ==
  /\ request.merchant # None
  /\ scope.merchants # None
  /\ request.merchant \notin scope.merchants

\* evaluateAuthorityRequest
ScopeDecision(scope, request, spent) ==
  LET cap == scope.caps[request.capability]
  IN  IF \/ cap = None
         \/ OverAmount(scope, request)
         \/ WrongMerchant(scope, request)
         \/ OverExposure(scope, request, spent)
      THEN "BLOCK" ELSE cap

----------------------------------------------------------------------------
(* What was learned, as what differs between it and the action: a rule, a  *)
(* preference (of a concept without such a rule), and how many of the      *)
(* agent and the merchant are trusted weakly.                              *)

Learned == [ruled : BOOLEAN, preferred : BOOLEAN, weak : 0..2]

\* composeAdaptiveAuthorityDecision
Adaptive(baseline, learned) ==
  CASE baseline \in {"BLOCK", "REQUIRE_APPROVAL"} -> baseline
    [] baseline \in {"ALLOW", "ALLOW_WITH_MONITORING"}
         /\ \/ learned.ruled
            \/ learned.weak = 2
            \/ learned.weak = 1 /\ baseline = "ALLOW_WITH_MONITORING"
       -> "REQUIRE_APPROVAL"
    [] baseline = "ALLOW" /\ ~learned.ruled
         /\ (learned.weak = 1 \/ (learned.weak = 0 /\ learned.preferred))
       -> "ALLOW_WITH_MONITORING"
    [] OTHER -> baseline

\* evaluateAuthorityRequest, then composeAdaptiveAuthorityDecision
Outcome(gate, granted, learned) == Adaptive(Combine(gate, granted), learned)

----------------------------------------------------------------------------
ASSUME RulesAssumption ==
  /\ KindOf \in [Constraint -> Kind]
  /\ Required \subseteq Judge
  /\ Devil \in Judge
  /\ None \notin Nat
  /\ None \notin Merchant
  /\ \A S \in SUBSET Merchant : None # S
  /\ None \notin Decision
  /\ Results \subseteq [Judge -> Result]
  /\ Scopes \subseteq Scope
  /\ Requests \subseteq Request
  /\ Exposures \subseteq Nat

----------------------------------------------------------------------------
(* What is decided in the end, by what was learned: granted is what the    *)
(* scope of the request decides.  LearnedDecisions says what must come of  *)
(* it under the memory.                                                    *)

\* The gate's decisions on what an answering judge says against an enforced
\* constraint.
ContradictedGates ==
  {Gate(Status(results, high), high) : high \in BOOLEAN,
     results \in {r \in Results : \E c \in Enforced, j \in Judge :
                    r[j].ok /\ "CONTRADICTED" \in r[j].said[c]}}

OnContradiction ==
  {<<learned, Outcome(gate, granted, learned)>> :
     learned \in Learned, gate \in ContradictedGates, granted \in Decision}

\* The gate's decisions on a high-consequence action when a judge has not
\* answered, or no judge spoke of an enforced constraint.
UnjudgedGates ==
  {Gate(Status(results, TRUE), TRUE) :
     results \in {r \in Results :
       /\ ~Unavailable(r, TRUE)
       /\ \/ \E c \in Enforced : Said(r, c) = {}
          \/ \E j \in Judge : ~r[j].ok}}

OnSilence ==
  {<<learned, Outcome(gate, granted, learned)>> :
     learned \in Learned, gate \in UnjudgedGates, granted \in Decision}

\* What a scope and one delegated from it decide on the same request.
DelegatedPairs ==
  UNION {{<<ScopeDecision(pair[1], request, spent), ScopeDecision(pair[2], request, spent)>> :
            request \in Requests, spent \in Exposures} :
          pair \in {p \in Scopes \X Scopes : ScopeSubset(p[2], p[1])}}

\* What is decided in the end for the scope and for the delegated one.
OnDelegation ==
  {<<learned, Outcome(gate, granted[1], learned), Outcome(gate, granted[2], learned)>> :
     learned \in Learned, gate \in Decision, granted \in DelegatedPairs}
=============================================================================
