---------------------------- MODULE OutcomeRules ----------------------------
(***************************************************************************)
(* The rules of an outcome contract (packages/outcome-core/src): what a    *)
(* requirement's state is given the facts, how the states are aggregated,  *)
(* which moves of the contract are legal, what a payment does to it.       *)
(*                                                                         *)
(* Facts are what the comparisons tell apart: quantities up to Required, a *)
(* delivery before or after the deadline or expected late.  The templates  *)
(* and constraints that become requirements are HARD or SAFETY_CRITICAL    *)
(* (services/outcome-service/src/templates.ts), so every concept is        *)
(* critical here.                                                          *)
(***************************************************************************)
EXTENDS Integers, FiniteSets

CONSTANTS
  Required,  \* the quantity asked for
  None       \* a fact not observed

ASSUME RulesAssumption == Required \in Nat \ {0} /\ None \notin Nat

Concept == {"quantity_received", "payment_settled", "delivery_before"}

ReqState == {"PENDING", "SATISFIED", "PARTIAL", "AT_RISK", "BREACHED", "CONFLICTED",
             "UNKNOWN"}
Judged == {"IN_PROGRESS", "AT_RISK", "PARTIAL", "SATISFIED", "BREACHED",
           "CONFLICTED", "AWAITING_EVIDENCE"}
ContractState == {"CREATED", "AWAITING_EXECUTION", "AWAITING_OUTCOME", "CLOSED",
                  "CANCELLED"} \cup Judged
Payment == {"PENDING", "SUCCESS", "UNKNOWN", "FAILED"}

Contract == [state : ContractState, payment : Payment, begun : BOOLEAN,
             req : [Concept -> ReqState]]
Created == [state |-> "CREATED", payment |-> "PENDING", begun |-> FALSE,
            req |-> [k \in Concept |-> "PENDING"]]

-----------------------------------------------------------------------------
(* Facts.                                                                  *)

Facts == [received : 0..Required \cup {None}, ordered : {Required, None},
          settled : {"yes", "no", None}, delivery : {"before", "after", "late", None},
          semantic : {"match", "mismatch", "unknown", None},
          conflicted : SUBSET Concept]

\* compareNumeric, GTE.
Quantity(observed) ==
  CASE observed = None     -> "PENDING"
    [] observed = Required -> "SATISFIED"
    [] observed = 0        -> "BREACHED"
    [] OTHER               -> "PARTIAL"

\* evaluatePredicate.  The quantity falls back on what was ordered, and then
\* on a semantic finding.
QuantityFact(f) ==
  LET state == Quantity(IF f.received # None THEN f.received ELSE f.ordered)
  IN  CASE f.semantic = "unknown" -> "UNKNOWN"
        [] f.semantic = "match" /\ state = "PENDING"    -> "SATISFIED"
        [] f.semantic = "mismatch" /\ state = "PENDING" -> "BREACHED"
        [] OTHER -> state
PaymentFact(f) ==
  CASE f.settled = None  -> "PENDING"
    [] f.settled = "yes" -> "SATISFIED"
    [] f.settled = "no"  -> "BREACHED"
DeliveryFact(f) ==
  CASE f.delivery = None     -> "PENDING"
    [] f.delivery = "before" -> "SATISFIED"
    [] f.delivery = "late"   -> "AT_RISK"
    [] f.delivery = "after"  -> "BREACHED"
Evaluate(f, k) ==
  CASE k = "quantity_received" -> QuantityFact(f)
    [] k = "payment_settled"   -> PaymentFact(f)
    [] k = "delivery_before"   -> DeliveryFact(f)
EvaluateAll(f) ==
  [k \in Concept |-> IF k \in f.conflicted THEN "CONFLICTED" ELSE Evaluate(f, k)]

\* Accepted claims about the quantity, under the concept of the requirement
\* and under another name of its family, and about the delivery.
Claims == [received : SUBSET (0..Required), alias : SUBSET (0..Required)]

\* deriveObservations.  One value under a name is observed, several conflict;
\* a conflict under the other name leaves the quantity unobserved.  What was
\* ordered is a fact of the contract, as is a payment that succeeded.
Derive(claims, payment) ==
  LET Of(values) == IF Cardinality(values) = 1 THEN CHOOSE v \in values : TRUE ELSE None
  IN  [received |-> IF claims.received # {} THEN Of(claims.received) ELSE Of(claims.alias),
       ordered |-> Required,
       settled |-> IF payment = "SUCCESS" THEN "yes" ELSE None,
       delivery |-> None,
       semantic |-> None,
       conflicted |-> {k \in Concept : k = "quantity_received"
                                         /\ Cardinality(claims.received) > 1}]

-----------------------------------------------------------------------------
(* Aggregation and moves.                                                  *)

\* aggregateRequirementStates when every requirement is critical: the worst
\* state of any requirement is the state of the contract.
Worst == <<"BREACHED", "CONFLICTED", "PARTIAL", "AT_RISK">>
Aggregate(req) ==
  LET Has(i) == \E k \in Concept : req[k] = Worst[i]
  IN  IF \E i \in 1..4 : Has(i)
      THEN Worst[CHOOSE i \in 1..4 : Has(i) /\ \A j \in 1..(i - 1) : ~Has(j)]
      ELSE IF \A k \in Concept : req[k] = "SATISFIED" THEN "SATISFIED"
                                                     ELSE "AWAITING_EVIDENCE"

\* ALLOWED in transitions.ts, between the states some caller asks for.
Allowed == [s \in ContractState |->
  CASE s = "AWAITING_OUTCOME"  -> Judged
    [] s = "IN_PROGRESS"       -> Judged \ {"IN_PROGRESS"}
    [] s = "AT_RISK"           -> Judged \ {"AT_RISK"}
    [] s = "PARTIAL"           -> {"SATISFIED", "BREACHED", "AT_RISK", "AWAITING_EVIDENCE"}
    [] s = "SATISFIED"         -> {"CLOSED"}
    [] s = "BREACHED"          -> {"CLOSED"}
    [] s = "CONFLICTED"        -> {"AWAITING_EVIDENCE", "PARTIAL", "BREACHED", "SATISFIED"}
    [] s = "AWAITING_EVIDENCE" -> Judged \ {"AWAITING_EVIDENCE"}
    [] s = "CREATED"           -> {"AWAITING_EXECUTION", "CANCELLED"}
    [] s = "AWAITING_EXECUTION" -> {"AWAITING_OUTCOME", "CANCELLED"}
    [] OTHER                   -> {}]
MayMove(s, t) == t = s \/ t \in Allowed[s]

\* applyPaymentSuccess, applyPaymentUnknown, applyPaymentFailed.
Refused(contract, status) == status # "FAILED" /\ contract.state = "SATISFIED"
PaidState(state, status) ==
  CASE status = "SUCCESS" /\ state \in {"CREATED", "AWAITING_EXECUTION"} -> "AWAITING_OUTCOME"
    [] status = "UNKNOWN" /\ state = "CREATED" -> "AWAITING_EXECUTION"
    [] status = "FAILED" /\ state = "CREATED"  -> "CANCELLED"
    [] OTHER -> state
\* Fault: a payment settles the outcome.
PayAndSatisfy(contract, status) ==
  [contract EXCEPT !.payment = status, !.begun = @ \/ status = "SUCCESS",
     !.state = IF status = "SUCCESS" THEN "SATISFIED" ELSE PaidState(@, status)]

ApplyPayment(contract, status) ==
  [contract EXCEPT !.payment = status, !.state = PaidState(@, status),
                   !.begun = @ \/ status = "SUCCESS"]

\* The trigger of a contract, if it has one: the condition is which
\* requirements are in the state that gives the trigger its kind.
TriggerKinds == {"PARTIAL", "AT_RISK", "BREACHED", "CONFLICTED"}
Trigger == [kind : TriggerKinds, concepts : SUBSET Concept]
TriggerOf(contract) ==
  [kind |-> contract.state, concepts |-> {k \in Concept : contract.req[k] = contract.state}]
=============================================================================
