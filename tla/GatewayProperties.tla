------------------------- MODULE GatewayProperties -------------------------
(***************************************************************************)
(* What TwoPhaseGateway promises, and what its documents claim of it.      *)
(***************************************************************************)
EXTENDS TwoPhaseGateway

Quiet == \A p \in Proc : pc[p] = "idle"

GrantsOf(k) == {g \in Grant : KeyOfGrant(g) = k}
Unpaid(k) == \A g \in GrantsOf(k) : effects[g] = 0
Paid(g) == effects[g] > 0

-----------------------------------------------------------------------------
(* Safety.                                                                 *)

\* A side effect happens at most once per execution key, whichever grants,
\* prepared actions, retries and crashes lead there: neither one grant twice
\* nor two grants of one key (services/gateway-service/src/two-phase.ts, the
\* commit path as a whole).
AtMostOnceEffect ==
  /\ \A g \in Grant : effects[g] <= 1
  /\ \A g, h \in Grant :
       Paid(g) /\ Paid(h) /\ KeyOfGrant(g) = KeyOfGrant(h) => g = h

\* When the adapter is about to be called (two-phase.ts, adapter.invoke), this
\* call alone is, its key holds this action's exposure, nothing was paid and
\* nothing awaits reconciliation under the key.
ExclusiveInvocation ==
  \A p \in Proc : pc[p] = "cm_invoke" =>
    /\ main[KeyFor(p)] = InFlight(Act(p))
    /\ Unpaid(KeyFor(p))
    /\ \A a \in Action : KeyOf[a] = KeyFor(p) => reservation[a] # "OPEN"
    /\ \A q \in Proc \ {p} : pc[q] = "cm_invoke" => KeyFor(q) # KeyFor(p)

\* No store says that a payment was made when none was: not the replay answer
\* of COMMIT, not the ledger, the exposure, the grant or the lifecycle; this
\* includes what a reconciliation writes.
PaidRecordsAreTrue ==
  /\ \A k \in Key :
       \/ idem[k] = "SUCCESS"
       \/ ledger[k] = "SUCCESS"
       \/ main[k].status = "COMMITTED"
       => ~ Unpaid(k)
  /\ \A g \in Grant : grant[g] = "CONSUMED" => Paid(g)
  /\ \A a \in Action : record[a].lifecycle = "SUCCEEDED" =>
       \E g \in Grant : ActionOf[g] = a /\ Paid(g)

\* Money that was moved stays charged to the group for ever: a retry, a late
\* failure, a second reconciliation or a crash never frees the exposure of an
\* effect that happened.
EffectHoldsExposure ==
  \A g \in Grant : Paid(g) =>
    /\ Held(main, KeyOfGrant(g))
    /\ main[KeyOfGrant(g)].action = ActionOf[g]

\* The effects that happened never exceed the largest threshold that was
\* applied in a group; remedies count in the group of the intent as well
\* (reserveIfUnderThreshold, rootExposure).
PaidActions == {ActionOf[g] : g \in {h \in Grant : Paid(h)}}
Charged(grp) == {a \in PaidActions :
                   GroupOf[a] = grp \/ (grp = RootGroup /\ a \in Remedy)}
Thresholds(grp) == {Limit[a] : a \in {b \in Action : GroupOf[b] = grp}}
                     \cup (IF grp = RootGroup THEN {RootLimit} ELSE {})
Spent(grp) == Cardinality(UNION {{a} \X (1..Amount[a]) : a \in Charged(grp)})
BudgetRespected ==
  \A grp \in Group : Charged(grp) # {} =>
    \E n \in Thresholds(grp) : Spent(grp) <= n

\* No call was lost, and no grant was revoked or reached its expiry.
Undisturbed ==
  /\ crashes = 0
  /\ expired = {}
  /\ \A g \in Grant : grant[g] # "REVOKED"

\* No other grant was minted for the action of this one.
Sole(g) == \A h \in Grant : ActionOf[h] = ActionOf[g] => h = g

\* Once all calls have ended undisturbed, an UNKNOWN key whose actions have one
\* grant each has an open reservation from which it can be reconciled: no key
\* is stuck (two-phase.ts, the UNKNOWN branch of commit against the early
\* returns of a reconciliation).
UnknownIsReconcilable ==
  Quiet /\ Undisturbed => \A k \in Key :
    idem[k] = "UNKNOWN" /\ (\A g \in GrantsOf(k) : Sole(g)) =>
      \E a \in Action : KeyOf[a] = k /\ reservation[a] = "OPEN"

\* Once all calls have ended undisturbed, the resolved reservation of an action
\* with one grant is settled in every store: a payment is committed and has
\* consumed its grant, and without one the key's exposure is free of the action
\* (reconcileUnknownExecution).
Settled(a) ==
  IF Paid(reservedBy[a])
    THEN /\ main[KeyOf[a]] = [status |-> "COMMITTED", action |-> a]
         /\ grant[reservedBy[a]] = "CONSUMED"
    ELSE main[KeyOf[a]].action # a
ReconciliationSettles ==
  Quiet /\ Undisturbed => \A a \in Action :
    reservation[a] = "RESOLVED" /\ Sole(reservedBy[a]) => Settled(a)

-----------------------------------------------------------------------------
(* Liveness.                                                               *)

\* A call whose adapter has answered SUCCESS or UNKNOWN gets this recorded
\* under its key, if its grant is not revoked: none of the writes that come
\* before it refuses the call, even when the grant expires in between.
Answered(k) == \E p \in Proc : KeyFor(p) = k /\ pc[p] \in {"ok_grant", "unk_idem"}
SettlementCompletes ==
  \A k \in Key : Answered(k) ~> idem[k] \in {"SUCCESS", "UNKNOWN"}

-----------------------------------------------------------------------------
(* Refinement.                                                             *)

\* The commit path implements PaymentOnce with the exposure entry as the claim.
Once == INSTANCE PaymentOnce WITH claim <- main, paid <- effects
RefinesPaymentOnce == Once!Spec
=============================================================================
