-------------------------- MODULE GatewayInvariant --------------------------
(***************************************************************************)
(* The inductive invariant behind the safety of TwoPhaseGateway: the       *)
(* exposure entry of a key is a lock.  From the moment a call reserves the *)
(* entry until it settles, releases or hands the key over to an open       *)
(* reservation, the call is the only one that works under the key.         *)
(***************************************************************************)
EXTENDS GatewayProperties

\* A call at these labels holds the entry of its key.
BeforePC  == ArmedPC
HoldingPC == BeforePC \cup {"ok_grant", "ok_exposure", "fail_exposure",
               "unk_idem", "unk_grant", "unk_reserve",
               "rec_expose", "rec_release"}

\* Nothing was paid under the key of a call at these labels ...
UnpaidPC == BeforePC \cup {"fail_exposure", "rec_release"}

\* ... and at these labels the grant of the call has paid.
PaidPC == {"ok_grant", "ok_exposure", "ok_root", "ok_idem", "ok_ledger",
           "ok_lifecycle", "rec_expose", "rec_grant", "rec_paid"}

OneHolder ==
  \A p, q \in Proc :
    p # q /\ pc[p] \in HoldingPC /\ pc[q] \in HoldingPC
      => KeyFor(p) # KeyFor(q)

HolderHasEntry ==
  \A p \in Proc : pc[p] \in HoldingPC => main[KeyFor(p)] = InFlight(Act(p))

\* Under the key of a holder only the holder's grant can have paid.
HolderPaysAlone ==
  \A p \in Proc : pc[p] \in HoldingPC =>
    \A g \in GrantsOf(KeyFor(p)) : Paid(g) => g = req[p]

UnpaidHolders == \A p \in Proc : pc[p] \in UnpaidPC => Unpaid(KeyFor(p))

PaidCalls == \A p \in Proc : pc[p] \in PaidPC => Paid(req[p])

\* An open reservation has taken the entry over from the call that died in
\* doubt: no call holds the key, and the entry stays.
OpenHoldsEntry ==
  \A a \in Action : reservation[a] = "OPEN" =>
    /\ main[KeyOf[a]] = InFlight(a)
    /\ ActionOf[reservedBy[a]] = a
    /\ \A g \in GrantsOf(KeyOf[a]) : Paid(g) => g = reservedBy[a]
    /\ \A p \in Proc : pc[p] \in HoldingPC => KeyFor(p) # KeyOf[a]

\* What a reconciliation was told is still true when it resolves.
ToldTheTruth ==
  \A p \in Proc : pc[p] = "rec_resolve" =>
    /\ reservation[Act(p)] # "NONE"
    /\ reservation[Act(p)] = "OPEN" =>
         /\ req[p] = reservedBy[Act(p)]
         /\ answer[p] = "SUCCESS" <=> Paid(req[p])

ReleasedIsEmpty ==
  \A k \in Key : main[k].status = "NONE" => main[k] = NoEntry

\* The lock discipline alone.
LockInv ==
  /\ OneHolder
  /\ HolderHasEntry
  /\ HolderPaysAlone
  /\ UnpaidHolders
  /\ PaidCalls
  /\ OpenHoldsEntry
  /\ ToldTheTruth
  /\ ReleasedIsEmpty
  /\ EffectHoldsExposure
  /\ AtMostOnceEffect

IInv == TypeOK /\ LockInv /\ PaidRecordsAreTrue

-----------------------------------------------------------------------------
(* The invariant behind BudgetRespected: the ledger is within its            *)
(* thresholds, and the entry that a remedy has in the group of the intent is *)
(* a lock of its own, which no call gives back after a payment.              *)

CommitPC == GatePC \cup ArmedPC \cup SettlePC
\* A remedy's call at these labels holds the root entry of its key.
RootPC == {"cm_consume", "cm_committing", "cm_invoke", "fail_exposure", "fail_root"}
HoldsRoot(p) == rooted[p] /\ pc[p] \in RootPC

EntriesNameActions ==
  \A k \in Key :
    /\ Held(main, k) => main[k].action \in Action
    /\ Held(root, k) => root[k].action \in Action

\* Only remedies reserve in the group of the intent, and when the budget can
\* be read all of them do.
RootedAreRemedies ==
  \A p \in Proc :
    /\ pc[p] \in {"cm_root", "ok_root", "fail_root"} => rooted[p]
    /\ rooted[p] => Act(p) \in Remedy
    /\ pc[p] \in CommitPC /\ ~StateReadMayFail /\ Act(p) \in Remedy => rooted[p]

RootHolders ==
  \A p \in Proc : HoldsRoot(p) =>
    /\ root[KeyFor(p)] = InFlight(Act(p))
    /\ \A q \in Proc : HoldsRoot(q) /\ KeyFor(q) = KeyFor(p) => q = p

PaidRemediesAreCharged ==
  \A g \in Grant : Paid(g) /\ ActionOf[g] \in Remedy /\ ~StateReadMayFail =>
    /\ Held(root, KeyOfGrant(g))
    /\ root[KeyOfGrant(g)].action = ActionOf[g]
    /\ \A p \in Proc : HoldsRoot(p) => KeyFor(p) # KeyOfGrant(g)

LedgerWithinLimits ==
  \A grp \in Group :
    Exposure(grp) = 0 \/ \E n \in Thresholds(grp) : Exposure(grp) <= n

BudgetInv ==
  /\ EntriesNameActions
  /\ RootedAreRemedies
  /\ RootHolders
  /\ PaidRemediesAreCharged
  /\ LedgerWithinLimits

-----------------------------------------------------------------------------
(* The invariant behind UnknownIsReconcilable and ReconciliationSettles: a   *)
(* key in doubt is in somebody's hands.                                      *)

\* A call at these labels has registered the nonce of its grant.
NoncePC == {"cm_regrant", "cm_reserve"} \cup ArmedPC \cup SettlePC
\* And has not reserved for a reconciliation.
FreshPC == NoncePC \ {"unk_ledger", "unk_lifecycle"}

NoncesAreSingle ==
  /\ \A p \in Proc : pc[p] \in NoncePC => req[p] \in nonces
  /\ \A p, q \in Proc :
       pc[p] \in NoncePC /\ pc[q] \in NoncePC /\ req[p] = req[q] => p = q

\* A reservation is made by a call of its action that has used its nonce: a
\* call of a sole grant finds none before it makes one.
ReservedOnce ==
  /\ \A a \in Action : reservation[a] # "NONE" =>
       /\ ActionOf[reservedBy[a]] = a
       /\ reservedBy[a] \in nonces
       /\ grant[reservedBy[a]] # "ABSENT"
  /\ \A p \in Proc : pc[p] \in FreshPC /\ Sole(req[p]) => reservation[Act(p)] = "NONE"

\* The grant behind a call in COMMIT or in a reconciliation was minted, and
\* nobody else consumes it before the call does.
GrantsAreThere ==
  \A p \in Proc :
    /\ pc[p] \in {"cm_begin", "cm_nonce"} \cup NoncePC \cup ReconcilePC
         => grant[req[p]] # "ABSENT"
    /\ pc[p] \in ReconcilePC => live[p] \/ req[p] \in expired
UnconsumedPC == {"ok_grant", "unk_idem", "unk_grant", "unk_reserve", "rec_expose", "rec_grant"}
NotYetConsumed ==
  /\ \A p \in Proc : pc[p] \in UnconsumedPC => grant[req[p]] # "CONSUMED"
  /\ \A a \in Action : reservation[a] = "OPEN" => grant[reservedBy[a]] # "CONSUMED"

\* After a reconciliation has committed the exposure it is alone under the key.
SettlersAreAlone ==
  \A p \in Proc : pc[p] = "rec_grant" =>
    /\ main[KeyFor(p)] = [status |-> "COMMITTED", action |-> Act(p)]
    /\ \A q \in Proc : pc[q] = "rec_grant" /\ KeyFor(q) = KeyFor(p) => q = p

\* Who has a key in doubt in hand: the call that is about to reserve, or a
\* reconciliation.
InHandPC == {"unk_grant", "unk_reserve", "rec_expose", "rec_grant", "rec_paid",
             "rec_release", "rec_unpaid"}
DoubtIsInHand ==
  Undisturbed => \A k \in Key :
    idem[k] = "UNKNOWN" /\ (\A g \in GrantsOf(k) : Sole(g)) =>
      \/ \E a \in Action : KeyOf[a] = k /\ reservation[a] = "OPEN"
      \/ \E p \in Proc : KeyFor(p) = k /\ pc[p] \in InHandPC
SettlingPC == {"rec_expose", "rec_grant", "rec_release"}
ResolvedIsInHand ==
  Undisturbed => \A a \in Action :
    reservation[a] = "RESOLVED" /\ Sole(reservedBy[a]) =>
      \/ Settled(a)
      \/ \E p \in Proc : req[p] = reservedBy[a] /\ pc[p] \in SettlingPC

DoubtInv ==
  /\ NoncesAreSingle
  /\ ReservedOnce
  /\ GrantsAreThere
  /\ NotYetConsumed
  /\ SettlersAreAlone
  /\ DoubtIsInHand
  /\ ResolvedIsInHand
=============================================================================
