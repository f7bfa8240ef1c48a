--------------------------- MODULE GatewayProofs ---------------------------
(***************************************************************************)
(* Theorems about TwoPhaseGateway, for every value of its constants.       *)
(***************************************************************************)
EXTENDS GatewayInvariant, FiniteSetTheorems, TLAPS

-----------------------------------------------------------------------------
(* Types.                                                                  *)

\* The null values have the types of the slots they stand in.
LEMMA NullTypes ==
  /\ AnyGrant \in Grant
  /\ NoRecord \in ActionRecord
  /\ NoEntry \in Entry
  /\ \A a \in Action : InFlight(a) \in Entry
<1>1. AnyGrant \in Grant
  BY ConstantsAssumption DEF AnyGrant
<1>2. NoRecord \in ActionRecord
  BY DEF NoRecord, ActionRecord, Lifecycle
<1>3. NoEntry \in Entry /\ \A a \in Action : InFlight(a) \in Entry
  BY DEF NoEntry, InFlight, Entry
<1> QED
  BY <1>1, <1>2, <1>3

\* A call that goes on keeps the types of what it holds.
LEMMA GotoTypes ==
  ASSUME CallTypeOK, NEW p \in Proc, NEW l \in PC, Goto(p, l)
  PROVE  CallTypeOK'
BY DEF CallTypeOK, Goto

\* So does a call that returns.
LEMMA ReturnTypes ==
  ASSUME CallTypeOK, NEW p \in Proc, Return(p)
  PROVE  CallTypeOK'
<1>1. "idle" \in PC /\ "FAILED" \in AdapterAnswer
  BY DEF PC, AdapterAnswer
<1> QED
  BY <1>1, NullTypes DEF CallTypeOK, Return

\* So does a call that begins.
LEMMA BeginTypes ==
  ASSUME CallTypeOK, StoresTypeOK, NEW p \in Proc, NEW g \in Grant,
         NEW l \in PC, NEW told \in AdapterAnswer, NEW withRoot \in BOOLEAN,
         Begin(p, g, l, told, withRoot)
  PROVE  CallTypeOK'
<1>1. record[ActionOf[g]] \in ActionRecord
  BY ConstantsAssumption DEF StoresTypeOK
<1> QED
  BY <1>1 DEF CallTypeOK, Begin

\* A compare-and-set leaves well-formed records.
LEMMA TryMoveTypes ==
  ASSUME record \in [Action -> ActionRecord], NEW a \in Action,
         NEW from, NEW version, NEW to \in Lifecycle, TryMove(a, from, version, to)
  PROVE  record' \in [Action -> ActionRecord]
<1>1. [lifecycle |-> to, version |-> record[a].version + 1] \in ActionRecord
  BY DEF ActionRecord
<1> QED
  BY <1>1 DEF TryMove, Moved

\* Committing an entry leaves an entry.
LEMMA CommittedType ==
  ASSUME NEW entries \in [Key -> Entry], NEW k \in Key
  PROVE  /\ Committed(entries, k) \in [Key -> Entry]
         /\ Committed(entries, k) =
              [entries EXCEPT ![k] = [status |-> "COMMITTED",
                                      action |-> entries[k].action]]
<1> DEFINE e == [status |-> "COMMITTED", action |-> entries[k].action]
<1>1. e \in Entry
  BY DEF Entry
<1>2. [entries[k] EXCEPT !.status = "COMMITTED"] = e
  BY DEF Entry
<1>3. Committed(entries, k) = [entries EXCEPT ![k] = e]
  BY <1>2 DEF Committed
<1> QED
  BY <1>1, <1>3

\* A step of a running call goes on, returns, or is the adapter's answer.
LEMMA StepShape ==
  ASSUME NEW p \in Proc, Step(p)
  PROVE  \/ \E l \in PC : Goto(p, l)
         \/ Return(p)
         \/ CommitInvoke(p)
<1> USE DEF PC
<1>1. CASE AuthorizeStep(p)
  BY <1>1 DEF AuthorizeStep, PreparePut, MintPut, AuthorizeCheckReservation, AuthorizeReadGrant, AuthorizePutToken, AuthorizeMove, AuthorizePC
<1>2. CASE GateStep(p)
  BY <1>2 DEF GateStep, CommitReplay, CommitReadTip, CommitReadToken, CommitReadGrant, CommitBegin, CommitRegisterNonce, CommitRereadGrant, CommitReserve, GatePC, ArmedPC
<1>3. CASE ExecuteStep(p)
  BY <1>3 DEF ExecuteStep, CommitReserveRoot, CommitUnreserve, CommitConsumeToken, CommitMove, CommitInvoke, ArmedPC
<1>4. CASE SettleStep(p)
  BY <1>4 DEF SettleStep, OkConsumeGrant, OkCommitExposure, OkCommitRoot, OkComplete, OkAppend, OkMove, FailRelease, FailReleaseRoot, FailComplete, FailAppend, FailMove, UnknownMark, UnknownLockGrant, UnknownReserve, UnknownAppend, UnknownMove, SettlePC
<1>5. CASE ReconcileStep(p)
  BY <1>5 DEF ReconcileStep, ReconcileResolve, ReconcileCommitExposure, ReconcileConsumeGrant, ReconcilePaid, ReconcileRelease, ReconcileUnpaid, ReconcilePC
<1> QED
  BY <1>1, <1>2, <1>3, <1>4, <1>5 DEF Step

\* So a step of a running call keeps the types of what the calls hold.
LEMMA StepCallTypes ==
  ASSUME CallTypeOK, NEW p \in Proc, Step(p)
  PROVE  CallTypeOK'
<1>1. CASE \E l \in PC : Goto(p, l)
  BY <1>1, GotoTypes
<1>2. CASE Return(p)
  BY <1>2, ReturnTypes
<1>3. CASE CommitInvoke(p)
  <2>1. \A ans \in Answers : AfterAnswer(ans) \in PC /\ ans \in AdapterAnswer
    BY ConstantsAssumption DEF AfterAnswer, PC, SettlePC
  <2> QED
    BY <1>3, <2>1 DEF CommitInvoke, CallTypeOK
<1> QED
  BY <1>1, <1>2, <1>3, StepShape

\* The steps up to the token keep the types of the stores.
LEMMA AuthorizeStepStoreTypes ==
  ASSUME TypeOK, NEW p \in Proc, AuthorizeStep(p)
  PROVE  StoresTypeOK' /\ WorldTypeOK'
<1> USE DEF StoresTypeOK, WorldTypeOK, stores, world
<1>0. /\ req[p] \in Grant /\ Act(p) \in Action /\ KeyFor(p) \in Key
      /\ TypeOK
  BY ConstantsAssumption DEF TypeOK, CallTypeOK, Act, KeyFor, KeyOfGrant
<1>1. CASE PreparePut(p)
  BY <1>0, <1>1 DEF TypeOK, PreparePut, ActionRecord, Lifecycle, NoRecord
<1>2. CASE MintPut(p)
  BY <1>0, <1>2 DEF TypeOK, MintPut, ConsumptionState
<1>3. CASE AuthorizeCheckReservation(p)
  BY <1>0, <1>3 DEF TypeOK, AuthorizeCheckReservation
<1>4. CASE AuthorizeReadGrant(p)
  BY <1>0, <1>4 DEF TypeOK, AuthorizeReadGrant
<1>5. CASE AuthorizePutToken(p)
  BY <1>0, <1>5 DEF TypeOK, AuthorizePutToken
<1>6. CASE AuthorizeMove(p)
  BY <1>0, <1>6, TryMoveTypes DEF TypeOK, AuthorizeMove, Lifecycle
<1> QED
  BY <1>1, <1>2, <1>3, <1>4, <1>5, <1>6
     DEF AuthorizeStep

\* So do the checks of COMMIT up to the reservation,
LEMMA GateStepStoreTypes ==
  ASSUME TypeOK, NEW p \in Proc, GateStep(p)
  PROVE  StoresTypeOK' /\ WorldTypeOK'
<1> USE DEF StoresTypeOK, WorldTypeOK, stores, world
<1>0. /\ req[p] \in Grant /\ Act(p) \in Action /\ KeyFor(p) \in Key
      /\ TypeOK
  BY ConstantsAssumption DEF TypeOK, CallTypeOK, Act, KeyFor, KeyOfGrant
<1>1. CASE CommitReplay(p)
  BY <1>0, <1>1 DEF TypeOK, CommitReplay
<1>2. CASE CommitReadTip(p)
  BY <1>0, <1>2 DEF TypeOK, CommitReadTip
<1>3. CASE CommitReadToken(p)
  BY <1>0, <1>3 DEF TypeOK, CommitReadToken
<1>4. CASE CommitReadGrant(p)
  BY <1>0, <1>4 DEF TypeOK, CommitReadGrant
<1>5. CASE CommitBegin(p)
  BY <1>0, <1>5 DEF TypeOK, CommitBegin
<1>6. CASE CommitRegisterNonce(p)
  BY <1>0, <1>6 DEF TypeOK, CommitRegisterNonce
<1>7. CASE CommitRereadGrant(p)
  BY <1>0, <1>7 DEF TypeOK, CommitRereadGrant
<1>8. CASE CommitReserve(p)
  BY <1>0, <1>8, NullTypes DEF TypeOK, CommitReserve
<1> QED
  BY <1>1, <1>2, <1>3, <1>4, <1>5, <1>6, <1>7, <1>8
     DEF GateStep

\* the steps from the reservation to the adapter,
LEMMA ExecuteStepStoreTypes ==
  ASSUME TypeOK, NEW p \in Proc, ExecuteStep(p)
  PROVE  StoresTypeOK' /\ WorldTypeOK'
<1> USE DEF StoresTypeOK, WorldTypeOK, stores, world
<1>0. /\ req[p] \in Grant /\ Act(p) \in Action /\ KeyFor(p) \in Key
      /\ TypeOK
  BY ConstantsAssumption DEF TypeOK, CallTypeOK, Act, KeyFor, KeyOfGrant
<1>1. CASE CommitReserveRoot(p)
  BY <1>0, <1>1, NullTypes DEF TypeOK, CommitReserveRoot
<1>2. CASE CommitUnreserve(p)
  BY <1>0, <1>2, NullTypes DEF TypeOK, CommitUnreserve, Released
<1>3. CASE CommitConsumeToken(p)
  BY <1>0, <1>3 DEF TypeOK, CommitConsumeToken
<1>4. CASE CommitMove(p)
  BY <1>0, <1>4, TryMoveTypes DEF TypeOK, CommitMove, Lifecycle
<1>5. CASE CommitInvoke(p)
  BY <1>0, <1>5 DEF TypeOK, CommitInvoke, MayHappen
<1> QED
  BY <1>1, <1>2, <1>3, <1>4, <1>5
     DEF ExecuteStep

\* the steps after the adapter has answered,
LEMMA SettleStepStoreTypes ==
  ASSUME TypeOK, NEW p \in Proc, SettleStep(p)
  PROVE  StoresTypeOK' /\ WorldTypeOK'
<1> USE DEF StoresTypeOK, WorldTypeOK, stores, world
<1>0. /\ req[p] \in Grant /\ Act(p) \in Action /\ KeyFor(p) \in Key
      /\ TypeOK
  BY ConstantsAssumption DEF TypeOK, CallTypeOK, Act, KeyFor, KeyOfGrant
<1>1. CASE OkConsumeGrant(p)
  BY <1>0, <1>1 DEF TypeOK, OkConsumeGrant, ConsumptionState
<1>2. CASE OkCommitExposure(p)
  BY <1>0, <1>2, CommittedType DEF TypeOK, OkCommitExposure
<1>3. CASE OkCommitRoot(p)
  BY <1>0, <1>3, CommittedType DEF TypeOK, OkCommitRoot
<1>4. CASE OkComplete(p)
  BY <1>0, <1>4 DEF TypeOK, OkComplete
<1>5. CASE OkAppend(p)
  BY <1>0, <1>5 DEF TypeOK, OkAppend, Append
<1>6. CASE OkMove(p)
  BY <1>0, <1>6, TryMoveTypes DEF TypeOK, OkMove, Lifecycle
<1>7. CASE FailRelease(p)
  BY <1>0, <1>7, NullTypes DEF TypeOK, FailRelease, Released
<1>8. CASE FailReleaseRoot(p)
  BY <1>0, <1>8, NullTypes DEF TypeOK, FailReleaseRoot, Released
<1>9. CASE FailComplete(p)
  BY <1>0, <1>9 DEF TypeOK, FailComplete
<1>10. CASE FailAppend(p)
  BY <1>0, <1>10 DEF TypeOK, FailAppend, Append
<1>11. CASE FailMove(p)
  BY <1>0, <1>11, TryMoveTypes DEF TypeOK, FailMove, Lifecycle
<1>12. CASE UnknownMark(p)
  BY <1>0, <1>12 DEF TypeOK, UnknownMark
<1>13. CASE UnknownLockGrant(p)
  BY <1>0, <1>13 DEF TypeOK, UnknownLockGrant, ConsumptionState
<1>14. CASE UnknownReserve(p)
  BY <1>0, <1>14 DEF TypeOK, UnknownReserve
<1>15. CASE UnknownAppend(p)
  BY <1>0, <1>15 DEF TypeOK, UnknownAppend, Append
<1>16. CASE UnknownMove(p)
  BY <1>0, <1>16, TryMoveTypes DEF TypeOK, UnknownMove, Lifecycle
<1> QED
  BY <1>1, <1>2, <1>3, <1>4, <1>5, <1>6, <1>7, <1>8, <1>9, <1>10, <1>11,
     <1>12, <1>13, <1>14, <1>15, <1>16
     DEF SettleStep

\* and those of a reconciliation.
LEMMA ReconcileStepStoreTypes ==
  ASSUME TypeOK, NEW p \in Proc, ReconcileStep(p)
  PROVE  StoresTypeOK' /\ WorldTypeOK'
<1> USE DEF StoresTypeOK, WorldTypeOK, stores, world
<1>0. /\ req[p] \in Grant /\ Act(p) \in Action /\ KeyFor(p) \in Key
      /\ TypeOK
  BY ConstantsAssumption DEF TypeOK, CallTypeOK, Act, KeyFor, KeyOfGrant
<1>1. CASE ReconcileResolve(p)
  BY <1>0, <1>1 DEF TypeOK, ReconcileResolve
<1>2. CASE ReconcileCommitExposure(p)
  BY <1>0, <1>2, CommittedType DEF TypeOK, ReconcileCommitExposure
<1>3. CASE ReconcileConsumeGrant(p)
  BY <1>0, <1>3 DEF TypeOK, ReconcileConsumeGrant, ConsumptionState
<1>4. CASE ReconcilePaid(p)
  BY <1>0, <1>4 DEF TypeOK, ReconcilePaid
<1>5. CASE ReconcileRelease(p)
  BY <1>0, <1>5, NullTypes DEF TypeOK, ReconcileRelease, Released
<1>6. CASE ReconcileUnpaid(p)
  BY <1>0, <1>6 DEF TypeOK, ReconcileUnpaid
<1> QED
  BY <1>1, <1>2, <1>3, <1>4, <1>5, <1>6
     DEF ReconcileStep

\* The initial state is well typed.
LEMMA InitTypes == Init => TypeOK
BY NullTypes, ConstantsAssumption
   DEF Init, TypeOK, StoresTypeOK, WorldTypeOK, CallTypeOK, ConsumptionState,
       PC, AdapterAnswer

\* The stores, the calls and the world keep their types: in particular every
\* exposure entry has a status the ledger knows and a lifecycle is one of the
\* states of PreparedActionLifecycle (packages/protocol/src/enums.ts).
THEOREM TypeInvariant == Spec => []TypeOK
<1>1. Init => TypeOK
  BY InitTypes
<1>2. TypeOK /\ [Next]_vars => TypeOK'
  <2> SUFFICES ASSUME TypeOK, [Next]_vars
               PROVE  TypeOK'
    OBVIOUS
  <2>1. ASSUME NEW p \in Proc, BeginCall(p)
        PROVE  TypeOK'
    <3>1. UNCHANGED <<stores, world>>
      BY <2>1 DEF BeginCall, StartPrepare, StartMint, StartAuthorize,
                  StartCommit, StartReconcile
    <3>2. \E g \in Grant, l \in PC, told \in AdapterAnswer, r \in BOOLEAN :
            Begin(p, g, l, told, r)
      <4> USE DEF PC, PreparePC, AuthorizePC, GatePC, ReconcilePC, AdapterAnswer
      <4>1. ASSUME NEW g \in Grant,
                   StartPrepare(p, g) \/ StartMint(p, g) \/ StartAuthorize(p, g)
            PROVE  \E l \in PC : Begin(p, g, l, "FAILED", FALSE)
        BY <4>1 DEF StartPrepare, StartMint, StartAuthorize
      <4>2. ASSUME NEW g \in Grant, StartCommit(p, g)
            PROVE  \E r \in BOOLEAN : Begin(p, g, "cm_replay", "FAILED", r)
        BY <4>2 DEF StartCommit, RootExposure
      <4>3. ASSUME NEW a \in Action, reservation[a] = "OPEN",
                   Begin(p, reservedBy[a], "rec_resolve",
                         Report(reservedBy[a]), FALSE)
            PROVE  /\ reservedBy[a] \in Grant
                   /\ Report(reservedBy[a]) \in AdapterAnswer
        BY DEF TypeOK, StoresTypeOK, Report
      <4>4. CASE StartReconcile(p)
        BY <4>3, <4>4 DEF StartReconcile
      <4> QED
        BY <2>1, <4>1, <4>2, <4>4 DEF BeginCall
    <3>3. CallTypeOK'
      BY <3>2, BeginTypes DEF TypeOK
    <3> QED
      BY <3>1, <3>3 DEF TypeOK, StoresTypeOK, WorldTypeOK, stores, world
  <2>2. ASSUME NEW p \in Proc, Step(p)
        PROVE  TypeOK'
    <3>1. StoresTypeOK' /\ WorldTypeOK'
      BY <2>2, AuthorizeStepStoreTypes, GateStepStoreTypes,
         ExecuteStepStoreTypes, SettleStepStoreTypes, ReconcileStepStoreTypes
         DEF Step
    <3>2. CallTypeOK'
      BY <2>2, StepCallTypes DEF TypeOK
    <3> QED
      BY <3>1, <3>2 DEF TypeOK
  <2>3. CASE Environment
    <3>1. ASSUME NEW p \in Proc, Crash(p)
          PROVE  TypeOK'
      BY <3>1, ReturnTypes
         DEF Crash, TypeOK, StoresTypeOK, WorldTypeOK, stores
    <3>2. ASSUME NEW g \in Grant, Revoke(g) \/ Expire(g)
          PROVE  TypeOK'
      BY <3>2 DEF Revoke, Expire, TypeOK, StoresTypeOK, WorldTypeOK,
                  CallTypeOK, stores, world, call, ConsumptionState
    <3>3. CASE AdvanceTip
      BY <3>3 DEF AdvanceTip, TypeOK, StoresTypeOK, WorldTypeOK, CallTypeOK,
                  stores, call
    <3> QED
      BY <2>3, <3>1, <3>2, <3>3 DEF Environment
  <2>4. CASE UNCHANGED vars
    BY <2>4 DEF vars, stores, world, call, TypeOK, StoresTypeOK, WorldTypeOK,
                CallTypeOK
  <2> QED
    BY <2>1, <2>2, <2>3, <2>4 DEF Next
<1> QED
  BY <1>1, <1>2, PTL DEF Spec

-----------------------------------------------------------------------------
(* The entry of a key is a lock.                                           *)

\* A step that touches neither the exposure, the effects nor the reservations
\* keeps the lock discipline, when its call takes up no duty it did not have.
LEMMA QuietStep ==
  ASSUME TypeOK, LockInv, CallTypeOK', NEW p \in Proc, NEW l,
         UNCHANGED <<main, effects, reservation, reservedBy>>,
         pc' = [pc EXCEPT ![p] = l],
         \A q \in Proc \ {p} : req'[q] = req[q] /\ answer'[q] = answer[q],
         l \in HoldingPC \cup PaidPC => req'[p] = req[p],
         l \in HoldingPC => pc[p] \in HoldingPC,
         l \in UnpaidPC => pc[p] \in UnpaidPC,
         l \in PaidPC => pc[p] \in PaidPC,
         l # "rec_resolve"
  PROVE  LockInv'
<1> USE DEF TypeOK, CallTypeOK, LockInv
<1>1. \A q \in Proc : pc'[q] = IF q = p THEN l ELSE pc[q]
  OBVIOUS
<1>2. UnpaidPC \subseteq HoldingPC
  BY DEF UnpaidPC, HoldingPC
<1>3. \A q \in Proc : pc'[q] \in HoldingPC =>
        pc[q] \in HoldingPC /\ req'[q] = req[q] /\ KeyFor(q)' = KeyFor(q)
                            /\ Act(q)' = Act(q)
  BY <1>1 DEF KeyFor, KeyOfGrant, Act
<1>4. \A k \in Key : GrantsOf(k)' = GrantsOf(k) /\ (Unpaid(k)' <=> Unpaid(k))
  BY DEF GrantsOf, Unpaid, KeyOfGrant
<1>5. OneHolder'
  BY <1>3 DEF OneHolder
<1>6. HolderHasEntry'
  BY <1>3 DEF HolderHasEntry
<1>7. HolderPaysAlone'
  BY <1>3 DEF HolderPaysAlone, GrantsOf, Paid, KeyOfGrant
<1>8. UnpaidHolders'
  BY <1>1, <1>2, <1>3 DEF UnpaidHolders, Unpaid, GrantsOf, KeyOfGrant
<1>9. PaidCalls'
  BY <1>1 DEF PaidCalls, Paid
<1>10. OpenHoldsEntry'
  BY <1>3 DEF OpenHoldsEntry, GrantsOf, Paid, KeyOfGrant
<1>11. ToldTheTruth'
  BY <1>1 DEF ToldTheTruth, Paid, Act
<1>12. ReleasedIsEmpty' /\ EffectHoldsExposure' /\ AtMostOnceEffect'
  BY DEF ReleasedIsEmpty, EffectHoldsExposure, AtMostOnceEffect, Paid,
         KeyOfGrant, Held
<1> QED
  BY <1>5, <1>6, <1>7, <1>8, <1>9, <1>10, <1>11, <1>12

\* Such a step of call p.
QuietFor(p) ==
  /\ UNCHANGED <<main, effects, reservation, reservedBy>>
  /\ \A q \in Proc \ {p} : req'[q] = req[q] /\ answer'[q] = answer[q]
  /\ \E l \in PC \ {"rec_resolve"} :
       /\ pc' = [pc EXCEPT ![p] = l]
       /\ l \in HoldingPC \cup PaidPC => req'[p] = req[p]
       /\ l \in HoldingPC => pc[p] \in HoldingPC
       /\ l \in UnpaidPC => pc[p] \in UnpaidPC
       /\ l \in PaidPC => pc[p] \in PaidPC

\* A quiet step keeps the lock discipline.
LEMMA QuietForKeepsLock ==
  ASSUME TypeOK, LockInv, CallTypeOK', NEW p \in Proc, QuietFor(p)
  PROVE  LockInv'
BY QuietStep DEF QuietFor

\* A call that returns or crashes takes up no duty.
LEMMA ReturnIsQuiet ==
  ASSUME CallTypeOK, NEW p \in Proc, Return(p),
         UNCHANGED <<main, effects, reservation, reservedBy>>
  PROVE  QuietFor(p)
<1>1. \A q \in Proc \ {p} : req'[q] = req[q] /\ answer'[q] = answer[q]
  BY DEF Return, CallTypeOK
<1>2. /\ "idle" \in PC \ {"rec_resolve"}
      /\ "idle" \notin HoldingPC \cup UnpaidPC \cup PaidPC
  BY DEF PC, HoldingPC, BeforePC, ArmedPC, UnpaidPC, PaidPC
<1>3. pc' = [pc EXCEPT ![p] = "idle"]
  BY DEF Return
<1> QED
  BY <1>1, <1>2, <1>3 DEF QuietFor

\* Neither does one that begins, unless it begins to reconcile.
LEMMA BeginIsQuiet ==
  ASSUME CallTypeOK, NEW p \in Proc, NEW g, NEW told, NEW r,
         NEW l \in {"prep_put", "mint_put", "auth_reservation", "cm_replay"},
         Begin(p, g, l, told, r),
         UNCHANGED <<main, effects, reservation, reservedBy>>
  PROVE  QuietFor(p)
BY DEF QuietFor, Begin, CallTypeOK, PC, PreparePC, AuthorizePC, GatePC,
       HoldingPC, BeforePC, ArmedPC, UnpaidPC, PaidPC

\* The steps that do change what the lock discipline is about.
LockStep(p) ==
  \/ CommitReserve(p) \/ CommitUnreserve(p) \/ CommitInvoke(p)
  \/ OkCommitExposure(p) \/ FailRelease(p) \/ UnknownReserve(p)
  \/ ReconcileResolve(p) \/ ReconcileCommitExposure(p) \/ ReconcileRelease(p)

\* All other steps of a call are quiet.
LEMMA OtherStepsAreQuiet ==
  ASSUME CallTypeOK, NEW p \in Proc, Step(p), ~ LockStep(p)
  PROVE  QuietFor(p)
<1> USE DEF LockStep, PC, HoldingPC, BeforePC, ArmedPC, UnpaidPC, PaidPC
<1>1. CASE AuthorizeStep(p)
  <2>1. UNCHANGED <<main, effects, reservation, reservedBy>>
    BY <1>1 DEF AuthorizeStep, PreparePut, MintPut, AuthorizeCheckReservation,
       AuthorizeReadGrant, AuthorizePutToken, AuthorizeMove, stores
  <2>2. Return(p) \/ \E l \in AuthorizePC : Goto(p, l)
    BY <1>1 DEF AuthorizeStep, PreparePut, MintPut, AuthorizeCheckReservation,
       AuthorizeReadGrant, AuthorizePutToken, AuthorizeMove, AuthorizePC
  <2> QED
    BY <2>1, <2>2, ReturnIsQuiet DEF Goto, QuietFor, AuthorizePC
<1>2. CASE GateStep(p)
  <2>1. UNCHANGED <<main, effects, reservation, reservedBy>>
    BY <1>2 DEF GateStep, CommitReplay, CommitReadTip, CommitReadToken,
       CommitReadGrant, CommitBegin, CommitRegisterNonce, CommitRereadGrant,
       stores
  <2>2. Return(p) \/ \E l \in GatePC : Goto(p, l)
    BY <1>2 DEF GateStep, CommitReplay, CommitReadTip, CommitReadToken,
       CommitReadGrant, CommitBegin, CommitRegisterNonce, CommitRereadGrant,
       GatePC
  <2> QED
    BY <2>1, <2>2, ReturnIsQuiet DEF Goto, QuietFor, GatePC
<1>3. CASE ExecuteStep(p)
  <2>1. UNCHANGED <<main, effects, reservation, reservedBy>>
    BY <1>3 DEF ExecuteStep, CommitReserveRoot, CommitConsumeToken, CommitMove
  <2>2. Return(p) \/ (pc[p] \in ArmedPC /\ \E l \in ArmedPC : Goto(p, l))
    BY <1>3 DEF ExecuteStep, CommitReserveRoot, CommitConsumeToken, CommitMove
  <2> QED
    BY <2>1, <2>2, ReturnIsQuiet DEF Goto, QuietFor
<1>4. CASE SettleStep(p)
  <2> USE DEF SettlePC
  <2>1. UNCHANGED <<main, effects, reservation, reservedBy>>
    BY <1>4 DEF SettleStep, OkConsumeGrant, OkCommitRoot, OkComplete, OkAppend,
       OkMove, FailReleaseRoot, FailComplete, FailAppend, FailMove,
       UnknownMark, UnknownLockGrant, UnknownAppend, UnknownMove
  <2>2. \/ Return(p)
        \/ pc[p] \in PaidPC /\ \E l \in {"ok_idem", "ok_ledger", "ok_lifecycle"} :
                                  Goto(p, l)
        \/ pc[p] = "ok_grant" /\ Goto(p, "ok_exposure")
        \/ \E l \in {"fail_idem", "fail_ledger", "fail_lifecycle",
                     "unk_lifecycle"} : Goto(p, l)
        \/ pc[p] = "unk_idem" /\ Goto(p, "unk_grant")
        \/ pc[p] = "unk_grant" /\ Goto(p, "unk_reserve")
    BY <1>4 DEF SettleStep, OkConsumeGrant, OkCommitRoot, OkComplete, OkAppend,
       OkMove, FailReleaseRoot, FailComplete, FailAppend, FailMove,
       UnknownMark, UnknownLockGrant, UnknownAppend, UnknownMove
  <2> QED
    BY <2>1, <2>2, ReturnIsQuiet DEF Goto, QuietFor
<1>5. CASE ReconcileStep(p)
  <2>1. UNCHANGED <<main, effects, reservation, reservedBy>>
    BY <1>5 DEF ReconcileStep, ReconcileConsumeGrant, ReconcilePaid,
       ReconcileUnpaid
  <2>2. Return(p) \/ (pc[p] = "rec_grant" /\ Goto(p, "rec_paid"))
    BY <1>5 DEF ReconcileStep, ReconcileConsumeGrant, ReconcilePaid,
       ReconcileUnpaid
  <2> QED
    BY <2>1, <2>2, ReturnIsQuiet DEF Goto, QuietFor, ReconcilePC
<1> QED
  BY <1>1, <1>2, <1>3, <1>4, <1>5 DEF Step

\* The fields of the two entries that COMMIT writes.
LEMMA EntryFields ==
  /\ \A a : InFlight(a).status = "IN_FLIGHT" /\ InFlight(a).action = a
  /\ NoEntry.status = "NONE" /\ NoEntry.action = NoAction
BY DEF InFlight, NoEntry

\* The facts about the call that every case below needs.
LEMMA CallFacts ==
  ASSUME TypeOK, NEW p \in Proc
  PROVE  /\ req[p] \in Grant /\ Act(p) \in Action /\ KeyFor(p) \in Key
         /\ Act(p) = ActionOf[req[p]] /\ KeyFor(p) = KeyOf[Act(p)]
         /\ \A g \in Grant : KeyOfGrant(g) \in Key /\ effects[g] \in Nat
BY ConstantsAssumption
   DEF TypeOK, CallTypeOK, StoresTypeOK, Act, KeyFor, KeyOfGrant

\* COMMIT takes the entry of its key: nobody held it, nothing was paid.
LEMMA ReserveKeepsLock ==
  ASSUME TypeOK, LockInv, NEW p \in Proc, CommitReserve(p), ~ QuietFor(p)
  PROVE  LockInv'
<1> USE DEF TypeOK, StoresTypeOK, CallTypeOK, LockInv, GrantsOf, Unpaid, Paid,
            KeyFor, Act, KeyOfGrant
<1> DEFINE a == Act(p)
           k == KeyFor(p)
<1>1. a \in Action /\ k \in Key /\ k = KeyOf[a] /\ req[p] \in Grant
  BY CallFacts
<1>2. /\ main[k].status = "NONE"
      /\ main' = [main EXCEPT ![k] = InFlight(a)]
      /\ pc[p] = "cm_reserve"
      /\ \E l \in {"cm_root", "cm_consume"} : Goto(p, l)
      /\ UNCHANGED <<effects, reservation, reservedBy>>
  BY ReturnIsQuiet DEF CommitReserve, Reservable, Held
<1>3. UNCHANGED <<req, answer>>
  BY <1>2 DEF Goto
<1>4. /\ pc'[p] \in {"cm_root", "cm_consume"}
      /\ \A q \in Proc \ {p} : pc'[q] = pc[q]
  BY <1>2 DEF Goto
<1>5. \A q \in Proc : pc[q] \in HoldingPC => KeyFor(q) # k
  BY <1>2, EntryFields DEF HolderHasEntry
<1>6. \A b \in Action : reservation[b] = "OPEN" => KeyOf[b] # k
  BY <1>2, EntryFields DEF OpenHoldsEntry
<1>7. Unpaid(k)
  BY <1>1, <1>2 DEF EffectHoldsExposure, Held
<1>8. main'[k] = InFlight(a) /\ \A j \in Key \ {k} : main'[j] = main[j]
  BY <1>1, <1>2
<1>9. pc[p] \notin HoldingPC /\ pc'[p] \notin PaidPC /\ pc'[p] # "rec_resolve"
  BY <1>2, <1>4 DEF HoldingPC, BeforePC, ArmedPC, PaidPC
<1>10. OneHolder' /\ HolderHasEntry'
  BY <1>1, <1>3, <1>4, <1>5, <1>8, CallFacts DEF OneHolder, HolderHasEntry
<1>11. HolderPaysAlone' /\ UnpaidHolders'
  <2>1. UnpaidPC \subseteq HoldingPC
    BY DEF UnpaidPC, HoldingPC
  <2> QED
    BY <1>1, <1>2, <1>3, <1>4, <1>7, <2>1 DEF HolderPaysAlone, UnpaidHolders
<1>12. PaidCalls' /\ ToldTheTruth'
  BY <1>2, <1>3, <1>4, <1>9 DEF PaidCalls, ToldTheTruth
<1>13. OpenHoldsEntry'
  BY <1>1, <1>2, <1>3, <1>4, <1>6, <1>8, ConstantsAssumption DEF OpenHoldsEntry
<1>14. ReleasedIsEmpty'
  BY <1>8 DEF ReleasedIsEmpty, InFlight
<1>15. EffectHoldsExposure' /\ AtMostOnceEffect'
  BY <1>1, <1>2, <1>7, <1>8, CallFacts
     DEF EffectHoldsExposure, AtMostOnceEffect, Held
<1> QED
  BY <1>10, <1>11, <1>12, <1>13, <1>14, <1>15

\* A holder lets go of its entry: it deletes it when nothing was paid, or
\* keeps it under another status.
LEMMA LetGoKeepsLock ==
  ASSUME TypeOK, LockInv, NEW p \in Proc, pc[p] \in HoldingPC,
         NEW e \in Entry, main' = [main EXCEPT ![KeyFor(p)] = e],
         \/ e = NoEntry /\ Unpaid(KeyFor(p))
         \/ e.status # "NONE" /\ e.action = Act(p),
         UNCHANGED <<effects, reservation, reservedBy>>,
         \A q \in Proc \ {p} :
           pc'[q] = pc[q] /\ req'[q] = req[q] /\ answer'[q] = answer[q],
         pc'[p] \notin HoldingPC, pc'[p] # "rec_resolve",
         pc'[p] \in PaidPC => pc[p] \in PaidPC /\ req'[p] = req[p]
  PROVE  LockInv'
<1> USE DEF TypeOK, StoresTypeOK, CallTypeOK, LockInv, GrantsOf, Unpaid, Paid,
            KeyFor, Act, KeyOfGrant
<1> DEFINE a == Act(p)
           k == KeyFor(p)
<1>1. a \in Action /\ k \in Key /\ k = KeyOf[a] /\ req[p] \in Grant
  BY CallFacts
<1>2. main'[k] = e /\ \A j \in Key \ {k} : main'[j] = main[j]
  BY <1>1
<1>3. \A q \in Proc : pc'[q] \in HoldingPC =>
        /\ q # p /\ pc[q] \in HoldingPC /\ KeyFor(q) # k /\ KeyFor(q) \in Key
        /\ req'[q] = req[q]
  BY CallFacts DEF OneHolder
<1>4. \A b \in Action : reservation[b] = "OPEN" => KeyOf[b] # k
  BY DEF OpenHoldsEntry
<1>5. UnpaidPC \subseteq HoldingPC
  BY DEF UnpaidPC, HoldingPC
<1>6. main[k].action = a
  BY EntryFields DEF HolderHasEntry
<1>7. OneHolder' /\ HolderHasEntry'
  BY <1>2, <1>3 DEF OneHolder, HolderHasEntry
<1>8. HolderPaysAlone' /\ UnpaidHolders'
  BY <1>3, <1>5 DEF HolderPaysAlone, UnpaidHolders
<1>9. PaidCalls' /\ ToldTheTruth'
  BY DEF PaidCalls, ToldTheTruth
<1>10. OpenHoldsEntry'
  BY <1>2, <1>3, <1>4, ConstantsAssumption DEF OpenHoldsEntry
<1>11. ReleasedIsEmpty'
  BY <1>2 DEF ReleasedIsEmpty
<1>12. EffectHoldsExposure' /\ AtMostOnceEffect'
  BY <1>1, <1>2, <1>6, CallFacts
     DEF EffectHoldsExposure, AtMostOnceEffect, Held
<1> QED
  BY <1>7, <1>8, <1>9, <1>10, <1>11, <1>12

\* The steps that delete the entry.
LEMMA ReleaseKeepsLock ==
  ASSUME TypeOK, LockInv, NEW p \in Proc,
         CommitUnreserve(p) \/ FailRelease(p)
           \/ (ReconcileRelease(p) /\ ~ QuietFor(p))
  PROVE  LockInv'
<1>1. /\ pc[p] \in {"cm_unreserve", "fail_exposure", "rec_release"}
      /\ main' = [main EXCEPT ![KeyFor(p)] = NoEntry]
      /\ Return(p) \/ \E l \in {"fail_root", "fail_idem", "rec_unpaid"} : Goto(p, l)
      /\ UNCHANGED <<effects, reservation, reservedBy>>
  BY ReturnIsQuiet DEF TypeOK, CommitUnreserve, FailRelease, ReconcileRelease,
     Released
<1>2. /\ pc'[p] \in {"idle", "fail_root", "fail_idem", "rec_unpaid"}
      /\ \A q \in Proc \ {p} :
           pc'[q] = pc[q] /\ req'[q] = req[q] /\ answer'[q] = answer[q]
  BY <1>1 DEF Goto, Return, TypeOK, CallTypeOK
<1>3. pc[p] \in HoldingPC /\ pc[p] \in UnpaidPC
  BY <1>1 DEF HoldingPC, UnpaidPC, BeforePC, ArmedPC
<1>4. pc'[p] \notin HoldingPC /\ pc'[p] \notin PaidPC /\ pc'[p] # "rec_resolve"
  BY <1>2 DEF HoldingPC, PaidPC, BeforePC, ArmedPC
<1>5. Unpaid(KeyFor(p))
  BY <1>3 DEF LockInv, UnpaidHolders
<1> QED
  BY <1>1, <1>2, <1>3, <1>4, <1>5, NullTypes, LetGoKeepsLock

\* The steps that settle it.
LEMMA SettleKeepsLock ==
  ASSUME TypeOK, LockInv, NEW p \in Proc,
         OkCommitExposure(p) \/ ReconcileCommitExposure(p), ~ QuietFor(p)
  PROVE  LockInv'
<1> DEFINE e == [status |-> "COMMITTED", action |-> main[KeyFor(p)].action]
<1>1. /\ pc[p] \in {"ok_exposure", "rec_expose"}
      /\ main' = Committed(main, KeyFor(p))
      /\ \E l \in {"ok_root", "ok_idem", "rec_grant"} : Goto(p, l)
      /\ UNCHANGED <<effects, reservation, reservedBy>>
  BY ReturnIsQuiet DEF TypeOK, OkCommitExposure, ReconcileCommitExposure
<1>2. /\ pc'[p] \in {"ok_root", "ok_idem", "rec_grant"}
      /\ req'[p] = req[p]
      /\ \A q \in Proc \ {p} :
           pc'[q] = pc[q] /\ req'[q] = req[q] /\ answer'[q] = answer[q]
  BY <1>1 DEF Goto, TypeOK, CallTypeOK
<1>3. pc[p] \in HoldingPC /\ pc[p] \in PaidPC
  BY <1>1 DEF HoldingPC, PaidPC
<1>4. pc'[p] \notin HoldingPC /\ pc'[p] # "rec_resolve"
  BY <1>2 DEF HoldingPC, BeforePC, ArmedPC
<1>5. main' = [main EXCEPT ![KeyFor(p)] = e]
  BY <1>1, CallFacts, CommittedType DEF TypeOK, StoresTypeOK
<1>6. main[KeyFor(p)].action = Act(p)
  BY <1>3, EntryFields DEF LockInv, HolderHasEntry
<1>7. e \in Entry
  BY <1>6, CallFacts DEF Entry
<1> QED
  BY <1>1, <1>2, <1>3, <1>4, <1>5, <1>6, <1>7, LetGoKeepsLock

\* What the adapter does is charged to the only holder of the key.
LEMMA InvokeKeepsLock ==
  ASSUME TypeOK, LockInv, NEW p \in Proc, CommitInvoke(p)
  PROVE  LockInv'
<1> USE DEF TypeOK, StoresTypeOK, CallTypeOK, LockInv, GrantsOf, Unpaid, Paid,
            KeyFor, Act, KeyOfGrant
<1> DEFINE g == req[p]
           k == KeyFor(p)
<1>1. g \in Grant /\ k \in Key /\ k = KeyOf[ActionOf[g]]
  BY CallFacts
<1>2. pc[p] = "cm_invoke" /\ UNCHANGED <<main, reservation, reservedBy, req>>
  BY DEF CommitInvoke
<1>3. PICK ans \in Answers, n \in {0, 1} :
        /\ effects' = [effects EXCEPT ![g] = @ + n]
        /\ answer' = [answer EXCEPT ![p] = ans]
        /\ pc' = [pc EXCEPT ![p] = AfterAnswer(ans)]
        /\ pc'[p] = "ok_grant" => n = 1
        /\ pc'[p] = "fail_exposure" => n = 0
        /\ pc'[p] \in {"ok_grant", "fail_exposure", "unk_idem"}
  <2>1. PICK ans \in Answers : \E n \in MayHappen(ans) :
          /\ effects' = [effects EXCEPT ![g] = @ + n]
          /\ answer' = [answer EXCEPT ![p] = ans]
          /\ pc' = [pc EXCEPT ![p] = AfterAnswer(ans)]
    BY DEF CommitInvoke
  <2>2. PICK n \in MayHappen(ans) :
          /\ effects' = [effects EXCEPT ![g] = @ + n]
          /\ answer' = [answer EXCEPT ![p] = ans]
          /\ pc' = [pc EXCEPT ![p] = AfterAnswer(ans)]
    BY <2>1
  <2>3. ans \in AdapterAnswer
    BY ConstantsAssumption
  <2>4. /\ n \in {0, 1}
        /\ AfterAnswer(ans) \in {"ok_grant", "fail_exposure", "unk_idem"}
        /\ AfterAnswer(ans) = "ok_grant" => n = 1
        /\ AfterAnswer(ans) = "fail_exposure" => n = 0
    BY <2>2, <2>3 DEF AfterAnswer, MayHappen, AdapterAnswer
  <2>5. pc'[p] = AfterAnswer(ans)
    BY <2>2
  <2> QED
    BY <2>2, <2>4, <2>5
<1>4. \A q \in Proc \ {p} : pc'[q] = pc[q] /\ answer'[q] = answer[q]
  BY <1>3
<1>5. pc[p] \in HoldingPC /\ pc[p] \in UnpaidPC /\ pc'[p] \in HoldingPC
  BY <1>2, <1>3 DEF HoldingPC, UnpaidPC, BeforePC, ArmedPC
<1>6. Unpaid(k) /\ main[k] = InFlight(Act(p))
  BY <1>5 DEF UnpaidHolders, HolderHasEntry
<1>7. effects'[g] = n /\ \A h \in Grant \ {g} : effects'[h] = effects[h]
  BY <1>1, <1>3, <1>6
<1>8. \A h \in Grant : KeyOfGrant(h) # k => effects'[h] = effects[h]
  BY <1>1, <1>7
<1>9. \A q \in Proc \ {p} : pc[q] \in HoldingPC => KeyFor(q) # k
  BY <1>5 DEF OneHolder
<1>10. \A b \in Action : reservation[b] = "OPEN" => KeyOf[b] # k
  BY <1>5 DEF OpenHoldsEntry
<1>11. OneHolder' /\ HolderHasEntry'
  BY <1>2, <1>4, <1>5 DEF OneHolder, HolderHasEntry
<1>12. HolderPaysAlone'
  BY <1>1, <1>2, <1>4, <1>5, <1>6, <1>7, <1>8, <1>9 DEF HolderPaysAlone
<1>13. UnpaidHolders'
  <2>1. pc'[p] \in UnpaidPC => n = 0
    BY <1>3 DEF UnpaidPC, BeforePC, ArmedPC
  <2>2. UnpaidPC \subseteq HoldingPC
    BY DEF UnpaidPC, HoldingPC
  <2> QED
    BY <1>1, <1>2, <1>4, <1>6, <1>7, <1>8, <1>9, <2>1, <2>2 DEF UnpaidHolders
<1>14. PaidCalls'
  <2>1. pc'[p] \in PaidPC => n = 1
    BY <1>3 DEF PaidPC
  <2>2. \A h \in Grant : effects[h] > 0 => effects'[h] > 0
    BY <1>1, <1>6, <1>7
  <2> QED
    BY <1>2, <1>4, <1>7, <2>1, <2>2 DEF PaidCalls
<1>15. OpenHoldsEntry'
  <2>1. \A q \in Proc : pc'[q] \in HoldingPC => pc[q] \in HoldingPC
    BY <1>4, <1>5
  <2>2. \A b \in Action : reservation[b] = "OPEN" =>
          /\ KeyOf[b] \in Key
          /\ \A h \in GrantsOf(KeyOf[b]) : effects'[h] = effects[h]
    BY <1>8, <1>10, ConstantsAssumption
  <2> QED
    BY <1>2, <2>1, <2>2 DEF OpenHoldsEntry
<1>16. ToldTheTruth'
  <2>1. pc'[p] # "rec_resolve"
    BY <1>3
  <2> QED
    BY <1>2, <1>4, <1>8, <1>10, <2>1, CallFacts DEF ToldTheTruth
<1>17. ReleasedIsEmpty'
  BY <1>2 DEF ReleasedIsEmpty
<1>18. EffectHoldsExposure'
  BY <1>1, <1>2, <1>6, <1>7, EntryFields DEF EffectHoldsExposure, Held
<1>19. AtMostOnceEffect'
  BY <1>1, <1>6, <1>7, <1>8 DEF AtMostOnceEffect
<1> QED
  BY <1>11, <1>12, <1>13, <1>14, <1>15, <1>16, <1>17, <1>18, <1>19

\* The call hands its entry over to the reservation.
LEMMA HandOverKeepsLock ==
  ASSUME TypeOK, LockInv, NEW p \in Proc, UnknownReserve(p), ~ QuietFor(p)
  PROVE  LockInv'
<1> USE DEF TypeOK, StoresTypeOK, CallTypeOK, LockInv, GrantsOf, Unpaid, Paid,
            KeyFor, Act, KeyOfGrant
<1> DEFINE a == Act(p)
           k == KeyFor(p)
<1>1. a \in Action /\ k \in Key /\ k = KeyOf[a] /\ req[p] \in Grant
  BY CallFacts
<1>2. /\ pc[p] = "unk_reserve" /\ Goto(p, "unk_ledger")
      /\ reservation' = [reservation EXCEPT ![a] = "OPEN"]
      /\ reservedBy' = [reservedBy EXCEPT ![a] = req[p]]
      /\ UNCHANGED <<main, effects>>
  BY ReturnIsQuiet DEF UnknownReserve
<1>3. /\ UNCHANGED <<req, answer>> /\ pc'[p] = "unk_ledger"
      /\ \A q \in Proc \ {p} : pc'[q] = pc[q]
  BY <1>2 DEF Goto
<1>4. /\ pc[p] \in HoldingPC /\ pc'[p] \notin HoldingPC
      /\ pc'[p] \notin UnpaidPC /\ pc'[p] \notin PaidPC
  BY <1>2, <1>3 DEF HoldingPC, UnpaidPC, PaidPC, BeforePC, ArmedPC
<1>5. /\ main[k] = InFlight(a)
      /\ \A g \in GrantsOf(k) : Paid(g) => g = req[p]
      /\ \A q \in Proc \ {p} : pc[q] \in HoldingPC => KeyFor(q) # k
  BY <1>4 DEF HolderHasEntry, HolderPaysAlone, OneHolder
<1>6. OneHolder' /\ HolderHasEntry' /\ HolderPaysAlone' /\ UnpaidHolders'
        /\ PaidCalls'
  <2>1. OneHolder' /\ HolderHasEntry'
    BY <1>2, <1>3, <1>4 DEF OneHolder, HolderHasEntry
  <2>2. HolderPaysAlone'
    BY <1>2, <1>3, <1>4 DEF HolderPaysAlone
  <2>3. UnpaidHolders' /\ PaidCalls'
    BY <1>2, <1>3, <1>4 DEF UnpaidHolders, PaidCalls
  <2> QED
    BY <2>1, <2>2, <2>3
<1>7. OpenHoldsEntry'
  <2>1. \A b \in Action \ {a} :
          reservation'[b] = reservation[b] /\ reservedBy'[b] = reservedBy[b]
    BY <1>2
  <2>2. reservedBy'[a] = req[p]
    BY <1>1, <1>2
  <2>3. \A q \in Proc : pc'[q] \in HoldingPC => pc[q] \in HoldingPC /\ q # p
    BY <1>3, <1>4
  <2> QED
    BY <1>1, <1>2, <1>3, <1>5, <2>1, <2>2, <2>3 DEF OpenHoldsEntry
<1>8. ToldTheTruth'
  <2>1. reservation[a] = "NONE"
    BY <1>1, <1>4, ReturnIsQuiet DEF OpenHoldsEntry, UnknownReserve
  <2>2. \A q \in Proc : pc'[q] = "rec_resolve" => q # p /\ Act(q) # a
    BY <1>3, <2>1 DEF ToldTheTruth
  <2> QED
    BY <1>1, <1>2, <1>3, <2>2, CallFacts DEF ToldTheTruth
<1>9. ReleasedIsEmpty' /\ EffectHoldsExposure' /\ AtMostOnceEffect'
  BY <1>2 DEF ReleasedIsEmpty, EffectHoldsExposure, AtMostOnceEffect, Held
<1> QED
  BY <1>6, <1>7, <1>8, <1>9

\* A reconciliation takes the entry over from the reservation it resolves.
LEMMA ResolveKeepsLock ==
  ASSUME TypeOK, LockInv, NEW p \in Proc, ReconcileResolve(p), ~ QuietFor(p)
  PROVE  LockInv'
<1> USE DEF TypeOK, StoresTypeOK, CallTypeOK, LockInv, GrantsOf, Unpaid, Paid,
            KeyFor, Act, KeyOfGrant
<1> DEFINE a == Act(p)
           k == KeyFor(p)
           l == IF answer[p] = "SUCCESS" THEN "rec_expose" ELSE "rec_release"
<1>1. a \in Action /\ k \in Key /\ k = KeyOf[a] /\ req[p] \in Grant
  BY CallFacts
<1>2. /\ pc[p] = "rec_resolve" /\ reservation[a] = "OPEN" /\ Goto(p, l)
      /\ reservation' = [reservation EXCEPT ![a] = "RESOLVED"]
      /\ UNCHANGED <<main, effects, reservedBy>>
  BY ReturnIsQuiet DEF ReconcileResolve
<1>3. /\ UNCHANGED <<req, answer>> /\ pc'[p] = l
      /\ \A q \in Proc \ {p} : pc'[q] = pc[q]
  BY <1>2 DEF Goto
<1>4. /\ main[k] = InFlight(a)
      /\ \A g \in GrantsOf(k) : Paid(g) => g = req[p]
      /\ \A q \in Proc : pc[q] \in HoldingPC => KeyFor(q) # k
      /\ answer[p] = "SUCCESS" <=> Paid(req[p])
  BY <1>1, <1>2 DEF OpenHoldsEntry, ToldTheTruth
<1>5. \A b \in Action \ {a} :
        reservation'[b] = reservation[b] /\ (reservation[b] = "OPEN" => KeyOf[b] # k)
  <2>1. \A b \in Action : reservation[b] = "OPEN" /\ KeyOf[b] = k => b = a
    BY <1>4, EntryFields DEF OpenHoldsEntry
  <2> QED
    BY <1>2, <2>1
<1>6. reservation'[a] = "RESOLVED"
  BY <1>1, <1>2
<1>7. OneHolder' /\ HolderHasEntry'
  BY <1>1, <1>2, <1>3, <1>4 DEF OneHolder, HolderHasEntry
<1>8. HolderPaysAlone'
  BY <1>1, <1>2, <1>3, <1>4 DEF HolderPaysAlone
<1>9. UnpaidHolders'
  <2>1. l \in UnpaidPC => Unpaid(k)
    BY <1>1, <1>4, CallFacts DEF UnpaidPC, BeforePC, ArmedPC
  <2> QED
    BY <1>2, <1>3, <2>1 DEF UnpaidHolders
<1>10. PaidCalls'
  BY <1>2, <1>3, <1>4 DEF PaidCalls, PaidPC
<1>11. OpenHoldsEntry'
  <2>1. \A b \in Action : reservation'[b] = "OPEN" =>
          b # a /\ reservation[b] = "OPEN" /\ KeyOf[b] # k
    BY <1>5, <1>6
  <2>2. \A q \in Proc \ {p} : pc'[q] = pc[q] /\ KeyFor(q)' = KeyFor(q)
    BY <1>3
  <2>3. KeyFor(p)' = k
    BY <1>3
  <2> QED
    BY <1>2, <2>1, <2>2, <2>3 DEF OpenHoldsEntry
<1>12. ToldTheTruth'
  BY <1>1, <1>2, <1>3, <1>5, <1>6, CallFacts DEF ToldTheTruth
<1>13. ReleasedIsEmpty' /\ EffectHoldsExposure' /\ AtMostOnceEffect'
  BY <1>2 DEF ReleasedIsEmpty, EffectHoldsExposure, AtMostOnceEffect, Held
<1> QED
  BY <1>7, <1>8, <1>9, <1>10, <1>11, <1>12, <1>13

\* A reconciliation that begins is told the truth about its reservation.
LEMMA StartReconcileKeepsLock ==
  ASSUME TypeOK, LockInv, NEW p \in Proc, StartReconcile(p)
  PROVE  LockInv'
<1> USE DEF TypeOK, StoresTypeOK, CallTypeOK, LockInv, GrantsOf, Unpaid, Paid,
            KeyFor, Act, KeyOfGrant
<1>1. PICK a \in Action :
        /\ reservation[a] = "OPEN"
        /\ Begin(p, reservedBy[a], "rec_resolve", Report(reservedBy[a]), FALSE)
  BY DEF StartReconcile
<1>2. UNCHANGED <<main, effects, reservation, reservedBy>>
  BY DEF StartReconcile, stores
<1>3. /\ pc'[p] = "rec_resolve" /\ req'[p] = reservedBy[a]
      /\ answer'[p] = Report(reservedBy[a])
      /\ \A q \in Proc \ {p} :
           pc'[q] = pc[q] /\ req'[q] = req[q] /\ answer'[q] = answer[q]
  BY <1>1 DEF Begin
<1>4. ActionOf[reservedBy[a]] = a /\ reservedBy[a] \in Grant
  BY <1>1 DEF OpenHoldsEntry
<1>5. \A q \in Proc : pc'[q] \in HoldingPC =>
        q # p /\ pc[q] \in HoldingPC /\ req'[q] = req[q]
  BY <1>3 DEF HoldingPC, BeforePC, ArmedPC
<1>6. OneHolder' /\ HolderHasEntry' /\ HolderPaysAlone'
  BY <1>2, <1>5 DEF OneHolder, HolderHasEntry, HolderPaysAlone
<1>7. UnpaidHolders'
  BY <1>2, <1>3, <1>5 DEF UnpaidHolders, UnpaidPC, HoldingPC
<1>8. PaidCalls'
  BY <1>2, <1>3 DEF PaidCalls, PaidPC
<1>9. OpenHoldsEntry'
  BY <1>2, <1>5 DEF OpenHoldsEntry
<1>10. ToldTheTruth'
  <2>1. Report(reservedBy[a]) = "SUCCESS" <=> Paid(reservedBy[a])
    BY DEF Report
  <2> QED
    BY <1>1, <1>2, <1>3, <1>4, <2>1 DEF ToldTheTruth
<1>11. ReleasedIsEmpty' /\ EffectHoldsExposure' /\ AtMostOnceEffect'
  BY <1>2 DEF ReleasedIsEmpty, EffectHoldsExposure, AtMostOnceEffect, Held
<1> QED
  BY <1>6, <1>7, <1>8, <1>9, <1>10, <1>11

\* Every step keeps the lock discipline.
LEMMA NextKeepsLock ==
  ASSUME TypeOK, LockInv, TypeOK', [Next]_vars
  PROVE  LockInv'
<1>0. CallTypeOK /\ CallTypeOK'
  BY DEF TypeOK
<1>1. ASSUME NEW p \in Proc, BeginCall(p)
      PROVE  LockInv'
  <2>1. CASE StartReconcile(p)
    BY <2>1, StartReconcileKeepsLock
  <2>2. ASSUME NEW g \in Grant,
               \/ StartPrepare(p, g) \/ StartMint(p, g)
               \/ StartAuthorize(p, g) \/ StartCommit(p, g)
        PROVE  QuietFor(p)
    <3>1. UNCHANGED <<main, effects, reservation, reservedBy>>
      BY <2>2 DEF StartPrepare, StartMint, StartAuthorize, StartCommit, stores
    <3>2. \E l \in {"prep_put", "mint_put", "auth_reservation", "cm_replay"} :
            \E r \in BOOLEAN : Begin(p, g, l, "FAILED", r)
      BY <2>2 DEF StartPrepare, StartMint, StartAuthorize, StartCommit,
                  RootExposure
    <3> QED
      BY <1>0, <3>1, <3>2, BeginIsQuiet
  <2> QED
    BY <1>0, <1>1, <2>1, <2>2, QuietForKeepsLock DEF BeginCall
<1>2. ASSUME NEW p \in Proc, Step(p)
      PROVE  LockInv'
  <2>1. CASE QuietFor(p)
    BY <1>0, <2>1, QuietForKeepsLock
  <2>2. CASE LockStep(p) /\ ~ QuietFor(p)
    BY <2>2, ReserveKeepsLock, ReleaseKeepsLock, SettleKeepsLock,
       InvokeKeepsLock, HandOverKeepsLock, ResolveKeepsLock DEF LockStep
  <2> QED
    BY <1>0, <1>2, <2>1, <2>2, OtherStepsAreQuiet
<1>3. CASE Environment
  <2>1. ASSUME NEW p \in Proc, Crash(p)
        PROVE  LockInv'
    <3>1. QuietFor(p)
      BY <1>0, <2>1, ReturnIsQuiet DEF Crash, stores
    <3> QED
      BY <1>0, <3>1, QuietForKeepsLock
  <2>2. CASE UNCHANGED <<main, effects, reservation, reservedBy, call>>
    BY <2>2 DEF call, LockInv, OneHolder, HolderHasEntry, HolderPaysAlone,
       UnpaidHolders, PaidCalls, OpenHoldsEntry, ToldTheTruth,
       ReleasedIsEmpty, EffectHoldsExposure, AtMostOnceEffect, GrantsOf,
       Unpaid, Paid, KeyFor, Act, KeyOfGrant, Held
  <2> QED
    BY <1>3, <2>1, <2>2 DEF Environment, Revoke, Expire, AdvanceTip, stores
<1>4. CASE UNCHANGED vars
  BY <1>4 DEF vars, stores, call, LockInv, OneHolder, HolderHasEntry,
     HolderPaysAlone, UnpaidHolders, PaidCalls, OpenHoldsEntry, ToldTheTruth,
     ReleasedIsEmpty, EffectHoldsExposure, AtMostOnceEffect, GrantsOf, Unpaid,
     Paid, KeyFor, Act, KeyOfGrant, Held
<1> QED
  BY <1>1, <1>2, <1>3, <1>4 DEF Next

-----------------------------------------------------------------------------
(* What the stores record.                                                 *)

\* An effect that happened is never taken back.
LEMMA EffectsGrow ==
  ASSUME TypeOK, [Next]_vars
  PROVE  \A g \in Grant : Paid(g) => Paid(g)'
<1>1. ASSUME NEW p \in Proc, CommitInvoke(p)
      PROVE  \A g \in Grant : Paid(g) => Paid(g)'
  <2>1. PICK n \in Nat : effects' = [effects EXCEPT ![req[p]] = @ + n]
    BY <1>1 DEF CommitInvoke, MayHappen
  <2> QED
    BY <2>1, CallFacts DEF TypeOK, StoresTypeOK, Paid
<1>2. ASSUME NEW p \in Proc, BeginCall(p) \/ (Step(p) /\ ~ CommitInvoke(p))
      PROVE  UNCHANGED effects
  BY <1>2
     DEF BeginCall, StartPrepare, StartMint, StartAuthorize, StartCommit,
         StartReconcile, Step, AuthorizeStep, PreparePut, MintPut,
         AuthorizeCheckReservation, AuthorizeReadGrant, AuthorizePutToken,
         AuthorizeMove, GateStep, CommitReplay, CommitReadTip, CommitReadToken,
         CommitReadGrant, CommitBegin, CommitRegisterNonce, CommitRereadGrant,
         CommitReserve, ExecuteStep, CommitReserveRoot, CommitUnreserve,
         CommitConsumeToken, CommitMove, SettleStep, OkConsumeGrant,
         OkCommitExposure, OkCommitRoot, OkComplete, OkAppend, OkMove,
         FailRelease, FailReleaseRoot, FailComplete, FailAppend, FailMove,
         UnknownMark, UnknownLockGrant, UnknownReserve, UnknownAppend,
         UnknownMove, ReconcileStep, ReconcileResolve, ReconcileCommitExposure,
         ReconcileConsumeGrant, ReconcilePaid, ReconcileRelease,
         ReconcileUnpaid, stores
<1>3. Environment => UNCHANGED effects
  BY DEF Environment, Revoke, Expire, AdvanceTip, Crash, stores
<1> QED
  BY <1>1, <1>2, <1>3 DEF Next, vars, stores, Paid

\* Only a call whose grant has paid writes that a payment was made, and it
\* writes this of its own key, action and grant.
WritesTruly(p) ==
  LET mine == pc[p] \in PaidPC
  IN  /\ \A k \in Key : k # KeyFor(p) \/ ~ mine =>
           /\ idem'[k] = "SUCCESS" => idem[k] = "SUCCESS"
           /\ ledger'[k] = "SUCCESS" => ledger[k] = "SUCCESS"
           /\ main'[k].status = "COMMITTED" => main[k].status = "COMMITTED"
      /\ \A g \in Grant : g # req[p] \/ ~ mine =>
           (grant'[g] = "CONSUMED" => grant[g] = "CONSUMED")
      /\ \A a \in Action : a # Act(p) \/ ~ mine =>
           (record'[a].lifecycle = "SUCCEEDED"
              => record[a].lifecycle = "SUCCEEDED")

\* A compare-and-set changes the record it is about only, and a call moves a
\* record to SUCCEEDED in one place.
LEMMA MoveWrites ==
  ASSUME TypeOK, NEW a \in Action, NEW from, NEW version, NEW to,
         TryMove(a, from, version, to)
  PROVE  \A b \in Action :
           /\ b # a => record'[b] = record[b]
           /\ to # "SUCCEEDED" => (record'[b].lifecycle = "SUCCEEDED"
                                     => record[b].lifecycle = "SUCCEEDED")
BY DEF TryMove, Moved, TypeOK, StoresTypeOK

\* So no step of a call records a payment that was not made.
LEMMA StepWritesTruly ==
  ASSUME TypeOK, NEW p \in Proc, Step(p)
  PROVE  WritesTruly(p)
<1>0. /\ req[p] \in Grant /\ Act(p) \in Action /\ KeyFor(p) \in Key
      /\ TypeOK
  BY CallFacts
<1> USE DEF WritesTruly, TypeOK, StoresTypeOK
<1>1. CASE AuthorizeStep(p)
  <2>1. CASE PreparePut(p)
    BY <1>0, <2>1 DEF PreparePut
  <2>2. CASE MintPut(p)
    BY <1>0, <2>2 DEF MintPut
  <2>3. CASE AuthorizeMove(p)
    BY <1>0, <2>3, MoveWrites DEF AuthorizeMove
  <2> QED
    BY <1>1, <2>1, <2>2, <2>3
       DEF AuthorizeStep, AuthorizeCheckReservation, AuthorizeReadGrant,
           AuthorizePutToken, stores
<1>2. CASE GateStep(p)
  <2>1. CASE CommitBegin(p)
    BY <1>0, <2>1 DEF CommitBegin
  <2>2. CASE CommitReserve(p)
    BY <1>0, <2>2, EntryFields DEF CommitReserve
  <2> QED
    BY <1>2, <2>1, <2>2
       DEF GateStep, CommitReplay, CommitReadTip, CommitReadToken,
           CommitReadGrant, CommitRegisterNonce, CommitRereadGrant, stores
<1>3. CASE ExecuteStep(p)
  <2>1. CASE CommitUnreserve(p)
    BY <1>0, <2>1, EntryFields DEF CommitUnreserve, Released
  <2>2. CASE CommitMove(p)
    BY <1>0, <2>2, MoveWrites DEF CommitMove
  <2> QED
    BY <1>3, <2>1, <2>2
       DEF ExecuteStep, CommitReserveRoot, CommitConsumeToken, CommitInvoke
<1>4. CASE SettleStep(p)
  <2>1. ASSUME OkConsumeGrant(p) \/ OkComplete(p) \/ OkAppend(p)
        PROVE  WritesTruly(p)
    BY <1>0, <2>1 DEF OkConsumeGrant, OkComplete, OkAppend, Append, PaidPC
  <2>2. CASE OkCommitExposure(p)
    <3>1. \/ UNCHANGED main
          \/ main' = [main EXCEPT ![KeyFor(p)] =
                        [status |-> "COMMITTED", action |-> main[KeyFor(p)].action]]
      BY <1>0, <2>2, CommittedType DEF OkCommitExposure
    <3>2. pc[p] \in PaidPC /\ UNCHANGED <<record, grant, idem, ledger>>
      BY <2>2 DEF OkCommitExposure, PaidPC
    <3> QED
      BY <1>0, <3>1, <3>2
  <2>3. ASSUME OkMove(p) \/ FailMove(p) \/ UnknownMove(p)
        PROVE  WritesTruly(p)
    BY <1>0, <2>3, MoveWrites DEF OkMove, FailMove, UnknownMove, PaidPC
  <2>4. CASE FailRelease(p)
    BY <1>0, <2>4, EntryFields DEF FailRelease, Released
  <2>5. ASSUME \/ FailComplete(p) \/ FailAppend(p) \/ UnknownMark(p)
               \/ UnknownLockGrant(p) \/ UnknownAppend(p)
        PROVE  WritesTruly(p)
    BY <1>0, <2>5 DEF FailComplete, FailAppend, UnknownMark, UnknownLockGrant,
                      UnknownAppend, Append
  <2> QED
    BY <1>4, <2>1, <2>2, <2>3, <2>4, <2>5
       DEF SettleStep, OkCommitRoot, FailReleaseRoot, UnknownReserve
<1>5. CASE ReconcileStep(p)
  <2>1. CASE ReconcileCommitExposure(p)
    <3>1. \/ UNCHANGED main
          \/ main' = [main EXCEPT ![KeyFor(p)] =
                        [status |-> "COMMITTED", action |-> main[KeyFor(p)].action]]
      BY <1>0, <2>1, CommittedType DEF ReconcileCommitExposure
    <3>2. pc[p] \in PaidPC /\ UNCHANGED <<record, grant, idem, ledger>>
      BY <2>1 DEF ReconcileCommitExposure, PaidPC
    <3> QED
      BY <1>0, <3>1, <3>2
  <2>2. ASSUME ReconcileConsumeGrant(p) \/ ReconcilePaid(p)
        PROVE  WritesTruly(p)
    BY <1>0, <2>2 DEF ReconcileConsumeGrant, ReconcilePaid, PaidPC
  <2>3. CASE ReconcileRelease(p)
    BY <1>0, <2>3, EntryFields DEF ReconcileRelease, Released
  <2>4. CASE ReconcileUnpaid(p)
    BY <1>0, <2>4 DEF ReconcileUnpaid
  <2> QED
    BY <1>5, <2>1, <2>2, <2>3, <2>4 DEF ReconcileStep, ReconcileResolve
<1> QED
  BY <1>1, <1>2, <1>3, <1>4, <1>5 DEF Step

\* Every step keeps the payment records true.
LEMMA NextKeepsRecords ==
  ASSUME TypeOK, LockInv, PaidRecordsAreTrue, [Next]_vars
  PROVE  PaidRecordsAreTrue'
<1> USE DEF Unpaid, GrantsOf
<1>1. \A g \in Grant : Paid(g) => Paid(g)'
  BY EffectsGrow
<1>2. \A k \in Key : ~ Unpaid(k) => ~ Unpaid(k)'
  BY <1>1 DEF TypeOK, StoresTypeOK, Paid, KeyOfGrant
<1>3. ASSUME NEW p \in Proc, Step(p)
      PROVE  PaidRecordsAreTrue'
  <2>1. WritesTruly(p)
    BY <1>3, StepWritesTruly
  <2>2. pc[p] \in PaidPC =>
          /\ Paid(req[p]) /\ ~ Unpaid(KeyFor(p))
          /\ req[p] \in Grant /\ ActionOf[req[p]] = Act(p)
    BY CallFacts DEF LockInv, PaidCalls, Paid, KeyFor, KeyOfGrant, Act
  <2> QED
    BY <1>1, <1>2, <2>1, <2>2 DEF PaidRecordsAreTrue, WritesTruly
<1>4. ASSUME NEW p \in Proc, BeginCall(p) \/ Crash(p)
      PROVE  PaidRecordsAreTrue'
  <2>1. UNCHANGED stores
    BY <1>4 DEF BeginCall, StartPrepare, StartMint, StartAuthorize,
                StartCommit, StartReconcile, Crash
  <2> QED
    BY <2>1 DEF stores, PaidRecordsAreTrue, Paid, KeyOfGrant
<1>5. ASSUME NEW g \in Grant, Revoke(g)
      PROVE  PaidRecordsAreTrue'
  BY <1>5 DEF Revoke, PaidRecordsAreTrue, Paid, KeyOfGrant, TypeOK, StoresTypeOK
<1>6. CASE UNCHANGED stores
  BY <1>6 DEF stores, PaidRecordsAreTrue, Paid, KeyOfGrant
<1> QED
  BY <1>3, <1>4, <1>5, <1>6 DEF Next, Environment, Expire, AdvanceTip, vars

-----------------------------------------------------------------------------
(* The theorems.                                                           *)

\* The inductive invariant of the specification: from the reservation of an
\* entry in COMMIT to its release, settlement or hand-over, its call is alone.
THEOREM Invariance == Spec => []IInv
<1>1. Init => IInv
  <2>1. Init => TypeOK
    BY InitTypes
  <2>2. ASSUME Init
        PROVE  \A p \in Proc : /\ pc[p] \notin HoldingPC /\ pc[p] \notin PaidPC
                               /\ pc[p] \notin UnpaidPC /\ pc[p] # "rec_resolve"
    BY <2>2 DEF Init, HoldingPC, PaidPC, UnpaidPC, BeforePC, ArmedPC
  <2>3. Init => LockInv
    BY <2>2, EntryFields
       DEF Init, LockInv, OneHolder, HolderHasEntry, HolderPaysAlone,
           UnpaidHolders, PaidCalls, OpenHoldsEntry, ToldTheTruth,
           ReleasedIsEmpty, EffectHoldsExposure, AtMostOnceEffect, Paid
  <2>4. Init => PaidRecordsAreTrue
    BY EntryFields, ConstantsAssumption
       DEF Init, PaidRecordsAreTrue, NoRecord, Lifecycle
  <2> QED
    BY <2>1, <2>3, <2>4 DEF IInv
<1>2. TypeOK /\ TypeOK' /\ LockInv /\ PaidRecordsAreTrue /\ [Next]_vars
        => LockInv' /\ PaidRecordsAreTrue'
  BY NextKeepsLock, NextKeepsRecords
<1> QED
  BY <1>1, <1>2, TypeInvariant, PTL DEF Spec, IInv

\* A side effect happens at most once per execution key.
THEOREM AtMostOnce == Spec => []AtMostOnceEffect
<1>1. IInv => AtMostOnceEffect
  BY DEF IInv, LockInv
<1> QED
  BY <1>1, Invariance, PTL

\* The exposure of an effect that happened is never given back.
THEOREM EffectsAreCharged == Spec => []EffectHoldsExposure
<1>1. IInv => EffectHoldsExposure
  BY DEF IInv, LockInv
<1> QED
  BY <1>1, Invariance, PTL

\* No store says of a payment that it was made when it was not.
THEOREM RecordsAreTrue == Spec => []PaidRecordsAreTrue
<1>1. IInv => PaidRecordsAreTrue
  BY DEF IInv
<1> QED
  BY <1>1, Invariance, PTL

\* A call that is about to call the adapter is alone under its key, holds the
\* exposure, and neither a payment nor a reconciliation is under the key.
THEOREM InvocationIsExclusive == Spec => []ExclusiveInvocation
<1>1. IInv => ExclusiveInvocation
  <2> SUFFICES ASSUME IInv, NEW p \in Proc, pc[p] = "cm_invoke"
               PROVE  /\ main[KeyFor(p)] = InFlight(Act(p))
                      /\ Unpaid(KeyFor(p))
                      /\ \A a \in Action :
                           KeyOf[a] = KeyFor(p) => reservation[a] # "OPEN"
                      /\ \A q \in Proc \ {p} :
                           pc[q] = "cm_invoke" => KeyFor(q) # KeyFor(p)
    BY DEF ExclusiveInvocation
  <2>1. "cm_invoke" \in HoldingPC /\ "cm_invoke" \in UnpaidPC
    BY DEF HoldingPC, UnpaidPC, BeforePC, ArmedPC
  <2> QED
    BY <2>1 DEF IInv, LockInv, HolderHasEntry, UnpaidHolders, OpenHoldsEntry,
                OneHolder
<1> QED
  BY <1>1, Invariance, PTL

-----------------------------------------------------------------------------
(* The commit path implements PaymentOnce.                                 *)

\* What a call knows of its key while it holds it, in terms of PaymentOnce.
LEMMA HolderClaims ==
  ASSUME IInv, NEW p \in Proc, pc[p] \in HoldingPC
  PROVE  /\ req[p] \in Grant /\ Act(p) \in Action /\ KeyFor(p) \in Key
         /\ Act(p) = ActionOf[req[p]] /\ KeyFor(p) = KeyOf[Act(p)]
         /\ main[KeyFor(p)] = Once!Claimed(Act(p))
         /\ pc[p] \in UnpaidPC => Once!Unpaid(KeyFor(p))
         /\ pc[p] \in PaidPC => effects[req[p]] = 1
<1>1. TypeOK /\ LockInv
  BY DEF IInv
<1>2. main[KeyFor(p)] = Once!Claimed(Act(p))
  BY <1>1 DEF LockInv, HolderHasEntry, InFlight, Once!Claimed
<1>3. pc[p] \in UnpaidPC => Once!Unpaid(KeyFor(p))
  BY <1>1 DEF LockInv, UnpaidHolders, Unpaid, GrantsOf, KeyOfGrant,
              Once!Unpaid, Once!Payers
<1>4. pc[p] \in PaidPC => effects[req[p]] = 1
  BY <1>1, CallFacts DEF LockInv, PaidCalls, Paid, AtMostOnceEffect
<1> QED
  BY <1>1, <1>2, <1>3, <1>4, CallFacts

\* A step of a call is a step of PaymentOnce, or leaves claims and payments.
LEMMA StepRefines ==
  ASSUME IInv, NEW p \in Proc, Step(p)
  PROVE  Once!Next \/ UNCHANGED <<main, effects>>
<1>0. /\ TypeOK /\ LockInv /\ CallTypeOK
      /\ req[p] \in Grant /\ Act(p) \in Action /\ KeyFor(p) \in Key
      /\ Act(p) = ActionOf[req[p]] /\ KeyFor(p) = KeyOf[Act(p)]
  BY CallFacts DEF IInv, TypeOK
<1> USE DEF Once!Next
<1>1. CASE CommitReserve(p)
  <2>1. CASE Reservable(main, KeyFor(p), GroupOf[Act(p)], Amount[Act(p)],
                        Limit[Act(p)])
    <3>1. main[KeyFor(p)] = Once!Free
      BY <1>0, <2>1 DEF Reservable, Held, LockInv, ReleasedIsEmpty, NoEntry,
                        Once!Free
    <3>2. Once!Claim(Act(p))
      BY <1>0, <1>1, <2>1, <3>1
         DEF CommitReserve, InFlight, Once!Claim, Once!Claimed
    <3> QED
      BY <1>0, <3>2
  <2> QED
    BY <1>1, <2>1 DEF CommitReserve
<1>2. ASSUME CommitUnreserve(p) \/ FailRelease(p) \/ ReconcileRelease(p)
      PROVE  Once!Next \/ UNCHANGED <<main, effects>>
  <2>1. /\ pc[p] \in {"cm_unreserve", "fail_exposure", "rec_release"}
        /\ UNCHANGED effects
        /\ \/ UNCHANGED main
           \/ main' = [main EXCEPT ![KeyFor(p)] = NoEntry]
    BY <1>2 DEF CommitUnreserve, FailRelease, ReconcileRelease, Released
  <2>2. pc[p] \in HoldingPC /\ pc[p] \in UnpaidPC
    BY <2>1 DEF HoldingPC, UnpaidPC, BeforePC, ArmedPC
  <2>3. Once!GiveBack(Act(p)) \/ UNCHANGED <<main, effects>>
    BY <1>0, <2>1, <2>2, HolderClaims DEF NoEntry, Once!GiveBack, Once!Free
  <2> QED
    BY <1>0, <2>3
<1>3. CASE CommitInvoke(p)
  <2>1. PICK n \in {0, 1} : effects' = [effects EXCEPT ![req[p]] = @ + n]
    BY <1>3, ConstantsAssumption DEF CommitInvoke, MayHappen
  <2>2. pc[p] \in HoldingPC /\ pc[p] \in UnpaidPC /\ UNCHANGED main
    BY <1>3 DEF CommitInvoke, HoldingPC, UnpaidPC, BeforePC, ArmedPC
  <2>3. effects[req[p]] = 0
    BY <1>0, <2>2 DEF LockInv, UnpaidHolders, Unpaid, GrantsOf, KeyFor
  <2>4. CASE n = 1
    <3>1. effects' = [effects EXCEPT ![req[p]] = 1]
      BY <1>0, <2>1, <2>3, <2>4
    <3>2. Once!Pay(req[p])
      BY <1>0, <2>2, <3>1, HolderClaims DEF Once!Pay
    <3> QED
      BY <1>0, <3>2
  <2>5. CASE n = 0
    BY <1>0, <2>1, <2>2, <2>3, <2>5 DEF TypeOK, StoresTypeOK
  <2> QED
    BY <2>4, <2>5
<1>4. ASSUME OkCommitExposure(p) \/ ReconcileCommitExposure(p)
      PROVE  Once!Next \/ UNCHANGED <<main, effects>>
  <2>1. /\ pc[p] \in {"ok_exposure", "rec_expose"}
        /\ UNCHANGED effects
        /\ UNCHANGED main \/ main' = Committed(main, KeyFor(p))
    BY <1>4 DEF OkCommitExposure, ReconcileCommitExposure
  <2>2. pc[p] \in HoldingPC /\ pc[p] \in PaidPC
    BY <2>1 DEF HoldingPC, PaidPC
  <2>3. main[KeyFor(p)].action = Act(p)
    BY <1>0, <2>2, EntryFields DEF LockInv, HolderHasEntry
  <2>4. Committed(main, KeyFor(p))
          = [main EXCEPT ![KeyFor(p)] = Once!Settled(Act(p))]
    <3>1. main \in [Key -> Entry]
      BY <1>0 DEF TypeOK, StoresTypeOK
    <3>2. Committed(main, KeyFor(p)) =
            [main EXCEPT ![KeyFor(p)] = [status |-> "COMMITTED",
                                         action |-> main[KeyFor(p)].action]]
      BY <1>0, <3>1, CommittedType
    <3> QED
      BY <2>3, <3>2, Zenon DEF Once!Settled
  <2>5. Once!Settle(req[p]) \/ UNCHANGED <<main, effects>>
    BY <1>0, <2>1, <2>2, <2>4, HolderClaims DEF Once!Settle
  <2> QED
    BY <1>0, <2>5
<1>5. CASE UnknownReserve(p) \/ ReconcileResolve(p)
  BY <1>5 DEF UnknownReserve, ReconcileResolve
<1>6. CASE ~ LockStep(p)
  BY <1>0, <1>6, OtherStepsAreQuiet DEF QuietFor
<1> QED
  BY <1>1, <1>2, <1>3, <1>4, <1>5, <1>6 DEF LockStep

\* The commit path, with retries, crashes and reconciliation, is PaymentOnce.
THEOREM Refinement == Spec => RefinesPaymentOnce
<1>1. Init => Once!Init
  BY DEF Init, Once!Init, NoEntry, Once!Free
<1>2. IInv /\ [Next]_vars => [Once!Next]_(Once!vars)
  <2> SUFFICES ASSUME IInv, [Next]_vars
               PROVE  Once!Next \/ UNCHANGED <<main, effects>>
    BY DEF Once!vars
  <2>1. ASSUME NEW p \in Proc, BeginCall(p)
        PROVE  UNCHANGED <<main, effects>>
    BY <2>1 DEF BeginCall, StartPrepare, StartMint, StartAuthorize,
                StartCommit, StartReconcile, stores
  <2>2. CASE Environment
    BY <2>2 DEF Environment, Revoke, Expire, AdvanceTip, Crash, stores
  <2>3. CASE UNCHANGED vars
    BY <2>3 DEF vars, stores
  <2> QED
    BY <2>1, <2>2, <2>3, StepRefines DEF Next
<1> QED
  BY <1>1, <1>2, Invariance, PTL DEF Spec, RefinesPaymentOnce, Once!Spec

-----------------------------------------------------------------------------
(* How the steps of a call change what it holds and what is stored.         *)

\* A step of call p leaves what the other calls hold, and p keeps what it has
\* read until it ends.
LEMMA OthersWait ==
  ASSUME CallTypeOK, NEW p \in Proc, Step(p)
  PROVE  /\ \A q \in Proc \ {p} :
              /\ pc'[q] = pc[q] /\ req'[q] = req[q]
              /\ live'[q] = live[q] /\ rooted'[q] = rooted[q]
         /\ \/ pc'[p] = "idle" /\ ~rooted'[p]
            \/ req'[p] = req[p] /\ live'[p] = live[p] /\ rooted'[p] = rooted[p]
<1> USE DEF CallTypeOK
<1>1. CASE \E l \in PC : Goto(p, l)
  BY <1>1 DEF Goto
<1>2. CASE Return(p)
  BY <1>2 DEF Return
<1>3. CASE CommitInvoke(p)
  BY <1>3 DEF CommitInvoke
<1> QED
  BY <1>1, <1>2, <1>3, StepShape

\* Where a call can have come from.
LEMMA CameFrom ==
  ASSUME CallTypeOK, NEW p \in Proc, Step(p)
  PROVE  /\ pc'[p] \in NoncePC => pc[p] \in NoncePC \/ pc[p] = "cm_nonce"
         /\ pc'[p] \in FreshPC => pc[p] \in FreshPC \/ pc[p] = "cm_nonce"
         /\ pc'[p] \in {"cm_begin", "cm_nonce"} =>
              pc[p] = "cm_grant" \/ pc[p] = "cm_begin"
         /\ pc'[p] \in ReconcilePC => pc[p] \in ReconcilePC
         /\ pc'[p] \in UnconsumedPC =>
              pc[p] \in UnconsumedPC \cup {"cm_invoke", "rec_resolve"}
         /\ pc'[p] = "rec_grant" => pc[p] = "rec_expose"
<1> USE DEF NoncePC, FreshPC, UnconsumedPC, ReconcilePC, ArmedPC, SettlePC
<1>0. pc'[p] = "idle" \/ \E l \in PC : pc' = [pc EXCEPT ![p] = l]
  <2>1. CASE CommitInvoke(p)
    <3>1. \A ans \in Answers : AfterAnswer(ans) \in PC
      BY ConstantsAssumption DEF AfterAnswer, PC
    <3> QED
      BY <2>1, <3>1 DEF CommitInvoke
  <2> QED
    BY <2>1, StepShape DEF Goto, Return, CallTypeOK
<1>1. CASE AuthorizeStep(p)
  BY <1>1 DEF AuthorizeStep, PreparePut, MintPut, AuthorizeCheckReservation,
     AuthorizeReadGrant, AuthorizePutToken, AuthorizeMove, Goto, Return, CallTypeOK
<1>2. CASE GateStep(p)
  BY <1>2 DEF GateStep, CommitReplay, CommitReadTip, CommitReadToken,
     CommitReadGrant, CommitBegin, CommitRegisterNonce, CommitRereadGrant,
     CommitReserve, Goto, Return, CallTypeOK
<1>3. CASE ExecuteStep(p)
  <2>1. CASE CommitInvoke(p)
    BY <2>1 DEF CommitInvoke, AfterAnswer, CallTypeOK
  <2> QED
    BY <1>3, <2>1 DEF ExecuteStep, CommitReserveRoot, CommitUnreserve,
       CommitConsumeToken, CommitMove, Goto, Return, CallTypeOK
<1>4. CASE SettleStep(p)
  BY <1>4 DEF SettleStep, OkConsumeGrant, OkCommitExposure, OkCommitRoot,
     OkComplete, OkAppend, OkMove, FailRelease, FailReleaseRoot, FailComplete,
     FailAppend, FailMove, UnknownMark, UnknownLockGrant, UnknownReserve,
     UnknownAppend, UnknownMove, Goto, Return, CallTypeOK
<1>5. CASE ReconcileStep(p)
  BY <1>5 DEF ReconcileStep, ReconcileResolve, ReconcileCommitExposure,
     ReconcileConsumeGrant, ReconcilePaid, ReconcileRelease, ReconcileUnpaid,
     Goto, Return, CallTypeOK
<1> QED
  BY <1>1, <1>2, <1>3, <1>4, <1>5 DEF Step

\* Nonces are registered in one place, by a call whose nonce is not.
LEMMA NonceStep ==
  ASSUME CallTypeOK, NEW p \in Proc, Step(p)
  PROVE  /\ nonces \subseteq nonces'
         /\ pc[p] = "cm_nonce" /\ pc'[p] # "idle" =>
              req[p] \notin nonces /\ nonces' = nonces \cup {req[p]}
<1>1. CASE CommitRegisterNonce(p)
  BY <1>1 DEF CommitRegisterNonce, Return, CallTypeOK
<1>2. CASE ~CommitRegisterNonce(p)
  <2>1. UNCHANGED nonces /\ pc[p] # "cm_nonce"
    BY <1>2 DEF Step, AuthorizeStep, GateStep, ExecuteStep, SettleStep,
       ReconcileStep, PreparePut, MintPut, AuthorizeCheckReservation,
       AuthorizeReadGrant, AuthorizePutToken, AuthorizeMove, CommitReplay,
       CommitReadTip, CommitReadToken, CommitReadGrant, CommitBegin,
       CommitRereadGrant, CommitReserve, CommitReserveRoot, CommitUnreserve,
       CommitConsumeToken, CommitMove, CommitInvoke, OkConsumeGrant,
       OkCommitExposure, OkCommitRoot, OkComplete, OkAppend, OkMove,
       FailRelease, FailReleaseRoot, FailComplete, FailAppend, FailMove,
       UnknownMark, UnknownLockGrant, UnknownReserve, UnknownAppend,
       UnknownMove, ReconcileResolve, ReconcileCommitExposure,
       ReconcileConsumeGrant, ReconcilePaid, ReconcileRelease,
       ReconcileUnpaid, stores
  <2> QED
    BY <2>1
<1> QED
  BY <1>1, <1>2

\* A step makes a reservation for the call that hands over its key, resolves
\* one for a reconciliation, or leaves them.
Reserves(p) ==
  /\ pc[p] = "unk_reserve" /\ pc'[p] = "unk_ledger"
  /\ reservation' = [reservation EXCEPT ![Act(p)] = "OPEN"]
  /\ reservedBy' = [reservedBy EXCEPT ![Act(p)] = req[p]]
  /\ reservation[Act(p)] # "RESOLVED"
  /\ UNCHANGED <<grant, nonces, idem, main, effects>>
Resolves(p) ==
  /\ pc[p] = "rec_resolve" /\ pc'[p] \in {"rec_expose", "rec_release"}
  /\ reservation[Act(p)] = "OPEN"
  /\ reservation' = [reservation EXCEPT ![Act(p)] = "RESOLVED"]
  /\ UNCHANGED <<grant, nonces, idem, main, effects, reservedBy>>
LEMMA ReservationStep ==
  ASSUME CallTypeOK, NEW p \in Proc, Step(p)
  PROVE  \/ Reserves(p) \/ Resolves(p)
         \/ UNCHANGED <<reservation, reservedBy>>
<1>1. CASE UnknownReserve(p)
  BY <1>1 DEF UnknownReserve, Reserves, Goto, Return, CallTypeOK
<1>2. CASE ReconcileResolve(p)
  BY <1>2 DEF ReconcileResolve, Resolves, Goto, Return, CallTypeOK
<1>3. CASE ~UnknownReserve(p) /\ ~ReconcileResolve(p)
  BY <1>3 DEF Step, AuthorizeStep, GateStep, ExecuteStep, SettleStep,
       ReconcileStep, PreparePut, MintPut, AuthorizeCheckReservation,
       AuthorizeReadGrant, AuthorizePutToken, AuthorizeMove, CommitReplay,
       CommitReadTip, CommitReadToken, CommitReadGrant, CommitBegin,
       CommitRegisterNonce, CommitRereadGrant, CommitReserve,
       CommitReserveRoot, CommitUnreserve, CommitConsumeToken, CommitMove, CommitInvoke,
       OkConsumeGrant, OkCommitExposure, OkCommitRoot, OkComplete, OkAppend,
       OkMove, FailRelease, FailReleaseRoot, FailComplete, FailAppend,
       FailMove, UnknownMark, UnknownLockGrant, UnknownAppend, UnknownMove,
       ReconcileCommitExposure, ReconcileConsumeGrant, ReconcilePaid,
       ReconcileRelease, ReconcileUnpaid, stores
<1> QED
  BY <1>1, <1>2, <1>3

\* A step of a call mints, consumes or locks a grant, or leaves them.  The only
\* consumptions are those of a call that has paid or was told that it has.
LEMMA GrantStep ==
  ASSUME TypeOK, NEW p \in Proc, Step(p)
  PROVE  \A g \in Grant :
           /\ grant[g] # "ABSENT" => grant'[g] # "ABSENT"
           /\ grant[g] \in {"CONSUMED", "REVOKED"} => grant'[g] = grant[g]
           /\ grant'[g] = "CONSUMED" /\ grant[g] # "CONSUMED" =>
                /\ g = req[p]
                /\ \/ pc[p] = "ok_grant" /\ pc'[p] = "ok_exposure"
                   \/ pc[p] = "rec_grant" /\ pc'[p] = "rec_paid"
<1> USE DEF TypeOK, StoresTypeOK, CallTypeOK
<1>1. CASE MintPut(p)
  BY <1>1, CallFacts DEF MintPut
<1>2. ASSUME OkConsumeGrant(p) \/ ReconcileConsumeGrant(p)
      PROVE  \A g \in Grant :
               /\ grant[g] # "ABSENT" => grant'[g] # "ABSENT"
               /\ grant[g] \in {"CONSUMED", "REVOKED"} => grant'[g] = grant[g]
               /\ grant'[g] = "CONSUMED" /\ grant[g] # "CONSUMED" =>
                    /\ g = req[p]
                    /\ \/ pc[p] = "ok_grant" /\ pc'[p] = "ok_exposure"
                       \/ pc[p] = "rec_grant" /\ pc'[p] = "rec_paid"
  BY <1>2, CallFacts DEF OkConsumeGrant, ReconcileConsumeGrant, Goto
<1>3. CASE UnknownLockGrant(p)
  BY <1>3, CallFacts DEF UnknownLockGrant
<1>4. CASE ~MintPut(p) /\ ~OkConsumeGrant(p) /\ ~ReconcileConsumeGrant(p)
             /\ ~UnknownLockGrant(p)
  BY <1>4 DEF Step, AuthorizeStep, GateStep, ExecuteStep, SettleStep,
       ReconcileStep, PreparePut, AuthorizeCheckReservation,
       AuthorizeReadGrant, AuthorizePutToken, AuthorizeMove, CommitReplay,
       CommitReadTip, CommitReadToken, CommitReadGrant, CommitBegin,
       CommitRegisterNonce, CommitRereadGrant, CommitReserve,
       CommitReserveRoot, CommitUnreserve, CommitConsumeToken, CommitMove,
       CommitInvoke, OkCommitExposure, OkCommitRoot, OkComplete, OkAppend,
       OkMove, FailRelease, FailReleaseRoot, FailComplete, FailAppend,
       FailMove, UnknownMark, UnknownReserve, UnknownAppend, UnknownMove,
       ReconcileResolve, ReconcileCommitExposure, ReconcilePaid,
       ReconcileRelease, ReconcileUnpaid, stores
<1> QED
  BY <1>1, <1>2, <1>3, <1>4

\* What a step does to the entry of the call's key: COMMIT takes it, a holder
\* gives it back or settles it.
Takes(p) ==
  /\ pc[p] = "cm_reserve" /\ pc'[p] = IF rooted[p] THEN "cm_root" ELSE "cm_consume"
  /\ Reservable(main, KeyFor(p), GroupOf[Act(p)], Amount[Act(p)], Limit[Act(p)])
  /\ main' = [main EXCEPT ![KeyFor(p)] = InFlight(Act(p))]
  /\ UNCHANGED <<grant, root, reservation, reservedBy, effects>>
GivesBack(p) ==
  /\ pc[p] \in {"cm_unreserve", "fail_exposure", "rec_release"}
  /\ main' = [main EXCEPT ![KeyFor(p)] = NoEntry]
  /\ UNCHANGED <<grant, root, reservation, reservedBy, effects>>
Settles(p) ==
  /\ pc[p] \in {"ok_exposure", "rec_expose"}
  /\ main' = [main EXCEPT ![KeyFor(p)] = [status |-> "COMMITTED", action |-> Act(p)]]
  /\ UNCHANGED <<grant, root, reservation, reservedBy, effects>>
LEMMA MainStep ==
  ASSUME TypeOK, LockInv, NEW p \in Proc, Step(p)
  PROVE  Takes(p) \/ GivesBack(p) \/ Settles(p) \/ UNCHANGED main
<1> USE DEF TypeOK, StoresTypeOK, CallTypeOK
<1>1. CASE CommitReserve(p)
  BY <1>1 DEF CommitReserve, Takes, Goto
<1>2. ASSUME CommitUnreserve(p) \/ FailRelease(p) \/ ReconcileRelease(p)
      PROVE  GivesBack(p) \/ UNCHANGED main
  BY <1>2 DEF CommitUnreserve, FailRelease, ReconcileRelease, Released, GivesBack
<1>3. ASSUME OkCommitExposure(p) \/ ReconcileCommitExposure(p)
      PROVE  Settles(p) \/ UNCHANGED main
  <2>1. /\ pc[p] \in {"ok_exposure", "rec_expose"}
        /\ UNCHANGED main \/ main' = Committed(main, KeyFor(p))
        /\ UNCHANGED <<grant, root, reservation, reservedBy, effects>>
    BY <1>3 DEF OkCommitExposure, ReconcileCommitExposure
  <2>2. main[KeyFor(p)].action = Act(p)
    BY <2>1, EntryFields DEF LockInv, HolderHasEntry, HoldingPC
  <2>3. Committed(main, KeyFor(p)) =
          [main EXCEPT ![KeyFor(p)] = [status |-> "COMMITTED", action |-> Act(p)]]
    <3>1. main \in [Key -> Entry] /\ KeyFor(p) \in Key
      BY CallFacts
    <3>2. Committed(main, KeyFor(p)) =
            [main EXCEPT ![KeyFor(p)] = [status |-> "COMMITTED",
                                         action |-> main[KeyFor(p)].action]]
      BY <3>1, CommittedType
    <3> QED
      BY <2>2, <3>2, Zenon
  <2> QED
    BY <2>1, <2>3 DEF Settles
<1>4. CASE UnknownReserve(p) \/ ReconcileResolve(p) \/ CommitInvoke(p)
  BY <1>4 DEF UnknownReserve, ReconcileResolve, CommitInvoke
<1>5. CASE ~LockStep(p)
  BY <1>5, OtherStepsAreQuiet DEF QuietFor
<1> QED
  BY <1>1, <1>2, <1>3, <1>4, <1>5 DEF LockStep

\* A settled entry stays, and so does the entry of a key that nobody holds.
LEMMA SettledEntryStays ==
  ASSUME TypeOK, LockInv, NEW p \in Proc, Step(p), NEW k \in Key,
         main[k].status = "COMMITTED"
  PROVE  main'[k] = main[k]
<1> USE DEF TypeOK, StoresTypeOK
<1>1. CASE Takes(p)
  BY <1>1, CallFacts DEF Takes, Reservable, Held
<1>2. CASE GivesBack(p) \/ Settles(p)
  <2>1. pc[p] \in HoldingPC
    BY <1>2 DEF GivesBack, Settles, HoldingPC, BeforePC, ArmedPC
  <2>2. KeyFor(p) # k
    BY <2>1, EntryFields DEF LockInv, HolderHasEntry
  <2> QED
    BY <1>2, <2>2, CallFacts DEF GivesBack, Settles
<1> QED
  BY <1>1, <1>2, MainStep

\* What a step finds when its call goes on, of a grant it reads, of a
\* reservation it resolves, and of an exposure it settles; the world stays.
LEMMA GoesOn ==
  ASSUME TypeOK, LockInv, NEW p \in Proc, Step(p)
  PROVE  /\ UNCHANGED world
         /\ pc[p] = "cm_grant" /\ pc'[p] # "idle" => grant[req[p]] = "ACTIVE"
         /\ pc[p] = "rec_resolve" /\ pc'[p] # "idle" => Resolves(p)
         /\ pc[p] = "rec_expose" /\ pc'[p] # "idle" => Settles(p)
<1> USE DEF TypeOK, CallTypeOK
<1>1. UNCHANGED world
  BY DEF Step, AuthorizeStep, GateStep, ExecuteStep, SettleStep,
       ReconcileStep, PreparePut, MintPut, AuthorizeCheckReservation,
       AuthorizeReadGrant, AuthorizePutToken, AuthorizeMove, CommitReplay,
       CommitReadTip, CommitReadToken, CommitReadGrant, CommitBegin,
       CommitRegisterNonce, CommitRereadGrant, CommitReserve,
       CommitReserveRoot, CommitUnreserve, CommitConsumeToken, CommitMove,
       CommitInvoke, OkConsumeGrant, OkCommitExposure, OkCommitRoot,
       OkComplete, OkAppend, OkMove, FailRelease, FailReleaseRoot,
       FailComplete, FailAppend, FailMove, UnknownMark, UnknownLockGrant,
       UnknownReserve, UnknownAppend, UnknownMove, ReconcileResolve,
       ReconcileCommitExposure, ReconcileConsumeGrant, ReconcilePaid,
       ReconcileRelease, ReconcileUnpaid
<1>2. ASSUME pc[p] \in {"cm_grant", "rec_resolve", "rec_expose"}
      PROVE  CommitReadGrant(p) \/ ReconcileResolve(p) \/ ReconcileCommitExposure(p)
  BY <1>2 DEF Step, AuthorizeStep, GateStep, ExecuteStep, SettleStep,
       ReconcileStep, PreparePut, MintPut, AuthorizeCheckReservation,
       AuthorizeReadGrant, AuthorizePutToken, AuthorizeMove, CommitReplay,
       CommitReadTip, CommitReadToken, CommitBegin,
       CommitRegisterNonce, CommitRereadGrant, CommitReserve,
       CommitReserveRoot, CommitUnreserve, CommitConsumeToken, CommitMove,
       CommitInvoke, OkConsumeGrant, OkCommitExposure, OkCommitRoot,
       OkComplete, OkAppend, OkMove, FailRelease, FailReleaseRoot,
       FailComplete, FailAppend, FailMove, UnknownMark, UnknownLockGrant,
       UnknownReserve, UnknownAppend, UnknownMove,
       ReconcileConsumeGrant, ReconcilePaid, ReconcileRelease, ReconcileUnpaid
<1>3. CASE CommitReadGrant(p)
  BY <1>1, <1>3 DEF CommitReadGrant, Return
<1>4. CASE ReconcileResolve(p)
  BY <1>1, <1>4 DEF ReconcileResolve, Resolves, Goto, Return
<1>5. CASE ReconcileCommitExposure(p)
  <2>1. /\ pc[p] = "rec_expose"
        /\ pc'[p] # "idle" => main' = Committed(main, KeyFor(p))
        /\ UNCHANGED <<grant, root, reservation, reservedBy, effects>>
    BY <1>5 DEF ReconcileCommitExposure, Return
  <2>2. main[KeyFor(p)].action = Act(p)
    BY <2>1, EntryFields DEF LockInv, HolderHasEntry, HoldingPC
  <2>3. Committed(main, KeyFor(p)) =
          [main EXCEPT ![KeyFor(p)] = [status |-> "COMMITTED",
                                       action |-> main[KeyFor(p)].action]]
    BY CommittedType, CallFacts DEF StoresTypeOK
  <2>4. pc'[p] # "idle" => Settles(p)
    BY <2>1, <2>2, <2>3 DEF Settles
  <2> QED
    BY <1>1, <2>1, <2>4
<1> QED
  BY <1>1, <1>2, <1>3, <1>4, <1>5

-----------------------------------------------------------------------------
(* A key in doubt is in somebody's hands.                                  *)

\* A nonce stays with the call that registered it.
LEMMA StepKeepsNonces ==
  ASSUME TypeOK, NoncesAreSingle, NEW p \in Proc, Step(p)
  PROVE  NoncesAreSingle'
<1> USE DEF TypeOK
<1>1. \A q \in Proc : pc'[q] \in NoncePC =>
        /\ req'[q] = req[q]
        /\ pc[q] \in NoncePC \/ (q = p /\ pc[q] = "cm_nonce")
  <2>1. "idle" \notin NoncePC
    BY DEF NoncePC, ArmedPC, SettlePC
  <2> QED
    BY <2>1, OthersWait, CameFrom
<1>2. "cm_nonce" \notin NoncePC /\ "idle" \notin NoncePC
  BY DEF NoncePC, ArmedPC, SettlePC
<1>3. pc[p] = "cm_nonce" /\ pc'[p] \in NoncePC =>
        req[p] \notin nonces /\ req[p] \in nonces'
  BY <1>2, NonceStep
<1>4. \A q \in Proc : pc'[q] \in NoncePC => req'[q] \in nonces'
  BY <1>1, <1>3, NonceStep DEF NoncesAreSingle
<1>5. \A q, r \in Proc :
        pc'[q] \in NoncePC /\ pc'[r] \in NoncePC /\ req'[q] = req'[r] => q = r
  BY <1>1, <1>3 DEF NoncesAreSingle
<1> QED
  BY <1>4, <1>5 DEF NoncesAreSingle, NoncePC, ArmedPC, SettlePC

\* A reservation is named by a used nonce, and an action with one grant is
\* reserved once.
LEMMA StepKeepsReservedOnce ==
  ASSUME TypeOK, NoncesAreSingle, ReservedOnce, GrantsAreThere,
         NEW p \in Proc, Step(p)
  PROVE  ReservedOnce'
<1> USE DEF TypeOK, StoresTypeOK
<1>0. "unk_reserve" \in NoncePC /\ "unk_ledger" \notin FreshPC
        /\ "rec_resolve" \notin FreshPC /\ "idle" \notin FreshPC
        /\ FreshPC \subseteq NoncePC /\ "cm_nonce" \notin NoncePC
  BY DEF NoncePC, FreshPC, ArmedPC, SettlePC
<1>1. ASSUME NEW a \in Action, reservation'[a] # "NONE"
      PROVE  /\ ActionOf[reservedBy'[a]] = a
             /\ reservedBy'[a] \in nonces'
             /\ grant'[reservedBy'[a]] # "ABSENT"
  <2>1. CASE Reserves(p) /\ a = Act(p)
    <3>1. reservedBy'[a] = req[p] /\ UNCHANGED <<grant, nonces>>
      BY <2>1 DEF Reserves
    <3>2. req[p] \in nonces /\ grant[req[p]] # "ABSENT"
      BY <2>1, <1>0 DEF Reserves, NoncesAreSingle, GrantsAreThere
    <3> QED
      BY <2>1, <3>1, <3>2, CallFacts
  <2>2. CASE ~(Reserves(p) /\ a = Act(p))
    <3>1. reservation[a] # "NONE" /\ reservedBy'[a] = reservedBy[a]
      BY <2>2, <1>1, ReservationStep, CallFacts DEF Reserves, Resolves
    <3>2. reservedBy[a] \in Grant
      OBVIOUS
    <3> QED
      BY <3>1, <3>2, NonceStep, GrantStep DEF ReservedOnce
  <2> QED
    BY <2>1, <2>2
<1>2. ASSUME NEW q \in Proc, pc'[q] \in FreshPC, Sole(req'[q])
      PROVE  reservation'[ActionOf[req'[q]]] = "NONE"
  <2>1. /\ req'[q] = req[q] /\ Sole(req[q])
        /\ pc[q] \in FreshPC \/ (q = p /\ pc[p] = "cm_nonce")
        /\ req[q] \in Grant /\ Act(q) = ActionOf[req[q]] /\ Act(q) \in Action
    BY <1>0, <1>2, OthersWait, CameFrom, CallFacts
  <2>2. reservation[Act(q)] = "NONE"
    <3>1. CASE pc[q] \in FreshPC
      BY <2>1, <3>1 DEF ReservedOnce
    <3>2. CASE pc[q] \notin FreshPC
      <4>1. q = p /\ pc[p] = "cm_nonce" /\ pc'[p] # "idle"
        BY <3>2, <2>1, <1>0, <1>2
      <4>2. req[q] \notin nonces
        BY <4>1, NonceStep
      <4>3. reservation[Act(q)] # "NONE" => reservedBy[Act(q)] = req[q]
        BY <2>1 DEF ReservedOnce, Sole
      <4> QED
        BY <4>2, <4>3, <2>1 DEF ReservedOnce
    <3> QED
      BY <3>1, <3>2
  <2>3. ASSUME Reserves(p), Act(p) = Act(q)
        PROVE  FALSE
    <3>1. req[p] = req[q]
      BY <2>1, <2>3, CallFacts DEF Sole
    <3>2. pc[p] = "unk_reserve" /\ pc'[p] = "unk_ledger"
      BY <2>3 DEF Reserves
    <3>3. q = p
      BY <3>1, <3>2, <2>1, <1>0 DEF NoncesAreSingle
    <3> QED
      BY <3>2, <3>3, <1>0, <1>2
  <2>4. ~(Resolves(p) /\ Act(p) = Act(q))
    BY <2>2 DEF Resolves
  <2>5. reservation'[Act(q)] = "NONE"
    BY <2>1, <2>2, <2>3, <2>4, ReservationStep, CallFacts DEF Reserves, Resolves
  <2> QED
    BY <2>1, <2>5
<1> QED
  BY <1>1, <1>2 DEF ReservedOnce, Act, Sole, FreshPC, NoncePC, ArmedPC, SettlePC

\* A grant that a call has found stays.
LEMMA StepKeepsGrants ==
  ASSUME TypeOK, LockInv, GrantsAreThere, NEW p \in Proc, Step(p)
  PROVE  GrantsAreThere'
<1> USE DEF TypeOK
<1> DEFINE There == {"cm_begin", "cm_nonce"} \cup NoncePC \cup ReconcilePC
<1>0. "idle" \notin There /\ "idle" \notin ReconcilePC
  BY DEF NoncePC, ArmedPC, SettlePC, ReconcilePC
<1>1. ASSUME NEW q \in Proc, pc'[q] \in There
      PROVE  grant'[req'[q]] # "ABSENT"
  <2>1. req'[q] = req[q] /\ req[q] \in Grant
    BY <1>0, <1>1, OthersWait, CallFacts
  <2>2. pc[q] \in There \/ (q = p /\ pc[p] = "cm_grant")
    BY <1>1, OthersWait, CameFrom
  <2>3. grant[req[q]] # "ABSENT"
    BY <2>2, <1>1, <1>0, GoesOn DEF GrantsAreThere
  <2> QED
    BY <2>1, <2>3, GrantStep
<1>2. ASSUME NEW q \in Proc, pc'[q] \in ReconcilePC
      PROVE  live'[q] \/ req'[q] \in expired'
  <2>1. req'[q] = req[q] /\ live'[q] = live[q] /\ pc[q] \in ReconcilePC
    BY <1>0, <1>2, OthersWait, CameFrom
  <2>2. expired' = expired
    BY GoesOn DEF world
  <2> QED
    BY <2>1, <2>2 DEF GrantsAreThere
<1> QED
  BY <1>1, <1>2 DEF GrantsAreThere, NoncePC, ArmedPC, SettlePC, ReconcilePC

\* The entry under a reconciliation that is about to consume the grant.
LEMMA SettledEntries ==
  ASSUME SettlersAreAlone, NEW s \in Proc, pc[s] = "rec_grant"
  PROVE  main[KeyFor(s)].status = "COMMITTED" /\ main[KeyFor(s)].action = Act(s)
<1>1. main[KeyFor(s)] = [status |-> "COMMITTED", action |-> Act(s)]
  BY DEF SettlersAreAlone
<1> QED
  BY <1>1

\* Nobody consumes the grant of another call or of an open reservation.
LEMMA StepKeepsUnconsumed ==
  ASSUME TypeOK, LockInv, PaidRecordsAreTrue, NotYetConsumed, SettlersAreAlone,
         NEW p \in Proc, Step(p)
  PROVE  NotYetConsumed'
<1> USE DEF TypeOK, StoresTypeOK, LockInv
<1>0. /\ UnconsumedPC \subseteq HoldingPC \cup {"rec_grant"}
      /\ "idle" \notin UnconsumedPC /\ "ok_exposure" \notin UnconsumedPC
      /\ "rec_paid" \notin UnconsumedPC
      /\ "cm_invoke" \in UnpaidPC /\ "ok_grant" \in HoldingPC
  BY DEF UnconsumedPC, HoldingPC, BeforePC, ArmedPC, UnpaidPC
<1>1. ASSUME NEW g \in Grant, grant'[g] = "CONSUMED", grant[g] # "CONSUMED"
      PROVE  /\ g = req[p] /\ KeyFor(p) = KeyOfGrant(g)
             /\ pc'[p] \notin UnconsumedPC
             /\ \/ pc[p] \in HoldingPC
                \/ pc[p] = "rec_grant" /\ main[KeyFor(p)].status = "COMMITTED"
  BY <1>0, <1>1, GrantStep, SettledEntries DEF KeyFor
<1>2. ASSUME NEW q \in Proc, pc'[q] \in UnconsumedPC
      PROVE  grant'[req'[q]] # "CONSUMED"
  <2>1. /\ req'[q] = req[q] /\ req[q] \in Grant
        /\ pc[q] \in UnconsumedPC \/ (q = p /\ pc[p] \in {"cm_invoke", "rec_resolve"})
    BY <1>0, <1>2, OthersWait, CameFrom, CallFacts
  <2>2. grant[req[q]] # "CONSUMED"
    <3>1. CASE pc[q] \in UnconsumedPC
      BY <3>1 DEF NotYetConsumed
    <3>2. CASE q = p /\ pc[p] = "cm_invoke"
      BY <3>2, <2>1, <1>0
         DEF UnpaidHolders, Unpaid, GrantsOf, KeyFor, PaidRecordsAreTrue, Paid
    <3>3. CASE q = p /\ pc[p] = "rec_resolve"
      <4>1. Resolves(p)
        BY <3>3, <1>0, <1>2, GoesOn
      <4> QED
        BY <3>3, <4>1, CallFacts DEF Resolves, ToldTheTruth, NotYetConsumed
    <3> QED
      BY <2>1, <3>1, <3>2, <3>3
  <2>3. ASSUME grant'[req[q]] = "CONSUMED"
        PROVE  FALSE
    <3>1. /\ req[q] = req[p] /\ pc'[p] \notin UnconsumedPC
          /\ \/ pc[p] \in HoldingPC
             \/ pc[p] = "rec_grant" /\ main[KeyFor(p)].status = "COMMITTED"
      BY <2>1, <2>2, <2>3, <1>1
    <3>2. q # p /\ pc[q] \in UnconsumedPC /\ KeyFor(q) = KeyFor(p)
      BY <3>1, <2>1, <1>2 DEF KeyFor
    <3>3. CASE pc[q] = "rec_grant" /\ pc[p] = "rec_grant"
      BY <3>2, <3>3 DEF SettlersAreAlone
    <3>4. CASE pc[q] = "rec_grant" /\ pc[p] \in HoldingPC
      <4>1. main[KeyFor(q)].status = "COMMITTED"
        BY <3>4, SettledEntries
      <4> QED
        BY <4>1, <3>2, <3>4, EntryFields DEF HolderHasEntry
    <3>5. CASE pc[q] \in HoldingPC /\ pc[p] \in HoldingPC
      BY <3>2, <3>5 DEF OneHolder
    <3>6. CASE pc[q] \in HoldingPC /\ main[KeyFor(p)].status = "COMMITTED"
      BY <3>2, <3>6, EntryFields DEF HolderHasEntry
    <3> QED
      BY <3>1, <3>2, <3>3, <3>4, <3>5, <3>6, <1>0
  <2> QED
    BY <2>1, <2>3
<1>3. ASSUME NEW a \in Action, reservation'[a] = "OPEN"
      PROVE  grant'[reservedBy'[a]] # "CONSUMED"
  <2>1. CASE Reserves(p) /\ a = Act(p)
    <3>1. /\ pc[p] = "unk_reserve" /\ grant' = grant /\ reservedBy'[a] = req[p]
      BY <2>1 DEF Reserves
    <3> QED
      BY <3>1 DEF NotYetConsumed, UnconsumedPC
  <2>2. CASE ~(Reserves(p) /\ a = Act(p))
    <3>1. reservation[a] = "OPEN" /\ reservedBy'[a] = reservedBy[a]
            /\ reservedBy[a] \in Grant
      BY <2>2, <1>3, ReservationStep, CallFacts DEF Reserves, Resolves
    <3>2. grant[reservedBy[a]] # "CONSUMED" /\ KeyOfGrant(reservedBy[a]) = KeyOf[a]
            /\ main[KeyOf[a]].status = "IN_FLIGHT"
            /\ \A q \in Proc : pc[q] \in HoldingPC => KeyFor(q) # KeyOf[a]
      BY <3>1, EntryFields DEF NotYetConsumed, OpenHoldsEntry, KeyOfGrant
    <3> QED
      BY <3>1, <3>2, <1>1
  <2> QED
    BY <2>1, <2>2
<1> QED
  BY <1>2, <1>3 DEF NotYetConsumed, UnconsumedPC

\* A reconciliation that has committed the exposure stays alone.
LEMMA StepKeepsSettlers ==
  ASSUME TypeOK, LockInv, SettlersAreAlone, NEW p \in Proc, Step(p)
  PROVE  SettlersAreAlone'
<1> USE DEF TypeOK, StoresTypeOK, LockInv
<1>1. \A q \in Proc : pc'[q] = "rec_grant" =>
        /\ req'[q] = req[q] /\ KeyFor(q)' = KeyFor(q) /\ Act(q)' = Act(q)
        /\ \/ pc[q] = "rec_grant"
           \/ q = p /\ pc[p] = "rec_expose" /\ Settles(p)
  BY OthersWait, CameFrom, GoesOn DEF KeyFor, KeyOfGrant, Act
<1>2. ASSUME NEW q \in Proc, pc'[q] = "rec_grant"
      PROVE  main'[KeyFor(q)] = [status |-> "COMMITTED", action |-> Act(q)]
  <2>1. CASE pc[q] = "rec_grant"
    BY <2>1, SettledEntryStays, CallFacts DEF SettlersAreAlone
  <2>2. CASE q = p /\ Settles(p)
    BY <2>2, CallFacts DEF Settles
  <2> QED
    BY <1>1, <1>2, <2>1, <2>2
<1>3. ASSUME NEW q \in Proc, NEW r \in Proc, pc'[q] = "rec_grant",
             pc'[r] = "rec_grant", KeyFor(r) = KeyFor(q)
      PROVE  r = q
  <2>1. pc[q] = "rec_grant" /\ pc[r] = "rec_grant" => r = q
    BY <1>3 DEF SettlersAreAlone
  <2>2. \A s \in Proc : pc[s] = "rec_grant" => main[KeyFor(s)].status = "COMMITTED"
    BY SettledEntries
  <2>3. pc[p] = "rec_expose" => main[KeyFor(p)].status = "IN_FLIGHT"
    BY EntryFields DEF HolderHasEntry, HoldingPC
  <2> QED
    BY <1>1, <1>3, <2>1, <2>2, <2>3
<1> QED
  BY <1>1, <1>2, <1>3 DEF SettlersAreAlone

\* Only the adapter moves money.
LEMMA StepPays ==
  ASSUME NEW p \in Proc, Step(p), ~CommitInvoke(p)
  PROVE  UNCHANGED effects
BY DEF Step, AuthorizeStep, GateStep, ExecuteStep, SettleStep,
       ReconcileStep, PreparePut, MintPut, AuthorizeCheckReservation,
       AuthorizeReadGrant, AuthorizePutToken, AuthorizeMove, CommitReplay,
       CommitReadTip, CommitReadToken, CommitReadGrant, CommitBegin,
       CommitRegisterNonce, CommitRereadGrant, CommitReserve,
       CommitReserveRoot, CommitUnreserve, CommitConsumeToken, CommitMove,
       OkConsumeGrant, OkCommitExposure, OkCommitRoot, OkComplete, OkAppend,
       OkMove, FailRelease, FailReleaseRoot, FailComplete, FailAppend,
       FailMove, UnknownMark, UnknownLockGrant, UnknownReserve,
       UnknownAppend, UnknownMove, ReconcileResolve, ReconcileCommitExposure,
       ReconcileConsumeGrant, ReconcilePaid, ReconcileRelease,
       ReconcileUnpaid, stores

\* A call undoes no disturbance.
LEMMA StaysDisturbed ==
  ASSUME TypeOK, LockInv, NEW p \in Proc, Step(p), Undisturbed'
  PROVE  Undisturbed
<1>1. crashes = 0 /\ expired = {}
  BY GoesOn DEF world, Undisturbed
<1>2. \A g \in Grant : grant[g] # "REVOKED"
  BY GrantStep DEF Undisturbed
<1> QED
  BY <1>1, <1>2 DEF Undisturbed

\* A call that has the grant of an undisturbed key in hand can use it.
LEMMA UsableGrant ==
  ASSUME TypeOK, GrantsAreThere, NotYetConsumed, Undisturbed, NEW p \in Proc,
         pc[p] \in {"unk_grant", "rec_grant"}
  PROVE  /\ grant[req[p]] \in {"ACTIVE", "PENDING_RECONCILIATION"}
         /\ pc[p] = "rec_grant" => live[p]
<1>1. grant[req[p]] \in ConsumptionState /\ req[p] \in Grant
  BY CallFacts DEF TypeOK, StoresTypeOK
<1>2. grant[req[p]] # "ABSENT" /\ (pc[p] = "rec_grant" => live[p])
  BY DEF GrantsAreThere, Undisturbed, NoncePC, SettlePC, ReconcilePC
<1>3. grant[req[p]] \notin {"CONSUMED", "REVOKED"}
  BY <1>1 DEF NotYetConsumed, Undisturbed, UnconsumedPC
<1> QED
  BY <1>1, <1>2, <1>3 DEF ConsumptionState

\* An undisturbed call keeps a key in doubt in hand until it has reserved for
\* a reconciliation, or there is no doubt any more.
LEMMA KeepsInHand ==
  ASSUME TypeOK, LockInv, ReservedOnce, GrantsAreThere, NotYetConsumed,
         Undisturbed, NEW p \in Proc, Step(p), pc[p] \in InHandPC, Sole(req[p])
  PROVE  \/ pc'[p] \in InHandPC
         \/ reservation'[Act(p)] = "OPEN"
         \/ idem'[KeyFor(p)] # "UNKNOWN"
<1> USE DEF TypeOK, CallTypeOK
<1>1. CASE UnknownLockGrant(p)
  BY <1>1, UsableGrant DEF UnknownLockGrant, Goto, InHandPC
<1>2. CASE UnknownReserve(p)
  <2>1. reservation[Act(p)] = "NONE"
    BY <1>2 DEF UnknownReserve, ReservedOnce, FreshPC, NoncePC, SettlePC
  <2> QED
    BY <1>2, <2>1, CallFacts DEF UnknownReserve, StoresTypeOK
<1>3. CASE ReconcileCommitExposure(p) \/ ReconcileRelease(p)
  <2>1. Held(main, KeyFor(p))
    BY <1>3, EntryFields DEF ReconcileCommitExposure, ReconcileRelease,
       LockInv, HolderHasEntry, HoldingPC, Held
  <2> QED
    BY <1>3, <2>1 DEF ReconcileCommitExposure, ReconcileRelease, Goto, InHandPC
<1>4. CASE ReconcileConsumeGrant(p)
  BY <1>4, UsableGrant DEF ReconcileConsumeGrant, Goto, InHandPC
<1>5. CASE ReconcilePaid(p) \/ ReconcileUnpaid(p)
  BY <1>5, CallFacts DEF ReconcilePaid, ReconcileUnpaid, StoresTypeOK
<1> QED
  BY <1>1, <1>2, <1>3, <1>4, <1>5
     DEF InHandPC, Step, AuthorizeStep, GateStep, ExecuteStep, SettleStep,
       ReconcileStep, PreparePut, MintPut, AuthorizeCheckReservation,
       AuthorizeReadGrant, AuthorizePutToken, AuthorizeMove, CommitReplay,
       CommitReadTip, CommitReadToken, CommitReadGrant, CommitBegin,
       CommitRegisterNonce, CommitRereadGrant, CommitReserve,
       CommitReserveRoot, CommitUnreserve, CommitConsumeToken, CommitMove,
       CommitInvoke, OkConsumeGrant, OkCommitExposure, OkCommitRoot,
       OkComplete, OkAppend, OkMove, FailRelease, FailReleaseRoot,
       FailComplete, FailAppend, FailMove, UnknownMark,
       UnknownAppend, UnknownMove, ReconcileResolve

\* A key comes into doubt in one place.
LEMMA DoubtStep ==
  ASSUME TypeOK, NEW p \in Proc, Step(p), NEW k \in Key, idem'[k] = "UNKNOWN"
  PROVE  idem[k] = "UNKNOWN" \/ (KeyFor(p) = k /\ pc'[p] = "unk_grant")
<1> USE DEF TypeOK, StoresTypeOK, CallTypeOK
<1>1. CASE CommitBegin(p)
  BY <1>1, CallFacts DEF CommitBegin
<1>2. CASE UnknownMark(p)
  BY <1>2, CallFacts DEF UnknownMark, Goto
<1>3. ASSUME OkComplete(p) \/ FailComplete(p) \/ ReconcilePaid(p) \/ ReconcileUnpaid(p)
      PROVE  idem[k] = "UNKNOWN"
  BY <1>3, CallFacts DEF OkComplete, FailComplete, ReconcilePaid, ReconcileUnpaid
<1>4. CASE UNCHANGED idem
  BY <1>4
<1> QED
  BY <1>1, <1>2, <1>3, <1>4
     DEF Step, AuthorizeStep, GateStep, ExecuteStep, SettleStep,
       ReconcileStep, PreparePut, MintPut, AuthorizeCheckReservation,
       AuthorizeReadGrant, AuthorizePutToken, AuthorizeMove, CommitReplay,
       CommitReadTip, CommitReadToken, CommitReadGrant,
       CommitRegisterNonce, CommitRereadGrant, CommitReserve,
       CommitReserveRoot, CommitUnreserve, CommitConsumeToken, CommitMove,
       CommitInvoke, OkConsumeGrant, OkCommitExposure, OkCommitRoot,
       OkAppend, OkMove, FailRelease, FailReleaseRoot, FailAppend, FailMove,
       UnknownLockGrant, UnknownReserve, UnknownAppend, UnknownMove,
       ReconcileResolve, ReconcileCommitExposure, ReconcileConsumeGrant,
       ReconcileRelease, stores

\* So a key in doubt stays in somebody's hands.
LEMMA StepKeepsDoubtInHand ==
  ASSUME TypeOK, LockInv, ReservedOnce, GrantsAreThere, NotYetConsumed,
         DoubtIsInHand, NEW p \in Proc, Step(p)
  PROVE  DoubtIsInHand'
<1> SUFFICES ASSUME Undisturbed', NEW k \in Key, idem'[k] = "UNKNOWN",
                    \A g \in GrantsOf(k) : Sole(g)
             PROVE  \/ \E a \in Action : KeyOf[a] = k /\ reservation'[a] = "OPEN"
                    \/ \E q \in Proc : KeyFor(q)' = k /\ pc'[q] \in InHandPC
  BY DEF DoubtIsInHand, GrantsOf, Sole, KeyOfGrant, InHandPC
<1> USE DEF TypeOK, StoresTypeOK
<1>0. Undisturbed
  BY StaysDisturbed
<1>1. /\ "idle" \notin InHandPC /\ "unk_grant" \in InHandPC
      /\ {"rec_expose", "rec_release"} \subseteq InHandPC
  BY DEF InHandPC
<1>2. \A q \in Proc : pc'[q] # "idle" => KeyFor(q)' = KeyFor(q)
  BY OthersWait DEF KeyFor, KeyOfGrant
<1>3. CASE idem[k] # "UNKNOWN"
  <2>1. KeyFor(p) = k /\ pc'[p] = "unk_grant"
    BY <1>3, DoubtStep
  <2> QED
    BY <2>1, <1>1, <1>2
<1>4. ASSUME NEW a \in Action, KeyOf[a] = k, reservation[a] = "OPEN"
      PROVE  \/ \E b \in Action : KeyOf[b] = k /\ reservation'[b] = "OPEN"
             \/ \E q \in Proc : KeyFor(q)' = k /\ pc'[q] \in InHandPC
  <2>1. CASE Resolves(p) /\ Act(p) = a
    <3>1. pc'[p] \in InHandPC /\ KeyFor(p) = k
      BY <2>1, <1>1, <1>4, CallFacts DEF Resolves
    <3> QED
      BY <3>1, <1>1, <1>2
  <2>2. CASE ~(Resolves(p) /\ Act(p) = a)
    <3>1. reservation'[a] = "OPEN"
      BY <2>2, <1>4, ReservationStep, CallFacts DEF Reserves, Resolves
    <3> QED
      BY <3>1, <1>4
  <2> QED
    BY <2>1, <2>2
<1>5. ASSUME NEW q \in Proc, KeyFor(q) = k, pc[q] \in InHandPC
      PROVE  \/ \E b \in Action : KeyOf[b] = k /\ reservation'[b] = "OPEN"
             \/ \E r \in Proc : KeyFor(r)' = k /\ pc'[r] \in InHandPC
  <2>1. CASE q # p
    BY <2>1, <1>1, <1>2, <1>5, OthersWait
  <2>2. CASE q = p
    <3>1. Sole(req[p])
      BY <2>2, <1>5, CallFacts DEF GrantsOf, KeyFor
    <3>2. \/ pc'[p] \in InHandPC
          \/ reservation'[Act(p)] = "OPEN"
      BY <3>1, <2>2, <1>0, <1>5, KeepsInHand
    <3> QED
      BY <3>2, <2>2, <1>1, <1>2, <1>5, CallFacts
  <2> QED
    BY <2>1, <2>2
<1>6. CASE idem[k] = "UNKNOWN"
  BY <1>0, <1>4, <1>5, <1>6 DEF DoubtIsInHand
<1> QED
  BY <1>3, <1>6

\* What a resolved reservation has settled stays so: a sole grant pays and
\* reserves no more.
LEMMA StaysSettled ==
  ASSUME TypeOK, LockInv, ReservedOnce, NEW p \in Proc, Step(p),
         NEW a \in Action, reservation[a] = "RESOLVED", Sole(reservedBy[a]),
         reservedBy'[a] = reservedBy[a], Settled(a)
  PROVE  Settled(a)'
<1> USE DEF TypeOK, StoresTypeOK, LockInv
<1> DEFINE g == reservedBy[a]
<1>0. g \in Grant /\ ActionOf[g] = a /\ KeyOf[a] \in Key
  BY ConstantsAssumption DEF ReservedOnce
<1>1. Act(p) = a => pc[p] \notin {"cm_invoke", "cm_reserve"}
  <2>1. ASSUME Act(p) = a, pc[p] \in {"cm_invoke", "cm_reserve"}
        PROVE  FALSE
    <3>1. req[p] = g /\ pc[p] \in FreshPC
      BY <2>1, <1>0, CallFacts DEF Sole, FreshPC, NoncePC, ArmedPC
    <3> QED
      BY <3>1, <2>1 DEF ReservedOnce
  <2> QED
    BY <2>1
<1>2. CASE Paid(g)
  <2>1. main'[KeyOf[a]] = [status |-> "COMMITTED", action |-> a]
    <3>1. main[KeyOf[a]] = [status |-> "COMMITTED", action |-> a]
      BY <1>2 DEF Settled
    <3>2. main[KeyOf[a]].status = "COMMITTED"
      BY <3>1
    <3> QED
      BY <3>1, <3>2, <1>0, SettledEntryStays
  <2>2. grant'[g] = "CONSUMED"
    BY <1>0, <1>2, GrantStep DEF Settled
  <2>3. effects'[g] > 0
    <3>1. [Next]_vars
      BY DEF Next
    <3> QED
      BY <3>1, <1>0, <1>2, EffectsGrow DEF Paid
  <2> QED
    BY <2>1, <2>2, <2>3 DEF Settled, Paid
<1>3. CASE ~Paid(g)
  <2>1. effects'[g] = effects[g]
    <3>1. CASE CommitInvoke(p)
      <4>1. req[p] # g
        BY <1>0, <1>1, <3>1, CallFacts DEF CommitInvoke
      <4>2. PICK n \in Nat : effects' = [effects EXCEPT ![req[p]] = @ + n]
        BY <3>1 DEF CommitInvoke, MayHappen
      <4> QED
        BY <1>0, <4>1, <4>2
    <3>2. CASE ~CommitInvoke(p)
      BY <3>2, StepPays
    <3> QED
      BY <3>1, <3>2
  <2>2. main'[KeyOf[a]].action # a
    <3>0. main[KeyOf[a]].action # a
      BY <1>3 DEF Settled
    <3>1. CASE Takes(p)
      BY <3>0, <3>1, <1>0, <1>1, EntryFields, CallFacts DEF Takes
    <3>2. CASE GivesBack(p)
      BY <3>0, <3>2, <1>0, EntryFields, CallFacts, ConstantsAssumption DEF GivesBack
    <3>3. CASE Settles(p)
      <4>1. main[KeyFor(p)].action = Act(p)
        BY <3>3, EntryFields DEF Settles, HolderHasEntry, HoldingPC
      <4> QED
        BY <3>0, <3>3, <4>1, <1>0, CallFacts DEF Settles
    <3> QED
      BY <3>0, <3>1, <3>2, <3>3, MainStep
  <2> QED
    BY <1>3, <2>1, <2>2 DEF Settled, Paid
<1> QED
  BY <1>2, <1>3

\* An undisturbed reconciliation that has resolved goes on until it has settled.
LEMMA SettlesInTheEnd ==
  ASSUME TypeOK, LockInv, GrantsAreThere, NotYetConsumed, SettlersAreAlone,
         Undisturbed, NEW p \in Proc, Step(p), pc[p] \in SettlingPC,
         NEW a \in Action, reservedBy'[a] = req[p], ActionOf[req[p]] = a
  PROVE  pc'[p] \in SettlingPC \/ Settled(a)'
<1> USE DEF TypeOK, StoresTypeOK, CallTypeOK, LockInv
<1>0. Act(p) = a /\ KeyFor(p) = KeyOf[a] /\ req[p] \in Grant /\ KeyOf[a] \in Key
  BY CallFacts
<1>1. CASE ReconcileCommitExposure(p)
  <2>1. Held(main, KeyFor(p))
    BY <1>1, EntryFields DEF ReconcileCommitExposure, HolderHasEntry, HoldingPC, Held
  <2> QED
    BY <1>1, <2>1 DEF ReconcileCommitExposure, Goto, SettlingPC
<1>2. CASE ReconcileConsumeGrant(p)
  <2>1. grant' = [grant EXCEPT ![req[p]] = "CONSUMED"]
    BY <1>2, UsableGrant DEF ReconcileConsumeGrant
  <2>2. Paid(req[p]) /\ UNCHANGED <<effects, main>>
    BY <1>2 DEF ReconcileConsumeGrant, PaidCalls, PaidPC
  <2>3. main[KeyOf[a]] = [status |-> "COMMITTED", action |-> a]
    BY <1>0, <1>2 DEF ReconcileConsumeGrant, SettlersAreAlone
  <2> QED
    BY <1>0, <2>1, <2>2, <2>3 DEF Settled, Paid
<1>3. CASE ReconcileRelease(p)
  <2>1. Held(main, KeyFor(p)) /\ effects[req[p]] = 0
    BY <1>0, <1>3, EntryFields DEF ReconcileRelease, HolderHasEntry, HoldingPC, Held,
       UnpaidHolders, UnpaidPC, Unpaid, GrantsOf, KeyFor
  <2>2. main' = [main EXCEPT ![KeyOf[a]] = NoEntry] /\ UNCHANGED effects
    BY <1>0, <1>3, <2>1 DEF ReconcileRelease, Released
  <2>3. main'[KeyOf[a]].action # a
    BY <1>0, <2>2, EntryFields, ConstantsAssumption
  <2> QED
    BY <2>1, <2>2, <2>3 DEF Settled, Paid
<1> QED
  BY <1>1, <1>2, <1>3
     DEF SettlingPC, Step, AuthorizeStep, GateStep, ExecuteStep, SettleStep,
       ReconcileStep, PreparePut, MintPut, AuthorizeCheckReservation,
       AuthorizeReadGrant, AuthorizePutToken, AuthorizeMove, CommitReplay,
       CommitReadTip, CommitReadToken, CommitReadGrant, CommitBegin,
       CommitRegisterNonce, CommitRereadGrant, CommitReserve,
       CommitReserveRoot, CommitUnreserve, CommitConsumeToken, CommitMove,
       CommitInvoke, OkConsumeGrant, OkCommitExposure, OkCommitRoot,
       OkComplete, OkAppend, OkMove, FailRelease, FailReleaseRoot,
       FailComplete, FailAppend, FailMove, UnknownMark, UnknownLockGrant,
       UnknownReserve, UnknownAppend, UnknownMove, ReconcileResolve,
       ReconcilePaid, ReconcileUnpaid

\* So a resolved reservation is settled, or about to be.
LEMMA StepKeepsResolvedInHand ==
  ASSUME TypeOK, LockInv, ReservedOnce, GrantsAreThere, NotYetConsumed,
         SettlersAreAlone, ResolvedIsInHand, NEW p \in Proc, Step(p)
  PROVE  ResolvedIsInHand'
<1> SUFFICES ASSUME Undisturbed', NEW a \in Action, reservation'[a] = "RESOLVED",
                    Sole(reservedBy'[a])
             PROVE  \/ Settled(a)'
                    \/ \E q \in Proc : req'[q] = reservedBy'[a] /\ pc'[q] \in SettlingPC
  BY DEF ResolvedIsInHand, Sole, SettlingPC
<1> USE DEF TypeOK, StoresTypeOK
<1>0. Undisturbed /\ "idle" \notin SettlingPC
  BY StaysDisturbed DEF SettlingPC
<1>1. CASE Resolves(p) /\ Act(p) = a
  <2>1. pc'[p] \in SettlingPC /\ reservedBy'[a] = reservedBy[a]
    BY <1>1 DEF Resolves, SettlingPC
  <2>2. req[p] = reservedBy[a]
    BY <1>1 DEF Resolves, LockInv, ToldTheTruth
  <2> QED
    BY <1>0, <2>1, <2>2, OthersWait
<1>2. CASE ~(Resolves(p) /\ Act(p) = a)
  <2>1. reservation[a] = "RESOLVED" /\ reservedBy'[a] = reservedBy[a]
    BY <1>2, ReservationStep, CallFacts DEF Reserves, Resolves
  <2>2. CASE Settled(a)
    BY <2>1, <2>2, StaysSettled
  <2>3. ASSUME NEW q \in Proc, req[q] = reservedBy[a], pc[q] \in SettlingPC
        PROVE  \/ Settled(a)'
               \/ \E r \in Proc : req'[r] = reservedBy'[a] /\ pc'[r] \in SettlingPC
    <3>1. CASE q # p
      BY <2>1, <2>3, <3>1, OthersWait
    <3>2. CASE q = p
      <4>1. ActionOf[req[p]] = a
        BY <2>1, <2>3, <3>2 DEF ReservedOnce
      <4>2. pc'[p] \in SettlingPC \/ Settled(a)'
        BY <1>0, <2>1, <2>3, <3>2, <4>1, SettlesInTheEnd
      <4> QED
        BY <1>0, <2>1, <2>3, <3>2, <4>2, OthersWait
    <3> QED
      BY <3>1, <3>2
  <2> QED
    BY <1>0, <2>1, <2>2, <2>3 DEF ResolvedIsInHand
<1> QED
  BY <1>1, <1>2

\* What the steps of the world, a beginning and a crash do: they write no store
\* but that of the grants, where they revoke, and what makes a call end or a
\* grant unusable disturbs the world.
Waits(q) == pc'[q] = pc[q] /\ req'[q] = req[q] /\ live'[q] = live[q]
Starts(q) ==
  /\ pc'[q] \in PreparePC \cup {"auth_reservation", "cm_replay", "rec_resolve"}
  /\ pc[q] = "idle"
  /\ pc'[q] = "rec_resolve" =>
       /\ grant'[req'[q]] # "ABSENT"
       /\ live'[q] \/ req'[q] \in expired'
Ends(q) == pc'[q] = "idle" /\ ~Undisturbed'
WorldMoves ==
  /\ UNCHANGED <<nonces, idem, main, reservation, reservedBy, effects>>
  /\ expired \subseteq expired'
  /\ \A g \in Grant :
       grant'[g] = grant[g] \/ (grant[g] # "ABSENT" /\ grant'[g] = "REVOKED")
  /\ Undisturbed' => Undisturbed /\ UNCHANGED grant
  /\ \A q \in Proc : Waits(q) \/ Starts(q) \/ Ends(q)

\* Nobody loses what is in hand by such a step, unless the world is disturbed.
LEMMA WorldKeepsDoubtInv ==
  ASSUME TypeOK, DoubtInv, WorldMoves
  PROVE  DoubtInv'
<1> USE DEF DoubtInv, TypeOK, StoresTypeOK, CallTypeOK, WorldMoves, Waits, Starts, Ends
<1> DEFINE Begun == {"idle"} \cup PreparePC \cup {"auth_reservation", "cm_replay", "rec_resolve"}
<1>0. /\ Begun \cap (NoncePC \cup FreshPC \cup UnconsumedPC \cup InHandPC \cup SettlingPC) = {}
      /\ Begun \cap ({"cm_begin", "cm_nonce", "rec_grant"} \cup ReconcilePC) = {"rec_resolve"}
      /\ "rec_resolve" \in ReconcilePC
      /\ "idle" \notin (InHandPC \cup SettlingPC)
  BY DEF PreparePC, NoncePC, FreshPC, ArmedPC, SettlePC, UnconsumedPC, InHandPC,
         SettlingPC, ReconcilePC
<1>1. \A q \in Proc : Waits(q) => KeyFor(q)' = KeyFor(q) /\ Act(q)' = Act(q)
  BY DEF KeyFor, KeyOfGrant, Act
<1>2. \A q \in Proc : Waits(q) \/ pc'[q] \in Begun
  OBVIOUS
<1>3. NoncesAreSingle'
  <2>1. \A q \in Proc : pc'[q] \in NoncePC => Waits(q)
    BY <1>0, <1>2
  <2> QED
    BY <2>1 DEF NoncesAreSingle, NoncePC, ArmedPC, SettlePC
<1>4. ReservedOnce'
  <2>1. \A q \in Proc : pc'[q] \in FreshPC => Waits(q)
    BY <1>0, <1>2
  <2>2. \A a \in Action : reservation[a] # "NONE" => grant'[reservedBy[a]] # "ABSENT"
    BY DEF ReservedOnce
  <2>3. \A q \in Proc : pc'[q] \in FreshPC /\ Sole(req'[q]) =>
          reservation'[ActionOf[req'[q]]] = "NONE"
    BY <2>1 DEF ReservedOnce, Act
  <2> QED
    BY <2>2, <2>3 DEF ReservedOnce, FreshPC, NoncePC, ArmedPC, SettlePC, Act, Sole
<1>5. GrantsAreThere'
  <2>1. ASSUME NEW q \in Proc, Waits(q)
        PROVE  /\ pc'[q] \in {"cm_begin", "cm_nonce"} \cup NoncePC \cup ReconcilePC
                    => grant'[req'[q]] # "ABSENT"
               /\ pc'[q] \in ReconcilePC => live'[q] \/ req'[q] \in expired'
    BY <2>1 DEF GrantsAreThere
  <2>2. ASSUME NEW q \in Proc, ~Waits(q)
        PROVE  /\ pc'[q] \in {"cm_begin", "cm_nonce"} \cup NoncePC \cup ReconcilePC
                    => grant'[req'[q]] # "ABSENT"
               /\ pc'[q] \in ReconcilePC => live'[q] \/ req'[q] \in expired'
    BY <2>2, <1>0
  <2> QED
    BY <2>1, <2>2 DEF GrantsAreThere, NoncePC, ReconcilePC, ArmedPC, SettlePC
<1>6. NotYetConsumed'
  <2>1. \A q \in Proc : pc'[q] \in UnconsumedPC => Waits(q)
    BY <1>0, <1>2
  <2> QED
    BY <2>1 DEF NotYetConsumed, UnconsumedPC
<1>7. SettlersAreAlone'
  <2>1. \A q \in Proc : pc'[q] = "rec_grant" => Waits(q)
    BY <1>0, <1>2
  <2> QED
    BY <2>1, <1>1 DEF SettlersAreAlone
<1>8. DoubtIsInHand'
  <2> SUFFICES ASSUME Undisturbed', NEW k \in Key, idem'[k] = "UNKNOWN",
                      \A g \in GrantsOf(k) : Sole(g)
               PROVE  \/ \E a \in Action : KeyOf[a] = k /\ reservation'[a] = "OPEN"
                      \/ \E q \in Proc : KeyFor(q)' = k /\ pc'[q] \in InHandPC
    BY DEF DoubtIsInHand, GrantsOf, Sole, KeyOfGrant, InHandPC
  <2>1. \A q \in Proc : pc[q] \in InHandPC => Waits(q)
    BY <1>0
  <2> QED
    BY <2>1, <1>1 DEF DoubtIsInHand
<1>9. ResolvedIsInHand'
  <2> SUFFICES ASSUME Undisturbed', NEW a \in Action, reservation'[a] = "RESOLVED",
                      Sole(reservedBy'[a])
               PROVE  \/ Settled(a)'
                      \/ \E q \in Proc : req'[q] = reservedBy'[a] /\ pc'[q] \in SettlingPC
    BY DEF ResolvedIsInHand, Sole, SettlingPC
  <2>1. \A q \in Proc : pc[q] \in SettlingPC => Waits(q)
    BY <1>0
  <2>2. Settled(a) => Settled(a)'
    BY DEF Settled, Paid
  <2> QED
    BY <2>1, <2>2 DEF ResolvedIsInHand
<1> QED
  BY <1>3, <1>4, <1>5, <1>6, <1>7, <1>8, <1>9

\* Every step keeps the invariant.
LEMMA NextKeepsDoubtInv ==
  ASSUME IInv, DoubtInv, [Next]_vars
  PROVE  DoubtInv'
<1>0. TypeOK /\ LockInv /\ PaidRecordsAreTrue /\ CallTypeOK
  BY DEF IInv, TypeOK
<1>1. ASSUME NEW p \in Proc, Step(p)
      PROVE  DoubtInv'
  BY <1>0, <1>1, StepKeepsNonces, StepKeepsReservedOnce, StepKeepsGrants,
     StepKeepsUnconsumed, StepKeepsSettlers, StepKeepsDoubtInHand,
     StepKeepsResolvedInHand DEF DoubtInv
<1>2. ASSUME NEW p \in Proc, BeginCall(p)
      PROVE  DoubtInv'
  <2>1. UNCHANGED <<stores, world>> /\ pc[p] = "idle"
    BY <1>2 DEF BeginCall, StartPrepare, StartMint, StartAuthorize,
                StartCommit, StartReconcile, Begin
  <2>2. \A q \in Proc \ {p} : pc'[q] = pc[q] /\ req'[q] = req[q] /\ live'[q] = live[q]
    BY <1>0, <1>2 DEF BeginCall, StartPrepare, StartMint, StartAuthorize,
                StartCommit, StartReconcile, Begin, CallTypeOK
  <2>3. CASE StartReconcile(p)
    <3>1. PICK a \in Action :
            /\ reservation[a] = "OPEN"
            /\ Begin(p, reservedBy[a], "rec_resolve", Report(reservedBy[a]), FALSE)
      BY <2>3 DEF StartReconcile
    <3>2. /\ pc'[p] = "rec_resolve" /\ req'[p] = reservedBy[a]
          /\ live'[p] = (reservedBy[a] \notin expired)
      BY <1>0, <3>1 DEF Begin, CallTypeOK
    <3>3. grant[reservedBy[a]] # "ABSENT"
      BY <3>1 DEF DoubtInv, ReservedOnce
    <3>4. Starts(p)
      BY <2>1, <3>2, <3>3 DEF Starts, stores, world
    <3>5. WorldMoves
      BY <2>1, <2>2, <3>4 DEF WorldMoves, Waits, stores, world, Undisturbed
    <3> QED
      BY <1>0, <3>5, WorldKeepsDoubtInv
  <2>4. CASE ~StartReconcile(p)
    <3>1. pc'[p] \in PreparePC \cup {"auth_reservation", "cm_replay"}
      BY <1>0, <1>2, <2>4 DEF BeginCall, StartPrepare, StartMint, StartAuthorize,
                  StartCommit, Begin, CallTypeOK, PreparePC
    <3>2. pc'[p] # "rec_resolve"
      BY <3>1 DEF PreparePC
    <3>3. Starts(p)
      BY <2>1, <3>1, <3>2 DEF Starts
    <3>4. WorldMoves
      BY <2>1, <2>2, <3>3 DEF WorldMoves, Waits, stores, world, Undisturbed
    <3> QED
      BY <1>0, <3>4, WorldKeepsDoubtInv
  <2> QED
    BY <2>3, <2>4
<1>3. ASSUME NEW p \in Proc, Crash(p)
      PROVE  DoubtInv'
  <2>1. UNCHANGED <<stores, expired>> /\ ~Undisturbed'
    BY <1>0, <1>3 DEF Crash, Undisturbed, TypeOK, WorldTypeOK
  <2>2. \A q \in Proc : Waits(q) \/ Ends(q)
    BY <1>0, <1>3, <2>1 DEF Crash, Return, CallTypeOK, Waits, Ends
  <2>3. WorldMoves
    BY <2>1, <2>2 DEF WorldMoves, stores
  <2> QED
    BY <1>0, <2>3, WorldKeepsDoubtInv
<1>4. ASSUME NEW g \in Grant, Revoke(g)
      PROVE  DoubtInv'
  <2>1. grant' = [grant EXCEPT ![g] = "REVOKED"] /\ grant[g] # "ABSENT" /\ ~Undisturbed'
    BY <1>0, <1>4 DEF Revoke, Undisturbed, TypeOK, StoresTypeOK
  <2>2. WorldMoves
    BY <1>0, <1>4, <2>1
       DEF WorldMoves, Waits, Revoke, world, call, TypeOK, StoresTypeOK
  <2> QED
    BY <1>0, <2>2, WorldKeepsDoubtInv
<1>5. ASSUME NEW g \in Grant, Expire(g)
      PROVE  DoubtInv'
  <2>1. ~Undisturbed' /\ expired \subseteq expired'
    BY <1>5 DEF Expire, Undisturbed
  <2>2. WorldMoves
    BY <1>5, <2>1 DEF WorldMoves, Waits, Expire, stores, call
  <2> QED
    BY <1>0, <2>2, WorldKeepsDoubtInv
<1>6. CASE AdvanceTip \/ UNCHANGED vars
  <2>1. UNCHANGED <<stores, expired, crashes, call>>
    BY <1>6 DEF AdvanceTip, vars, world
  <2>2. WorldMoves
    BY <2>1 DEF WorldMoves, Waits, stores, call, Undisturbed
  <2> QED
    BY <1>0, <2>2, WorldKeepsDoubtInv
<1> QED
  BY <1>1, <1>2, <1>3, <1>4, <1>5, <1>6 DEF Next, Environment

\* The inductive invariant behind the two properties below: a key in doubt is
\* in the hands of a call or of an open reservation, and a resolved
\* reservation in those of the reconciliation that settles it.
THEOREM DoubtInvariant == Spec => []DoubtInv
<1>1. Init => DoubtInv
  <2> SUFFICES ASSUME Init
               PROVE  DoubtInv
    OBVIOUS
  <2>1. \A p \in Proc : pc[p] \notin NoncePC \cup FreshPC \cup UnconsumedPC
                                      \cup ReconcilePC \cup {"cm_begin", "cm_nonce", "rec_grant"}
    BY DEF Init, NoncePC, FreshPC, ArmedPC, SettlePC, UnconsumedPC, ReconcilePC
  <2> QED
    BY <2>1 DEF Init, DoubtInv, NoncesAreSingle, ReservedOnce, GrantsAreThere,
         NotYetConsumed, SettlersAreAlone, DoubtIsInHand, ResolvedIsInHand
<1>2. IInv /\ DoubtInv /\ [Next]_vars => DoubtInv'
  BY NextKeepsDoubtInv
<1> QED
  BY <1>1, <1>2, Invariance, PTL DEF Spec

\* Once all calls have ended undisturbed, a key in doubt can be reconciled.
THEOREM DoubtCanBeReconciled == Spec => []UnknownIsReconcilable
<1>1. DoubtInv => UnknownIsReconcilable
  <2>1. "idle" \notin InHandPC
    BY DEF InHandPC
  <2> QED
    BY <2>1 DEF DoubtInv, DoubtIsInHand, UnknownIsReconcilable, Quiet
<1> QED
  BY <1>1, DoubtInvariant, PTL

\* Once all calls have ended undisturbed, a resolved reservation is settled in
\* every store.
THEOREM ReconciliationIsComplete == Spec => []ReconciliationSettles
<1>1. DoubtInv => ReconciliationSettles
  <2>1. "idle" \notin SettlingPC
    BY DEF SettlingPC
  <2> QED
    BY <2>1 DEF DoubtInv, ResolvedIsInHand, ReconciliationSettles, Quiet
<1> QED
  BY <1>1, DoubtInvariant, PTL

-----------------------------------------------------------------------------
(* The sums of the exposure ledger.                                        *)

\* The units of one amount.
LEMMA OneAmount ==
  ASSUME NEW x, NEW n \in Nat
  PROVE  IsFiniteSet({x} \X (1..n)) /\ Cardinality({x} \X (1..n)) = n
<1> DEFINE S == {x}
           I == 1..n
<1>1. IsFiniteSet(S) /\ Cardinality(S) = 1
  BY FS_Singleton
<1>2. IsFiniteSet(I) /\ Cardinality(I) = n
  <2>1. 1 \in Int /\ n \in Int /\ (IF 1 > n THEN 0 ELSE n - 1 + 1) = n
    OBVIOUS
  <2> QED
    BY <2>1, FS_Interval
<1> HIDE DEF S, I
<1>3. IsFiniteSet(S \X I) /\ Cardinality(S \X I) = Cardinality(S) * Cardinality(I)
  BY <1>1, <1>2, FS_Product
<1>4. IsFiniteSet(S \X I) /\ Cardinality(S \X I) = n
  BY <1>1, <1>2, <1>3
<1> QED
  BY <1>4 DEF S, I

\* Amounts are numbers of units, and their sum is a number.
LEMMA UnitsAreFinite ==
  ASSUME NEW ks, IsFiniteSet(ks), NEW entries,
         \A k \in ks : entries[k].action \in Action
  PROVE  /\ IsFiniteSet(Units(entries, ks))
         /\ Cardinality(Units(entries, ks)) \in Nat
<1> DEFINE U(k) == {k} \X (1..Amount[entries[k].action])
           f == [k \in ks |-> U(k)]
           us == {U(k) : k \in ks}
<1>1. IsFiniteSet(us)
  <2>1. f \in Surjection(ks, us)
    BY DEF Surjection
  <2> HIDE DEF f, us
  <2> QED
    BY <2>1, FS_Surjection
<1>2. \A T \in us : IsFiniteSet(T)
  <2>1. ASSUME NEW k \in ks
        PROVE  IsFiniteSet(U(k))
    <3>1. Amount[entries[k].action] \in Nat
      BY ConstantsAssumption
    <3> QED
      BY <3>1, OneAmount
  <2> QED
    BY <2>1
<1>3. Units(entries, ks) = UNION us
  BY DEF Units
<1> HIDE DEF us
<1>4. IsFiniteSet(Units(entries, ks))
  BY <1>1, <1>2, <1>3, FS_UNION
<1> QED
  BY <1>4, FS_CardinalityType

\* Fewer entries hold no more, as long as each keeps its action.
LEMMA FewerUnits ==
  ASSUME NEW ks, IsFiniteSet(ks), NEW entries,
         \A k \in ks : entries[k].action \in Action,
         NEW js \in SUBSET ks, NEW others,
         \A k \in js : others[k].action = entries[k].action
  PROVE  /\ Cardinality(Units(others, js)) \in Nat
         /\ Cardinality(Units(others, js)) <= Cardinality(Units(entries, ks))
<1>1. Units(others, js) \subseteq Units(entries, ks)
  BY DEF Units
<1>2. IsFiniteSet(Units(entries, ks)) /\ Cardinality(Units(entries, ks)) \in Nat
  BY UnitsAreFinite
<1>3. /\ IsFiniteSet(Units(others, js))
      /\ Cardinality(Units(others, js)) <= Cardinality(Units(entries, ks))
  BY <1>1, <1>2, FS_Subset
<1> QED
  BY <1>3, FS_CardinalityType

\* One more entry holds its amount more.
LEMMA OneMoreEntry ==
  ASSUME NEW ks, IsFiniteSet(ks), NEW entries,
         \A k \in ks : entries[k].action \in Action,
         NEW key, NEW a \in Action, NEW js \in SUBSET (ks \cup {key}), NEW others,
         others[key].action = a,
         \A k \in ks \ {key} : others[k].action = entries[k].action
  PROVE  /\ Cardinality(Units(others, js)) \in Nat
         /\ Cardinality(Units(others, js)) <= Cardinality(Units(entries, ks)) + Amount[a]
<1> DEFINE old == Units(entries, ks)
           new == {key} \X (1..Amount[a])
<1>1. Amount[a] \in Nat
  BY ConstantsAssumption
<1>2. IsFiniteSet(old) /\ Cardinality(old) \in Nat
  BY UnitsAreFinite
<1>3. IsFiniteSet(new) /\ Cardinality(new) = Amount[a]
  BY <1>1, OneAmount
<1>4. Units(others, js) \subseteq old \cup new
  BY DEF Units
<1> HIDE DEF old, new
<1>5. IsFiniteSet(old \cup new) /\ Cardinality(old \cup new) \in Nat
        /\ Cardinality(old \cup new) <= Cardinality(old) + Amount[a]
  <2>1. IsFiniteSet(old \cap new) /\ Cardinality(old \cap new) \in Nat
    BY <1>2, FS_Intersection, FS_CardinalityType
  <2>2. /\ IsFiniteSet(old \cup new)
        /\ Cardinality(old \cup new) = Cardinality(old) + Cardinality(new)
                                         - Cardinality(old \cap new)
    BY <1>2, <1>3, FS_Union
  <2>3. Cardinality(old \cup new) \in Nat
    BY <2>2, FS_CardinalityType
  <2> QED
    BY <1>1, <1>2, <1>3, <2>1, <2>2, <2>3
<1>6. /\ IsFiniteSet(Units(others, js))
      /\ Cardinality(Units(others, js)) <= Cardinality(old \cup new)
  BY <1>4, <1>5, FS_Subset
<1>7. Cardinality(Units(others, js)) \in Nat
  BY <1>6, FS_CardinalityType
<1> QED
  BY <1>1, <1>2, <1>5, <1>6, <1>7 DEF old

\* What a step does to the entry that a remedy has in the group of the intent.
RootTakes(p) ==
  /\ pc[p] = "cm_root" /\ pc'[p] = "cm_consume"
  /\ Reservable(root, KeyFor(p), RootGroup, Amount[Act(p)], RootLimit)
  /\ root' = [root EXCEPT ![KeyFor(p)] = InFlight(Act(p))]
  /\ UNCHANGED <<main, effects>>
RootGivesBack(p) ==
  /\ pc[p] = "fail_root" /\ pc'[p] = "fail_idem"
  /\ root' = [root EXCEPT ![KeyFor(p)] = NoEntry]
  /\ UNCHANGED <<main, effects>>
RootSettles(p) ==
  /\ pc[p] = "ok_root" /\ pc'[p] = "ok_idem"
  /\ Held(root, KeyFor(p))
  /\ root' = [root EXCEPT ![KeyFor(p)] =
                [status |-> "COMMITTED", action |-> root[KeyFor(p)].action]]
  /\ UNCHANGED <<main, effects>>
LEMMA RootStep ==
  ASSUME TypeOK, NEW p \in Proc, Step(p)
  PROVE  RootTakes(p) \/ RootGivesBack(p) \/ RootSettles(p) \/ UNCHANGED root
<1> USE DEF TypeOK, StoresTypeOK, CallTypeOK
<1>1. CASE CommitReserveRoot(p)
  BY <1>1 DEF CommitReserveRoot, RootTakes, Goto
<1>2. CASE FailReleaseRoot(p)
  BY <1>2 DEF FailReleaseRoot, Released, RootGivesBack, Goto
<1>3. CASE OkCommitRoot(p)
  <2>1. root \in [Key -> Entry] /\ KeyFor(p) \in Key
    BY CallFacts
  <2>2. Committed(root, KeyFor(p)) =
          [root EXCEPT ![KeyFor(p)] = [status |-> "COMMITTED",
                                       action |-> root[KeyFor(p)].action]]
    BY <2>1, CommittedType
  <2>3. \/ UNCHANGED root
        \/ /\ pc[p] = "ok_root" /\ pc'[p] = "ok_idem" /\ Held(root, KeyFor(p))
           /\ root' = Committed(root, KeyFor(p))
           /\ UNCHANGED <<main, effects>>
    BY <1>3 DEF OkCommitRoot, Goto
  <2> QED
    BY <2>2, <2>3 DEF RootSettles
<1>4. CASE UNCHANGED root
  BY <1>4
<1> QED
  BY <1>1, <1>2, <1>3, <1>4
     DEF Step, AuthorizeStep, GateStep, ExecuteStep, SettleStep,
       ReconcileStep, PreparePut, MintPut, AuthorizeCheckReservation,
       AuthorizeReadGrant, AuthorizePutToken, AuthorizeMove, CommitReplay,
       CommitReadTip, CommitReadToken, CommitReadGrant, CommitBegin,
       CommitRegisterNonce, CommitRereadGrant, CommitReserve,
       CommitUnreserve, CommitConsumeToken, CommitMove, CommitInvoke,
       OkConsumeGrant, OkCommitExposure, OkComplete, OkAppend, OkMove,
       FailRelease, FailComplete, FailAppend, FailMove, UnknownMark,
       UnknownLockGrant, UnknownReserve, UnknownAppend, UnknownMove,
       ReconcileResolve, ReconcileCommitExposure, ReconcileConsumeGrant,
       ReconcilePaid, ReconcileRelease, ReconcileUnpaid, stores

\* An entry that is held names the action that holds it.
LEMMA StepNamesActions ==
  ASSUME TypeOK, LockInv, EntriesNameActions, NEW p \in Proc, Step(p)
  PROVE  EntriesNameActions'
<1> USE DEF TypeOK, StoresTypeOK
<1>1. ASSUME NEW k \in Key, Held(main, k)'
      PROVE  main'[k].action \in Action
  BY <1>1, MainStep, CallFacts, EntryFields
     DEF Takes, GivesBack, Settles, EntriesNameActions, Held
<1>2. ASSUME NEW k \in Key, Held(root, k)'
      PROVE  root'[k].action \in Action
  BY <1>2, RootStep, CallFacts, EntryFields
     DEF RootTakes, RootGivesBack, RootSettles, EntriesNameActions, Held
<1> QED
  BY <1>1, <1>2 DEF EntriesNameActions

\* The sums of a group are finite.
LEMMA HeldIsFinite ==
  ASSUME EntriesNameActions, NEW grp
  PROVE  /\ HeldIn(grp) \in SUBSET Key /\ RootHeldIn(grp) \in SUBSET Key
         /\ IsFiniteSet(HeldIn(grp)) /\ IsFiniteSet(RootHeldIn(grp))
         /\ \A k \in HeldIn(grp) : main[k].action \in Action
         /\ \A k \in RootHeldIn(grp) : root[k].action \in Action
         /\ Cardinality(Units(main, HeldIn(grp))) \in Nat
         /\ Cardinality(Units(root, RootHeldIn(grp))) \in Nat
<1>1. HeldIn(grp) \in SUBSET Key /\ RootHeldIn(grp) \in SUBSET Key
  BY DEF HeldIn, RootHeldIn
<1>2. IsFiniteSet(HeldIn(grp)) /\ IsFiniteSet(RootHeldIn(grp))
  BY <1>1, FiniteAssumption, FS_Subset
<1>3. /\ \A k \in HeldIn(grp) : main[k].action \in Action
      /\ \A k \in RootHeldIn(grp) : root[k].action \in Action
  BY DEF HeldIn, RootHeldIn, EntriesNameActions, Held
<1> QED
  BY <1>1, <1>2, <1>3, UnitsAreFinite

\* The sum after a step.
LEMMA ExposureAfter ==
  ASSUME NEW grp
  PROVE  Exposure(grp)' = Cardinality(Units(main', HeldIn(grp)'))
                            + Cardinality(Units(root', RootHeldIn(grp)'))
BY DEF Exposure, Units

\* A step that adds no entry adds nothing to the sum of any group.
LEMMA NoEntryNoExposure ==
  ASSUME EntriesNameActions, NEW grp,
         \A k \in Key : /\ main'[k].status # "NONE" =>
                             /\ main[k].status # "NONE"
                             /\ main'[k].action = main[k].action
                        /\ root'[k].status # "NONE" =>
                             /\ root[k].status # "NONE"
                             /\ root'[k].action = root[k].action
  PROVE  Exposure(grp)' \in Nat /\ Exposure(grp)' <= Exposure(grp)
<1>1. /\ HeldIn(grp)' \in SUBSET HeldIn(grp)
      /\ \A k \in HeldIn(grp)' : main'[k].action = main[k].action
  BY DEF HeldIn
<1>2. /\ RootHeldIn(grp)' \in SUBSET RootHeldIn(grp)
      /\ \A k \in RootHeldIn(grp)' : root'[k].action = root[k].action
  BY DEF RootHeldIn
<1>3. /\ Cardinality(Units(main', HeldIn(grp)')) \in Nat
      /\ Cardinality(Units(main', HeldIn(grp)')) <= Cardinality(Units(main, HeldIn(grp)))
  BY <1>1, HeldIsFinite, FewerUnits
<1>4. /\ Cardinality(Units(root', RootHeldIn(grp)')) \in Nat
      /\ Cardinality(Units(root', RootHeldIn(grp)')) <= Cardinality(Units(root, RootHeldIn(grp)))
  BY <1>2, HeldIsFinite, FewerUnits
<1> QED
  BY <1>3, <1>4, ExposureAfter, HeldIsFinite DEF Exposure

\* The entry that COMMIT adds was checked against the threshold of its action
\* with all the entries that are there.
LEMMA TakenWithinLimit ==
  ASSUME TypeOK, EntriesNameActions, NEW p \in Proc, Takes(p), NEW grp \in Group
  PROVE  /\ Exposure(grp)' \in Nat
         /\ \/ Exposure(grp)' <= Exposure(grp)
            \/ \E n \in Thresholds(grp) : Exposure(grp)' <= n
<1> DEFINE k == KeyFor(p)
           a == Act(p)
<1> USE DEF TypeOK, StoresTypeOK
<1>0. /\ k \in Key /\ a \in Action
      /\ main' = [main EXCEPT ![k] = InFlight(a)] /\ root' = root
      /\ main[k].status = "NONE" /\ Fits(GroupOf[a], Amount[a], Limit[a])
  BY CallFacts DEF Takes, Reservable, Held
<1>1. /\ Cardinality(Units(root, RootHeldIn(grp))) \in Nat
      /\ Cardinality(Units(main, HeldIn(grp))) \in Nat
      /\ RootHeldIn(grp)' = RootHeldIn(grp)
  BY <1>0, HeldIsFinite DEF RootHeldIn
<1> HIDE DEF k, a
<1>2. CASE grp = GroupOf[a]
  <2>1. HeldIn(grp)' \in SUBSET (HeldIn(grp) \cup {k})
    BY <1>0 DEF HeldIn
  <2>2. main'[k].action = a /\ \A j \in HeldIn(grp) \ {k} : main'[j].action = main[j].action
    BY <1>0, EntryFields DEF HeldIn
  <2>3. /\ Cardinality(Units(main', HeldIn(grp)')) \in Nat
        /\ Cardinality(Units(main', HeldIn(grp)'))
             <= Cardinality(Units(main, HeldIn(grp))) + Amount[a]
    <3> DEFINE js == HeldIn(grp)'
               others == main'
    <3>1. /\ IsFiniteSet(HeldIn(grp)) /\ a \in Action
          /\ \A j \in HeldIn(grp) : main[j].action \in Action
      BY <1>0, HeldIsFinite
    <3>2. /\ js \in SUBSET (HeldIn(grp) \cup {k}) /\ others[k].action = a
          /\ \A j \in HeldIn(grp) \ {k} : others[j].action = main[j].action
      BY <2>1, <2>2
    <3> HIDE DEF js, others
    <3>3. /\ Cardinality(Units(others, js)) \in Nat
          /\ Cardinality(Units(others, js))
               <= Cardinality(Units(main, HeldIn(grp))) + Amount[a]
      BY <3>1, <3>2, OneMoreEntry, ZenonT(30)
    <3> QED
      BY <3>3 DEF js, others
  <2>4. Exposure(grp)' \in Nat /\ Exposure(grp)' <= Exposure(grp) + Amount[a]
    BY <1>0, <1>1, <2>3, ExposureAfter, ConstantsAssumption DEF Exposure
  <2>5. Exposure(grp)' <= Limit[a]
    BY <1>0, <1>1, <1>2, <2>4, ConstantsAssumption DEF Fits, Exposure
  <2> QED
    BY <1>0, <1>2, <2>4, <2>5 DEF Thresholds
<1>3. CASE grp # GroupOf[a]
  <2>1. /\ HeldIn(grp)' \in SUBSET HeldIn(grp)
        /\ \A j \in HeldIn(grp)' : main'[j].action = main[j].action
    BY <1>0, <1>3, EntryFields DEF HeldIn
  <2>2. /\ Cardinality(Units(main', HeldIn(grp)')) \in Nat
        /\ Cardinality(Units(main', HeldIn(grp)')) <= Cardinality(Units(main, HeldIn(grp)))
    BY <2>1, HeldIsFinite, FewerUnits
  <2> QED
    BY <1>0, <1>1, <2>2, ExposureAfter DEF Exposure
<1> QED
  BY <1>2, <1>3

\* So was the entry that it adds for a remedy in the group of the intent.
LEMMA RootTakenWithinLimit ==
  ASSUME TypeOK, EntriesNameActions, NEW p \in Proc, RootTakes(p), NEW grp \in Group
  PROVE  /\ Exposure(grp)' \in Nat
         /\ \/ Exposure(grp)' <= Exposure(grp)
            \/ \E n \in Thresholds(grp) : Exposure(grp)' <= n
<1> DEFINE k == KeyFor(p)
           a == Act(p)
<1> USE DEF TypeOK, StoresTypeOK
<1>0. /\ k \in Key /\ a \in Action
      /\ root' = [root EXCEPT ![k] = InFlight(a)] /\ main' = main
      /\ root[k].status = "NONE" /\ Fits(RootGroup, Amount[a], RootLimit)
  BY CallFacts DEF RootTakes, Reservable, Held
<1>1. /\ Cardinality(Units(root, RootHeldIn(grp))) \in Nat
      /\ Cardinality(Units(main, HeldIn(grp))) \in Nat
      /\ HeldIn(grp)' = HeldIn(grp)
  BY <1>0, HeldIsFinite DEF HeldIn
<1> HIDE DEF k, a
<1>2. CASE grp = RootGroup
  <2>1. RootHeldIn(grp)' \in SUBSET (RootHeldIn(grp) \cup {k})
    BY <1>0 DEF RootHeldIn
  <2>2. root'[k].action = a /\ \A j \in RootHeldIn(grp) \ {k} : root'[j].action = root[j].action
    BY <1>0, EntryFields DEF RootHeldIn
  <2>3. /\ Cardinality(Units(root', RootHeldIn(grp)')) \in Nat
        /\ Cardinality(Units(root', RootHeldIn(grp)'))
             <= Cardinality(Units(root, RootHeldIn(grp))) + Amount[a]
    <3> DEFINE js == RootHeldIn(grp)'
               others == root'
    <3>1. /\ IsFiniteSet(RootHeldIn(grp)) /\ a \in Action
          /\ \A j \in RootHeldIn(grp) : root[j].action \in Action
      BY <1>0, HeldIsFinite
    <3>2. /\ js \in SUBSET (RootHeldIn(grp) \cup {k}) /\ others[k].action = a
          /\ \A j \in RootHeldIn(grp) \ {k} : others[j].action = root[j].action
      BY <2>1, <2>2
    <3> HIDE DEF js, others
    <3>3. /\ Cardinality(Units(others, js)) \in Nat
          /\ Cardinality(Units(others, js))
               <= Cardinality(Units(root, RootHeldIn(grp))) + Amount[a]
      BY <3>1, <3>2, OneMoreEntry, ZenonT(30)
    <3> QED
      BY <3>3 DEF js, others
  <2>4. Exposure(grp)' \in Nat /\ Exposure(grp)' <= Exposure(grp) + Amount[a]
    BY <1>0, <1>1, <2>3, ExposureAfter, ConstantsAssumption DEF Exposure
  <2>5. Exposure(grp)' <= RootLimit
    BY <1>0, <1>1, <1>2, <2>4, ConstantsAssumption DEF Fits, Exposure
  <2> QED
    BY <1>2, <2>4, <2>5 DEF Thresholds
<1>3. CASE grp # RootGroup
  <2>1. RootHeldIn(grp)' = {} /\ RootHeldIn(grp) = {}
    BY <1>3 DEF RootHeldIn
  <2>2. Units(root', {}) = Units(root, {})
    BY DEF Units
  <2> QED
    BY <1>0, <1>1, <2>1, <2>2, ExposureAfter DEF Exposure
<1> QED
  BY <1>2, <1>3

\* So the ledger stays within its thresholds.
LEMMA StepKeepsLimits ==
  ASSUME TypeOK, LockInv, EntriesNameActions, LedgerWithinLimits,
         NEW p \in Proc, Step(p)
  PROVE  LedgerWithinLimits'
<1> SUFFICES ASSUME NEW grp \in Group
             PROVE  Exposure(grp)' = 0 \/ \E n \in Thresholds(grp) : Exposure(grp)' <= n
  BY DEF LedgerWithinLimits, Thresholds
<1> USE DEF TypeOK, StoresTypeOK
<1>1. /\ Exposure(grp)' \in Nat
      /\ \/ Exposure(grp)' <= Exposure(grp)
         \/ \E n \in Thresholds(grp) : Exposure(grp)' <= n
  <2>1. CASE Takes(p)
    BY <2>1, TakenWithinLimit
  <2>2. CASE RootTakes(p)
    BY <2>2, RootTakenWithinLimit
  <2>3. CASE ~Takes(p) /\ ~RootTakes(p)
    <3>1. \A k \in Key : main'[k].status # "NONE" =>
            main[k].status # "NONE" /\ main'[k].action = main[k].action
      <4>1. CASE GivesBack(p)
        BY <4>1, CallFacts, EntryFields DEF GivesBack
      <4>2. CASE Settles(p)
        <5>1. main[KeyFor(p)] = InFlight(Act(p))
          BY <4>2 DEF Settles, LockInv, HolderHasEntry, HoldingPC
        <5>2. main[KeyFor(p)].status # "NONE" /\ main[KeyFor(p)].action = Act(p)
          BY <5>1, EntryFields
        <5> QED
          BY <4>2, <5>2, CallFacts DEF Settles
      <4> QED
        BY <2>3, <4>1, <4>2, MainStep
    <3>2. \A k \in Key : root'[k].status # "NONE" =>
            root[k].status # "NONE" /\ root'[k].action = root[k].action
      <4>1. CASE RootGivesBack(p)
        BY <4>1, CallFacts, EntryFields DEF RootGivesBack
      <4>2. CASE RootSettles(p)
        BY <4>2, CallFacts DEF RootSettles, Held
      <4> QED
        BY <2>3, <4>1, <4>2, RootStep
    <3> QED
      BY <3>1, <3>2, NoEntryNoExposure
  <2> QED
    BY <2>1, <2>2, <2>3
<1>2. Exposure(grp) \in Nat
  BY HeldIsFinite DEF Exposure
<1>3. \A n \in Thresholds(grp) : n \in Nat
  BY ConstantsAssumption DEF Thresholds
<1> QED
  BY <1>1, <1>2, <1>3 DEF LedgerWithinLimits

-----------------------------------------------------------------------------
(* The budget.                                                             *)

\* How a call comes to work for a root entry.
LEMMA CameToRoot ==
  ASSUME CallTypeOK, NEW p \in Proc, Step(p)
  PROVE  /\ pc'[p] \in CommitPC => pc[p] \in CommitPC
         /\ pc'[p] \in {"cm_root", "ok_root", "fail_root"} => rooted[p]
         /\ pc'[p] \in RootPC => \/ pc[p] \in RootPC
                                 \/ pc[p] = "cm_root"
                                 \/ pc[p] = "cm_reserve" /\ ~rooted[p]
         /\ pc[p] = "cm_root" /\ pc'[p] \in RootPC => RootTakes(p)
<1> USE DEF CommitPC, RootPC, GatePC, ArmedPC, SettlePC
<1>0. pc'[p] = "idle" \/ \E l \in PC : pc' = [pc EXCEPT ![p] = l]
  <2>1. CASE CommitInvoke(p)
    <3>1. \A ans \in Answers : AfterAnswer(ans) \in PC
      BY ConstantsAssumption DEF AfterAnswer, PC
    <3> QED
      BY <2>1, <3>1 DEF CommitInvoke
  <2> QED
    BY <2>1, StepShape DEF Goto, Return, CallTypeOK
<1>1. CASE AuthorizeStep(p)
  BY <1>1 DEF AuthorizeStep, PreparePut, MintPut, AuthorizeCheckReservation,
     AuthorizeReadGrant, AuthorizePutToken, AuthorizeMove, Goto, Return, CallTypeOK
<1>2. CASE GateStep(p)
  BY <1>2 DEF GateStep, CommitReplay, CommitReadTip, CommitReadToken,
     CommitReadGrant, CommitBegin, CommitRegisterNonce, CommitRereadGrant,
     CommitReserve, Goto, Return, CallTypeOK
<1>3. CASE ExecuteStep(p)
  <2>1. CASE CommitInvoke(p)
    BY <2>1 DEF CommitInvoke, AfterAnswer, CallTypeOK
  <2>2. CASE CommitReserveRoot(p)
    BY <2>2 DEF CommitReserveRoot, RootTakes, Goto, CallTypeOK
  <2> QED
    BY <1>3, <2>1, <2>2 DEF ExecuteStep, CommitUnreserve, CommitConsumeToken,
       CommitMove, Goto, Return, CallTypeOK
<1>4. CASE SettleStep(p)
  BY <1>4 DEF SettleStep, OkConsumeGrant, OkCommitExposure, OkCommitRoot,
     OkComplete, OkAppend, OkMove, FailRelease, FailReleaseRoot, FailComplete,
     FailAppend, FailMove, UnknownMark, UnknownLockGrant, UnknownReserve,
     UnknownAppend, UnknownMove, Goto, Return, CallTypeOK
<1>5. CASE ReconcileStep(p)
  BY <1>5 DEF ReconcileStep, ReconcileResolve, ReconcileCommitExposure,
     ReconcileConsumeGrant, ReconcilePaid, ReconcileRelease, ReconcileUnpaid,
     Goto, Return, CallTypeOK
<1> QED
  BY <1>1, <1>2, <1>3, <1>4, <1>5 DEF Step

\* Remedies stay the calls that reserve in the group of the intent.
LEMMA StepKeepsRemedies ==
  ASSUME TypeOK, RootedAreRemedies, NEW p \in Proc, Step(p)
  PROVE  RootedAreRemedies'
<1> USE DEF TypeOK
<1>1. ASSUME NEW q \in Proc
      PROVE  /\ pc'[q] \in {"cm_root", "ok_root", "fail_root"} => rooted'[q]
             /\ rooted'[q] => ActionOf[req'[q]] \in Remedy
             /\ pc'[q] \in CommitPC /\ ~StateReadMayFail /\ ActionOf[req'[q]] \in Remedy
                  => rooted'[q]
  <2>1. CASE q # p
    BY <2>1, OthersWait DEF RootedAreRemedies, Act
  <2>2. CASE q = p /\ pc'[p] = "idle" /\ ~rooted'[p]
    BY <2>2 DEF CommitPC, GatePC, ArmedPC, SettlePC
  <2>3. CASE q = p /\ req'[p] = req[p] /\ rooted'[p] = rooted[p]
    BY <2>3, CameToRoot DEF RootedAreRemedies, Act
  <2> QED
    BY <2>1, <2>2, <2>3, OthersWait
<1> QED
  BY <1>1 DEF RootedAreRemedies, Act, CommitPC, GatePC, ArmedPC, SettlePC

\* Who holds a root entry after a step held it before, or has just taken it.
LEMMA HeldRootBefore ==
  ASSUME TypeOK, RootedAreRemedies, NEW p \in Proc, Step(p), NEW q \in Proc, HoldsRoot(q)'
  PROVE  /\ req'[q] = req[q]
         /\ HoldsRoot(q) \/ (q = p /\ RootTakes(p))
<1> USE DEF TypeOK
<1>1. "idle" \notin RootPC
  BY DEF RootPC
<1>2. pc'[q] \in RootPC /\ rooted'[q]
  BY DEF HoldsRoot, RootPC
<1>3. req'[q] = req[q] /\ rooted[q]
  BY <1>1, <1>2, OthersWait
<1>4. q # p => HoldsRoot(q)
  BY <1>2, OthersWait DEF HoldsRoot
<1>5. q = p => pc[q] \in RootPC \/ RootTakes(p)
  BY <1>2, <1>3, CameToRoot
<1> QED
  BY <1>3, <1>4, <1>5 DEF HoldsRoot

\* The root entry is a lock, as the entry of the key is.
LEMMA StepKeepsRootHolders ==
  ASSUME ~StateReadMayFail, TypeOK, LockInv, RootedAreRemedies, RootHolders,
         PaidRemediesAreCharged, NEW p \in Proc, Step(p)
  PROVE  RootHolders'
<1> USE DEF TypeOK, StoresTypeOK
<1>1. \A q \in Proc : HoldsRoot(q)' =>
        /\ req'[q] = req[q] /\ KeyFor(q)' = KeyFor(q) /\ Act(q)' = Act(q)
        /\ HoldsRoot(q) \/ (q = p /\ RootTakes(p))
  BY HeldRootBefore DEF KeyFor, KeyOfGrant, Act
<1>2. ASSUME NEW q \in Proc, HoldsRoot(q)
      PROVE  root[KeyFor(q)] = InFlight(Act(q)) /\ Held(root, KeyFor(q))
  BY <1>2, EntryFields DEF RootHolders, Held
<1>3. ASSUME NEW q \in Proc, HoldsRoot(q)'
      PROVE  root'[KeyFor(q)] = InFlight(Act(q))
  <2>1. CASE q = p /\ RootTakes(p)
    BY <2>1, CallFacts DEF RootTakes
  <2>2. CASE HoldsRoot(q)
    <3>1. CASE RootTakes(p)
      BY <2>2, <3>1, <1>2, CallFacts DEF RootTakes, Reservable
    <3>2. CASE RootGivesBack(p)
      <4>1. HoldsRoot(p) /\ pc'[p] \notin RootPC
        BY <3>2 DEF RootGivesBack, HoldsRoot, RootedAreRemedies, RootPC
      <4>2. q # p
        BY <4>1, <1>3 DEF HoldsRoot, RootPC
      <4>3. KeyFor(q) # KeyFor(p)
        BY <2>2, <4>1, <4>2 DEF RootHolders
      <4> QED
        BY <2>2, <3>2, <4>3, <1>2, CallFacts DEF RootGivesBack
    <3>3. CASE RootSettles(p)
      <4>1. Paid(req[p]) /\ Act(p) \in Remedy
        BY <3>3 DEF RootSettles, LockInv, PaidCalls, PaidPC, RootedAreRemedies
      <4>2. KeyFor(q) # KeyFor(p)
        BY <2>2, <4>1, CallFacts DEF PaidRemediesAreCharged, KeyFor
      <4> QED
        BY <2>2, <3>3, <4>2, <1>2, CallFacts DEF RootSettles
    <3>4. CASE UNCHANGED root
      BY <2>2, <3>4, <1>2
    <3> QED
      BY <3>1, <3>2, <3>3, <3>4, RootStep
  <2> QED
    BY <1>1, <1>3, <2>1, <2>2
<1>4. ASSUME NEW q \in Proc, NEW r \in Proc, HoldsRoot(q)', HoldsRoot(r)',
             KeyFor(r) = KeyFor(q)
      PROVE  r = q
  <2>1. CASE HoldsRoot(q) /\ HoldsRoot(r)
    BY <2>1, <1>4 DEF RootHolders
  <2>2. CASE RootTakes(p) /\ (q = p \/ r = p)
    <3>1. ~Held(root, KeyFor(p))
      BY <2>2 DEF RootTakes, Reservable
    <3> QED
      BY <2>2, <3>1, <1>1, <1>2, <1>4
  <2> QED
    BY <1>1, <1>4, <2>1, <2>2
<1> QED
  BY <1>1, <1>3, <1>4 DEF RootHolders

\* A payment is one of the call's own grant, and the call goes on to settle it.
LEMMA PaysItsGrant ==
  ASSUME TypeOK, NEW p \in Proc, Step(p), NEW g \in Grant, ~Paid(g), Paid(g)'
  PROVE  /\ g = req[p] /\ pc[p] = "cm_invoke" /\ pc'[p] \notin RootPC
         /\ UNCHANGED root
<1> USE DEF TypeOK, StoresTypeOK, CallTypeOK
<1>1. CommitInvoke(p)
  BY StepPays DEF Paid
<1>2. PICK ans \in Answers : \E n \in MayHappen(ans) :
        /\ effects' = [effects EXCEPT ![req[p]] = @ + n]
        /\ pc' = [pc EXCEPT ![p] = AfterAnswer(ans)]
  BY <1>1 DEF CommitInvoke
<1>3. PICK n \in MayHappen(ans) :
        /\ effects' = [effects EXCEPT ![req[p]] = @ + n]
        /\ pc' = [pc EXCEPT ![p] = AfterAnswer(ans)]
  BY <1>2
<1>4. g = req[p] /\ n # 0
  BY <1>3, CallFacts DEF Paid
<1>5. AfterAnswer(ans) \in {"ok_grant", "unk_idem"}
  BY <1>4 DEF MayHappen, AfterAnswer
<1> QED
  BY <1>1, <1>3, <1>4, <1>5 DEF CommitInvoke, RootPC

\* What a remedy has paid stays charged to the group of the intent.
LEMMA StepKeepsCharge ==
  ASSUME ~StateReadMayFail, TypeOK, LockInv, RootedAreRemedies, RootHolders,
         PaidRemediesAreCharged, NEW p \in Proc, Step(p)
  PROVE  PaidRemediesAreCharged'
<1> SUFFICES ASSUME NEW g \in Grant, Paid(g)', ActionOf[g] \in Remedy
             PROVE  /\ Held(root, KeyOfGrant(g))'
                    /\ root'[KeyOfGrant(g)].action = ActionOf[g]
                    /\ \A q \in Proc : HoldsRoot(q)' => KeyFor(q)' # KeyOfGrant(g)
  BY DEF PaidRemediesAreCharged, KeyOfGrant
<1> USE DEF TypeOK, StoresTypeOK
<1>0. KeyOfGrant(g) \in Key
  BY CallFacts
<1>1. \A q \in Proc : HoldsRoot(q)' =>
        KeyFor(q)' = KeyFor(q) /\ (HoldsRoot(q) \/ (q = p /\ RootTakes(p)))
  BY HeldRootBefore DEF KeyFor, KeyOfGrant
<1>2. CASE Paid(g)
  <2>1. /\ Held(root, KeyOfGrant(g)) /\ root[KeyOfGrant(g)].action = ActionOf[g]
        /\ \A q \in Proc : HoldsRoot(q) => KeyFor(q) # KeyOfGrant(g)
    BY <1>2 DEF PaidRemediesAreCharged
  <2>2. RootTakes(p) => KeyFor(p) # KeyOfGrant(g)
    BY <2>1 DEF RootTakes, Reservable
  <2>3. RootGivesBack(p) => KeyFor(p) # KeyOfGrant(g)
    BY <2>1 DEF RootGivesBack, HoldsRoot, RootedAreRemedies, RootPC
  <2>4. Held(root, KeyOfGrant(g))' /\ root'[KeyOfGrant(g)].action = ActionOf[g]
    BY <1>0, <2>1, <2>2, <2>3, RootStep, CallFacts
       DEF RootTakes, RootGivesBack, RootSettles, Held
  <2> QED
    BY <1>1, <2>1, <2>2, <2>4
<1>3. CASE ~Paid(g)
  <2>1. g = req[p] /\ pc[p] = "cm_invoke" /\ pc'[p] \notin RootPC /\ UNCHANGED root
    BY <1>3, PaysItsGrant
  <2>2. HoldsRoot(p)
    BY <2>1, CallFacts
       DEF RootedAreRemedies, CommitPC, ArmedPC, HoldsRoot, RootPC
  <2>3. /\ root[KeyFor(p)] = InFlight(Act(p)) /\ KeyFor(p) = KeyOfGrant(g)
        /\ Act(p) = ActionOf[g]
        /\ \A q \in Proc : HoldsRoot(q) /\ KeyFor(q) = KeyFor(p) => q = p
    BY <2>1, <2>2, CallFacts DEF RootHolders, KeyFor
  <2>4. ~HoldsRoot(p)' /\ ~RootTakes(p)
    BY <2>1 DEF HoldsRoot, RootPC, RootTakes
  <2> QED
    BY <1>1, <2>1, <2>3, <2>4, EntryFields DEF Held
<1> QED
  BY <1>2, <1>3

\* A step that leaves the ledger leaves its sums.
LEMMA IdleKeepsLedger ==
  ASSUME EntriesNameActions, LedgerWithinLimits, UNCHANGED <<main, root>>
  PROVE  EntriesNameActions' /\ LedgerWithinLimits'
<1>1. \A grp \in Group : Exposure(grp)' = Exposure(grp)
  BY DEF Exposure, Units, HeldIn, RootHeldIn
<1> QED
  BY <1>1 DEF EntriesNameActions, LedgerWithinLimits, Thresholds, Held

\* At the start it is empty.
LEMMA InitialLedger ==
  ASSUME Init
  PROVE  EntriesNameActions /\ LedgerWithinLimits
<1>1. \A k \in Key : main[k].status = "NONE" /\ root[k].status = "NONE"
  BY EntryFields DEF Init
<1>2. ASSUME NEW grp \in Group
      PROVE  Exposure(grp) = 0
  <2>1. HeldIn(grp) = {} /\ RootHeldIn(grp) = {}
    BY <1>1 DEF HeldIn, RootHeldIn
  <2>2. Units(main, {}) = {} /\ Units(root, {}) = {}
    BY DEF Units
  <2> QED
    BY <2>1, <2>2, FS_EmptySet DEF Exposure
<1> QED
  BY <1>1, <1>2 DEF EntriesNameActions, LedgerWithinLimits, Held

\* The ledger never holds more than a threshold that was applied in the group,
\* whether or not the commit route can read the budget.
THEOREM LedgerIsWithinLimits == Spec => []LedgerWithinLimits
<1>1. Init => EntriesNameActions /\ LedgerWithinLimits
  BY InitialLedger
<1>2. IInv /\ EntriesNameActions /\ LedgerWithinLimits /\ [Next]_vars
        => EntriesNameActions' /\ LedgerWithinLimits'
  <2> SUFFICES ASSUME IInv, EntriesNameActions, LedgerWithinLimits, [Next]_vars
               PROVE  EntriesNameActions' /\ LedgerWithinLimits'
    OBVIOUS
  <2>1. ASSUME NEW p \in Proc, Step(p)
        PROVE  EntriesNameActions' /\ LedgerWithinLimits'
    BY <2>1, StepNamesActions, StepKeepsLimits DEF IInv
  <2>2. CASE UNCHANGED <<main, root>>
    BY <2>2, IdleKeepsLedger
  <2> QED
    BY <2>1, <2>2
       DEF Next, BeginCall, StartPrepare, StartMint, StartAuthorize,
           StartCommit, StartReconcile, Environment, Revoke, Expire,
           AdvanceTip, Crash, vars, stores
<1> QED
  BY <1>1, <1>2, Invariance, PTL DEF Spec

\* A step that leaves the ledger and the money keeps the invariant, when its
\* calls take up no root entry and reserve as their action asks.
LEMMA IdleKeepsBudgetInv ==
  ASSUME BudgetInv, RootedAreRemedies', UNCHANGED <<main, root, effects>>,
         \A q \in Proc : HoldsRoot(q)' => HoldsRoot(q) /\ req'[q] = req[q]
  PROVE  BudgetInv'
<1> USE DEF BudgetInv
<1>1. \A q \in Proc : HoldsRoot(q)' =>
        HoldsRoot(q) /\ KeyFor(q)' = KeyFor(q) /\ Act(q)' = Act(q)
  BY DEF KeyFor, KeyOfGrant, Act
<1>2. EntriesNameActions' /\ LedgerWithinLimits'
  BY IdleKeepsLedger
<1>3. RootHolders'
  BY <1>1 DEF RootHolders
<1>4. PaidRemediesAreCharged'
  BY <1>1 DEF PaidRemediesAreCharged, Paid, Held, KeyOfGrant
<1> QED
  BY <1>2, <1>3, <1>4

\* Every step keeps the ledger within its thresholds.
LEMMA NextKeepsBudgetInv ==
  ASSUME ~StateReadMayFail, IInv, BudgetInv, [Next]_vars
  PROVE  BudgetInv'
<1>0. TypeOK /\ LockInv /\ CallTypeOK
  BY DEF IInv, TypeOK
<1>1. ASSUME NEW p \in Proc, Step(p)
      PROVE  BudgetInv'
  BY <1>0, <1>1, StepNamesActions, StepKeepsRemedies, StepKeepsRootHolders,
     StepKeepsCharge, StepKeepsLimits DEF BudgetInv
<1>2. ASSUME NEW p \in Proc, BeginCall(p)
      PROVE  BudgetInv'
  <2>1. UNCHANGED <<main, root, effects>>
    BY <1>2 DEF BeginCall, StartPrepare, StartMint, StartAuthorize,
                StartCommit, StartReconcile, stores
  <2>2. \A q \in Proc \ {p} : pc'[q] = pc[q] /\ req'[q] = req[q] /\ rooted'[q] = rooted[q]
    BY <1>0, <1>2 DEF BeginCall, StartPrepare, StartMint, StartAuthorize,
                StartCommit, StartReconcile, Begin, CallTypeOK
  <2>3. /\ pc'[p] \in {"prep_put", "mint_put", "auth_reservation", "cm_replay", "rec_resolve"}
        /\ rooted'[p] => ActionOf[req'[p]] \in Remedy
        /\ pc'[p] = "cm_replay" /\ ActionOf[req'[p]] \in Remedy => rooted'[p]
    <3>1. CASE StartReconcile(p)
      BY <1>0, <3>1 DEF StartReconcile, Begin, CallTypeOK
    <3>2. ASSUME NEW g \in Grant,
                 StartPrepare(p, g) \/ StartMint(p, g) \/ StartAuthorize(p, g)
          PROVE  /\ pc'[p] \in {"prep_put", "mint_put", "auth_reservation"}
                 /\ ~rooted'[p]
      BY <1>0, <3>2 DEF StartPrepare, StartMint, StartAuthorize, Begin, CallTypeOK
    <3>3. ASSUME NEW g \in Grant, StartCommit(p, g)
          PROVE  /\ pc'[p] = "cm_replay" /\ req'[p] = g
                 /\ rooted'[p] <=> ActionOf[g] \in Remedy
      BY <1>0, <3>3 DEF StartCommit, RootExposure, Begin, CallTypeOK
    <3> QED
      BY <1>2, <3>1, <3>2, <3>3 DEF BeginCall
  <2>4. RootedAreRemedies'
    <3>1. pc'[p] \notin {"cm_root", "ok_root", "fail_root"}
            /\ (pc'[p] \in CommitPC => pc'[p] = "cm_replay")
      BY <2>3 DEF CommitPC, GatePC, ArmedPC, SettlePC
    <3>2. ASSUME NEW q \in Proc
          PROVE  /\ pc'[q] \in {"cm_root", "ok_root", "fail_root"} => rooted'[q]
                 /\ rooted'[q] => ActionOf[req'[q]] \in Remedy
                 /\ pc'[q] \in CommitPC /\ ActionOf[req'[q]] \in Remedy => rooted'[q]
      <4>1. CASE q = p
        BY <4>1, <3>1, <2>3
      <4>2. CASE q # p
        BY <4>2, <2>2 DEF BudgetInv, RootedAreRemedies, Act
      <4> QED
        BY <4>1, <4>2
    <3> QED
      BY <3>2 DEF RootedAreRemedies, Act, CommitPC, GatePC, ArmedPC, SettlePC
  <2>5. \A q \in Proc : HoldsRoot(q)' => HoldsRoot(q) /\ req'[q] = req[q]
    BY <2>2, <2>3 DEF HoldsRoot, RootPC
  <2> QED
    BY <2>1, <2>4, <2>5, IdleKeepsBudgetInv
<1>3. ASSUME NEW p \in Proc, Crash(p)
      PROVE  BudgetInv'
  <2>1. UNCHANGED <<main, root, effects>>
    BY <1>3 DEF Crash, stores
  <2>2. \A q \in Proc : IF q = p THEN pc'[q] = "idle" /\ ~rooted'[q]
                        ELSE pc'[q] = pc[q] /\ req'[q] = req[q] /\ rooted'[q] = rooted[q]
    BY <1>0, <1>3 DEF Crash, Return, CallTypeOK
  <2>3. RootedAreRemedies'
    BY <2>2 DEF BudgetInv, RootedAreRemedies, Act, CommitPC, GatePC, ArmedPC, SettlePC
  <2>4. \A q \in Proc : HoldsRoot(q)' => HoldsRoot(q) /\ req'[q] = req[q]
    BY <2>2 DEF HoldsRoot, RootPC
  <2> QED
    BY <2>1, <2>3, <2>4, IdleKeepsBudgetInv
<1>4. CASE UNCHANGED <<main, root, effects, call>>
  <2>1. RootedAreRemedies'
    BY <1>4 DEF call, BudgetInv, RootedAreRemedies, Act
  <2>2. \A q \in Proc : HoldsRoot(q)' => HoldsRoot(q) /\ req'[q] = req[q]
    BY <1>4 DEF call, HoldsRoot
  <2> QED
    BY <1>4, <2>1, <2>2, IdleKeepsBudgetInv
<1> QED
  BY <1>1, <1>2, <1>3, <1>4
     DEF Next, Environment, Revoke, Expire, AdvanceTip, vars, stores

\* The inductive invariant behind the budget, when the commit route can read
\* the state of the intent: the ledger is within its thresholds, and the entry
\* of a paid remedy stays in the group of the intent.
THEOREM BudgetInvariant ==
  ASSUME ~StateReadMayFail
  PROVE  Spec => []BudgetInv
<1>1. Init => BudgetInv
  <2> SUFFICES ASSUME Init
               PROVE  BudgetInv
    OBVIOUS
  <2>1. \A p \in Proc : /\ pc[p] \notin RootPC \cup CommitPC
                        /\ pc[p] \notin {"cm_root", "ok_root", "fail_root"}
                        /\ ~rooted[p]
    BY DEF Init, RootPC, CommitPC, GatePC, ArmedPC, SettlePC
  <2>2. EntriesNameActions /\ LedgerWithinLimits
    BY InitialLedger
  <2>3. RootedAreRemedies /\ RootHolders
    BY <2>1 DEF RootedAreRemedies, RootHolders, HoldsRoot
  <2>4. PaidRemediesAreCharged
    BY DEF Init, PaidRemediesAreCharged, Paid
  <2> QED
    BY <2>2, <2>3, <2>4 DEF BudgetInv
<1>2. IInv /\ BudgetInv /\ [Next]_vars => BudgetInv'
  BY NextKeepsBudgetInv
<1> QED
  BY <1>1, <1>2, Invariance, PTL DEF Spec

\* The payments of some actions have their units in a ledger in which each of
\* them has the entry of its key.
LEMMA UnitsOfPayments ==
  ASSUME NEW as \in SUBSET Action, NEW ks \in SUBSET Key, NEW entries,
         \A k \in ks : entries[k].action \in Action,
         \A a \in as : KeyOf[a] \in ks /\ entries[KeyOf[a]].action = a
  PROVE  LET us == UNION {{a} \X (1..Amount[a]) : a \in as}
         IN  /\ IsFiniteSet(us) /\ Cardinality(us) \in Nat
             /\ Cardinality(us) <= Cardinality(Units(entries, ks))
<1> DEFINE us == UNION {{a} \X (1..Amount[a]) : a \in as}
           f == [u \in us |-> <<KeyOf[u[1]], u[2]>>]
<1>1. IsFiniteSet(Units(entries, ks)) /\ Cardinality(Units(entries, ks)) \in Nat
  <2>1. IsFiniteSet(ks)
    BY FiniteAssumption, FS_Subset
  <2> QED
    BY <2>1, UnitsAreFinite
<1>2. ASSUME NEW u \in us
      PROVE  /\ u[1] \in as /\ u[2] \in 1..Amount[u[1]] /\ u = <<u[1], u[2]>>
             /\ <<KeyOf[u[1]], u[2]>> \in Units(entries, ks)
  <2>1. PICK a \in as : u \in {a} \X (1..Amount[a])
    OBVIOUS
  <2>2. u[1] = a /\ u[2] \in 1..Amount[a] /\ u = <<u[1], u[2]>>
    BY <2>1
  <2>3. KeyOf[a] \in ks /\ entries[KeyOf[a]].action = a
    OBVIOUS
  <2> HIDE DEF us
  <2>4. <<KeyOf[a], u[2]>> \in {KeyOf[a]} \X (1..Amount[entries[KeyOf[a]].action])
    BY <2>2, <2>3
  <2>5. <<KeyOf[a], u[2]>> \in Units(entries, ks)
    BY <2>3, <2>4 DEF Units
  <2> QED
    BY <2>1, <2>2, <2>5
<1> HIDE DEF us
<1>3. f \in [us -> Units(entries, ks)]
  BY <1>2
<1>4. ASSUME NEW u \in us, NEW v \in us, f[u] = f[v]
      PROVE  u = v
  <2>1. KeyOf[u[1]] = KeyOf[v[1]] /\ u[2] = v[2]
    BY <1>4
  <2>2. entries[KeyOf[u[1]]].action = u[1] /\ entries[KeyOf[v[1]]].action = v[1]
    BY <1>2
  <2> QED
    BY <1>2, <2>1, <2>2
<1>5. f \in Injection(us, Units(entries, ks))
  BY <1>3, <1>4 DEF Injection, IsInjective
<1> HIDE DEF f
<1>6. /\ IsFiniteSet(us)
      /\ Cardinality(us) <= Cardinality(Units(entries, ks))
  BY <1>1, <1>5, FS_Injection
<1>7. Cardinality(us) \in Nat
  BY <1>6, FS_CardinalityType
<1> QED
  BY <1>6, <1>7 DEF us

\* What was paid is in the ledger: the effects of a group do not exceed it.
LEMMA SpentIsExposed ==
  ASSUME ~StateReadMayFail, IInv, BudgetInv, NEW grp \in Group
  PROVE  Spent(grp) \in Nat /\ Spent(grp) <= Exposure(grp)
<1> USE DEF IInv, LockInv, BudgetInv, TypeOK, StoresTypeOK
<1> DEFINE own == {a \in PaidActions : GroupOf[a] = grp}
           other == {a \in PaidActions : grp = RootGroup /\ a \in Remedy}
           ownUs == UNION {{a} \X (1..Amount[a]) : a \in own}
           otherUs == UNION {{a} \X (1..Amount[a]) : a \in other}
           allUs == UNION {{a} \X (1..Amount[a]) : a \in Charged(grp)}
           ms == Cardinality(Units(main, HeldIn(grp)))
           rs == Cardinality(Units(root, RootHeldIn(grp)))
<1>1. PaidActions \in SUBSET Action /\ \A a \in PaidActions : KeyOf[a] \in Key
  BY ConstantsAssumption DEF PaidActions
<1>2. \A a \in PaidActions : Held(main, KeyOf[a]) /\ main[KeyOf[a]].action = a
  BY DEF PaidActions, EffectHoldsExposure, KeyOfGrant
<1>3. \A a \in PaidActions : a \in Remedy =>
        Held(root, KeyOf[a]) /\ root[KeyOf[a]].action = a
  BY DEF PaidActions, PaidRemediesAreCharged, KeyOfGrant
<1>4. IsFiniteSet(ownUs) /\ Cardinality(ownUs) \in Nat /\ Cardinality(ownUs) <= ms
  <2>1. \A a \in own : KeyOf[a] \in HeldIn(grp) /\ main[KeyOf[a]].action = a
    BY <1>1, <1>2 DEF HeldIn, Held
  <2>2. own \in SUBSET Action
    BY <1>1
  <2> HIDE DEF own
  <2> QED
    BY <2>1, <2>2, HeldIsFinite, UnitsOfPayments
<1>5. IsFiniteSet(otherUs) /\ Cardinality(otherUs) \in Nat /\ Cardinality(otherUs) <= rs
  <2>1. \A a \in other : KeyOf[a] \in RootHeldIn(grp) /\ root[KeyOf[a]].action = a
    BY <1>1, <1>3 DEF RootHeldIn, Held
  <2>2. other \in SUBSET Action
    BY <1>1
  <2> HIDE DEF other
  <2> QED
    BY <2>1, <2>2, HeldIsFinite, UnitsOfPayments
<1>6. ms \in Nat /\ rs \in Nat /\ Exposure(grp) = ms + rs
  BY HeldIsFinite DEF Exposure
<1>7. allUs = ownUs \cup otherUs
  <2>1. Charged(grp) = own \cup other
    BY DEF Charged
  <2> HIDE DEF own, other
  <2> QED
    BY <2>1
<1>8. Spent(grp) = Cardinality(allUs)
  BY DEF Spent
<1> HIDE DEF ownUs, otherUs, allUs, ms, rs
<1>9. /\ IsFiniteSet(ownUs \cap otherUs) /\ Cardinality(ownUs \cap otherUs) \in Nat
      /\ IsFiniteSet(allUs) /\ Cardinality(allUs) \in Nat
      /\ Cardinality(allUs) = Cardinality(ownUs) + Cardinality(otherUs)
                                - Cardinality(ownUs \cap otherUs)
  BY <1>4, <1>5, <1>7, FS_Union, FS_Intersection, FS_CardinalityType
<1> QED
  BY <1>4, <1>5, <1>6, <1>8, <1>9

\* When the commit route can read the budget, the effects of a group never
\* exceed the largest threshold that was applied in it.
THEOREM BudgetIsRespected ==
  ASSUME ~StateReadMayFail
  PROVE  Spec => []BudgetRespected
<1>1. IInv /\ BudgetInv => BudgetRespected
  <2> SUFFICES ASSUME IInv, BudgetInv, NEW grp \in Group, Charged(grp) # {}
               PROVE  \E n \in Thresholds(grp) : Spent(grp) <= n
    BY DEF BudgetRespected
  <2>1. /\ Spent(grp) \in Nat /\ Spent(grp) <= Exposure(grp)
        /\ Exposure(grp) \in Nat
    BY SpentIsExposed, HeldIsFinite DEF BudgetInv, Exposure
  <2>2. \A n \in Thresholds(grp) : n \in Nat
    BY ConstantsAssumption DEF Thresholds
  <2>3. CASE Exposure(grp) = 0
    <3>1. PICK a \in Charged(grp) : a \in Action
      BY ConstantsAssumption DEF Charged, PaidActions
    <3>2. Thresholds(grp) # {}
      BY <3>1 DEF Charged, Thresholds
    <3> QED
      BY <2>1, <2>2, <2>3, <3>2
  <2>4. CASE \E n \in Thresholds(grp) : Exposure(grp) <= n
    BY <2>1, <2>2, <2>4
  <2> QED
    BY <2>3, <2>4 DEF BudgetInv, LedgerWithinLimits
<1> QED
  BY <1>1, Invariance, BudgetInvariant, PTL
=============================================================================
