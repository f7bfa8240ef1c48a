---------------------------- MODULE OutcomeProofs ----------------------------
(***************************************************************************)
(* Theorems about OutcomeContract, for every number of instances, calls    *)
(* and messages, all facts and claims, any lost instances.                 *)
(***************************************************************************)
EXTENDS OutcomeContract, FiniteSetTheorems, TLAPS

----------------------------------------------------------------------------
(* What the requirements add up to.                                        *)

\* aggregateRequirementStates: one broken requirement breaks the outcome, and
\* only all of them together satisfy it.
THEOREM AggregateIsWorst ==
  ASSUME NEW req \in Result
  PROVE  /\ Aggregate(req) \in Judged
         /\ Aggregate(req) = "BREACHED" <=> \E k \in Concept : req[k] = "BREACHED"
         /\ Aggregate(req) = "SATISFIED" <=> \A k \in Concept : req[k] = "SATISFIED"
         /\ Aggregate(req) \in TriggerKinds => \E k \in Concept : req[k] = Aggregate(req)
<1> DEFINE Has(i) == \E k \in Concept : req[k] = Worst[i]
           least == CHOOSE i \in 1..4 : Has(i) /\ \A j \in 1..(i - 1) : ~Has(j)
<1>1. /\ Worst[1] = "BREACHED" /\ Worst[2] = "CONFLICTED"
      /\ Worst[3] = "PARTIAL" /\ Worst[4] = "AT_RISK"
  BY DEF Worst
<1>2. CASE \E i \in 1..4 : Has(i)
  <2>1. \E i \in 1..4 : Has(i) /\ \A j \in 1..(i - 1) : ~Has(j)
    <3> HIDE DEF Has
    <3>1. CASE Has(1)
      BY <3>1
    <3>2. CASE ~Has(1) /\ Has(2)
      BY <3>2
    <3>3. CASE ~Has(1) /\ ~Has(2) /\ Has(3)
      BY <3>3
    <3>4. CASE ~Has(1) /\ ~Has(2) /\ ~Has(3) /\ Has(4)
      BY <3>4
    <3> QED
      BY <1>2, <3>1, <3>2, <3>3, <3>4
  <2>2. least \in 1..4 /\ Has(least) /\ \A j \in 1..(least - 1) : ~Has(j)
    BY <2>1
  <2>3. Aggregate(req) = Worst[least]
    BY <1>2 DEF Aggregate
  <2> HIDE DEF least
  <2>4. Worst[least] \in {"BREACHED", "CONFLICTED", "PARTIAL", "AT_RISK"}
    BY <1>1, <2>2
  <2>5. (\E k \in Concept : req[k] = "BREACHED") => least = 1
    BY <1>1, <2>2
  <2>6. \E k \in Concept : req[k] = Aggregate(req) /\ Aggregate(req) # "SATISFIED"
    BY <2>2, <2>3, <2>4
  <2> QED
    BY <1>1, <2>3, <2>4, <2>5, <2>6 DEF Judged, TriggerKinds
<1>3. CASE ~\E i \in 1..4 : Has(i)
  <2>1. Aggregate(req) = IF \A k \in Concept : req[k] = "SATISFIED" THEN "SATISFIED"
                                                             ELSE "AWAITING_EVIDENCE"
    BY <1>3 DEF Aggregate
  <2>2. \A k \in Concept : req[k] # "BREACHED"
    BY <1>1, <1>3
  <2> QED
    BY <2>1, <2>2 DEF Judged, TriggerKinds
<1> QED
  BY <1>2, <1>3

\* What a call stores is a contract.
LEMMA MovesAreContracts ==
  ASSUME NEW contract \in Contract, NEW status \in Payment, NEW req \in Result
  PROVE  /\ ApplyPayment(contract, status) \in Contract
         /\ [contract EXCEPT !.req = req, !.state = Aggregate(req)] \in Contract
         /\ [contract EXCEPT !.state = "CLOSED"] \in Contract
<1>1. PaidState(contract.state, status) \in ContractState
  BY DEF PaidState, Contract, ContractState, Payment
<1>2. Aggregate(req) \in ContractState
  BY AggregateIsWorst DEF ContractState
<1> QED
  BY <1>1, <1>2 DEF ApplyPayment, Contract, Result, ContractState

----------------------------------------------------------------------------
(* Facts.                                                                  *)

\* evaluatePredicate gives every requirement a state, whatever is observed.
LEMMA EvaluationTypes ==
  ASSUME NEW f \in Facts
  PROVE  EvaluateAll(f) \in Result
<1>1. Quantity(IF f.received # None THEN f.received ELSE f.ordered) \in ReqState
  BY DEF Quantity, ReqState
<1>2. QuantityFact(f) \in ReqState
  BY <1>1 DEF QuantityFact, ReqState
<1>3. PaymentFact(f) \in ReqState
  <2>1. f.settled \in {"yes", "no", None}
    BY DEF Facts
  <2> QED
    BY <2>1 DEF PaymentFact, ReqState
<1>4. DeliveryFact(f) \in ReqState
  <2>1. f.delivery \in {"before", "after", "late", None}
    BY DEF Facts
  <2> QED
    BY <2>1 DEF DeliveryFact, ReqState
<1>5. \A k \in Concept : Evaluate(f, k) \in ReqState
  BY <1>2, <1>3, <1>4 DEF Evaluate, Concept
<1> QED
  BY <1>5 DEF EvaluateAll, Result, ReqState

\* What is derived from claims are facts: a quantity is observed when all
\* claims agree on it.
LEMMA DerivationTypes ==
  ASSUME NEW claims \in Claims, NEW payment \in Payment
  PROVE  Derive(claims, payment) \in Facts
<1> DEFINE Of(values) == IF Cardinality(values) = 1 THEN CHOOSE v \in values : TRUE ELSE None
<1>1. ASSUME NEW values \in SUBSET (0..Required)
      PROVE  Of(values) \in 0..Required \cup {None}
  <2>1. CASE Cardinality(values) = 1
    <3>1. values # {}
      BY <2>1, FS_EmptySet
    <3> QED
      BY <2>1, <3>1
  <2>2. CASE Cardinality(values) # 1
    BY <2>2
  <2> QED
    BY <2>1, <2>2
<1>2. claims.received \in SUBSET (0..Required) /\ claims.alias \in SUBSET (0..Required)
  BY DEF Claims
<1> DEFINE received == IF claims.received # {} THEN Of(claims.received) ELSE Of(claims.alias)
<1>3. received \in 0..Required \cup {None}
  BY <1>1, <1>2
<1>4. Derive(claims, payment) =
        [received |-> received, ordered |-> Required,
         settled |-> IF payment = "SUCCESS" THEN "yes" ELSE None,
         delivery |-> None, semantic |-> None,
         conflicted |-> {k \in Concept : k = "quantity_received"
                                           /\ Cardinality(claims.received) > 1}]
  BY DEF Derive
<1> HIDE DEF received
<1> QED
  BY <1>3, <1>4 DEF Facts

----------------------------------------------------------------------------
(* Types.                                                                  *)

\* The null records have their types.
LEMMA NullTypes ==
  /\ Created \in Contract
  /\ Idle \in Calls
<1>1. Created \in Contract
  BY DEF Created, Contract, ContractState, Payment, ReqState
<1>2. NoClaims \in Claims
  BY DEF NoClaims, Claims
<1> QED
  BY <1>1, <1>2 DEF Idle, Calls, PC, Kind, Payment, Contract, Result

\* The types hold in the beginning.
LEMMA TypeInit == Init => TypeOK
<1>1. Created.req \in Result
  BY NullTypes DEF Contract, Result
<1>2. [status |-> "unpublished", result |-> Created.req, attempts |-> 0] \in Messages
  BY <1>1 DEF Messages
<1>3. Init => topic \in [Message -> Messages]
  BY <1>2 DEF Init
<1>4. Init => /\ local \in [Instance -> SUBSET Trigger]
              /\ handled \in [Instance -> SUBSET Message]
              /\ call \in [Call -> Calls]
  BY NullTypes DEF Init
<1>5. Init => /\ row \in Contract
              /\ events \subseteq Trigger /\ cases \subseteq Trigger /\ opening \subseteq Opening
              /\ requests \in Nat /\ crashes \in Nat
  BY NullTypes DEF Init
<1>6. Init => cut \in BOOLEAN /\ torn \subseteq Message
  BY DEF Init
<1> QED
  BY <1>3, <1>4, <1>5, <1>6 DEF TypeOK

\* A step of a call that stays under way or ends.
LEMMA CallTypes ==
  ASSUME TypeOK, NEW c \in Call
  PROVE  /\ call[c] \in Calls
         /\ call[c].seen \in Contract /\ call[c].result \in Result
         /\ call[c].status \in Payment
         /\ \A pc \in PC : [call[c] EXCEPT !.pc = pc] \in Calls
         /\ \A pc \in PC, seen \in Contract : [call[c] EXCEPT !.pc = pc, !.seen = seen] \in Calls
         /\ End(c) => call' \in [Call -> Calls]
BY NullTypes DEF TypeOK, Calls, End

\* A handled message is one.
LEMMA FinishTypes ==
  ASSUME TypeOK, NEW c \in Call, CallIsSound(c), Finish(c)
  PROVE  /\ call' \in [Call -> Calls]
         /\ topic' \in [Message -> Messages]
         /\ handled' \in [Instance -> SUBSET Message]
<1>1. call' \in [Call -> Calls]
  BY CallTypes DEF Finish
<1>2. CASE call[c].kind = "event"
  <2>1. call[c].message \in Message
    BY <1>2 DEF CallIsSound
  <2> QED
    BY <1>1, <1>2, <2>1 DEF Finish, TypeOK, Acknowledge, Messages
<1>3. CASE call[c].kind # "event"
  BY <1>1, <1>3 DEF Finish, TypeOK
<1> QED
  BY <1>2, <1>3

\* A case that is opened is that of a trigger.
LEMMA OpenTypes ==
  ASSUME TypeOK, NEW trigger \in Trigger, NEW i, Open(trigger, i)
  PROVE  cases' \subseteq Trigger /\ local' \in [Instance -> SUBSET Trigger]
BY DEF TypeOK, Open

\* So is one that the bus is handed.
LEMMA TriggerTypes ==
  ASSUME NEW contract \in Contract, contract.state \in TriggerKinds
  PROVE  TriggerOf(contract) \in Trigger
BY DEF TriggerOf, Trigger

\* An attempt is counted.
LEMMA AttemptTypes ==
  ASSUME TypeOK, NEW m \in Message
  PROVE  Attempted(m) \in [Message -> Messages]
BY DEF TypeOK, Attempted, Messages

\* Every step keeps the types.
LEMMA TypeStep ==
  ASSUME OutcomeInv, [Next]_vars
  PROVE  TypeOK'
<1>0. /\ TypeOK /\ \A c \in Call : CallIsSound(c)
      /\ \A i \in Nat : i + 1 \in Nat
  BY DEF OutcomeInv
<1>1. ASSUME NEW c \in Call, NEW i \in Instance, NEW status \in Payment \ {"PENDING"},
             LoadPayment(c, i, status)
      PROVE  TypeOK'
  <2>1. [Idle EXCEPT !.pc = "pay", !.at = i, !.seen = row, !.status = status] \in Calls
    BY <1>0, NullTypes DEF TypeOK, Calls, PC
  <2> QED
    BY <1>0, <1>1, <2>1 DEF LoadPayment, Arriving, Begin, TypeOK
<1>2. ASSUME NEW c \in Call, StorePayment(c)
      PROVE  TypeOK'
  <2>1. row' \in Contract
    BY <1>0, <1>2, CallTypes, MovesAreContracts DEF StorePayment
  <2> QED
    BY <1>0, <1>2, <2>1, CallTypes DEF StorePayment, TypeOK
<1>3. ASSUME NEW c \in Call, NEW i \in Instance, NEW claims \in ClaimSets,
             EvaluateEvidence(c, i, claims)
      PROVE  TypeOK'
  <2>1. claims \in Claims /\ row.payment \in Payment
    BY <1>0, OutcomeAssumption DEF TypeOK, Contract
  <2>2. EvaluateAll(Derive(claims, row.payment)) \in Result
    BY <2>1, DerivationTypes, EvaluationTypes
  <2>3. [Idle EXCEPT !.pc = "load", !.at = i, !.kind = "evaluate", !.claims = claims,
                     !.result = EvaluateAll(Derive(claims, row.payment))] \in Calls
    BY <2>1, <2>2, NullTypes DEF Calls, PC, Kind
  <2> QED
    BY <1>0, <1>3, <2>3 DEF EvaluateEvidence, Arriving, Begin, TypeOK
<1>4. ASSUME NEW m \in Message, NEW facts \in EventFacts, Publish(m, facts)
      PROVE  TypeOK'
  <2>1. EvaluateAll(facts) \in Result
    BY OutcomeAssumption, EvaluationTypes
  <2> QED
    BY <1>0, <1>4, <2>1 DEF Publish, Messages, TypeOK
<1>5. ASSUME NEW m \in Message, NEW c \in Call, NEW i \in Instance, Deliver(m, c, i)
      PROVE  TypeOK'
  <2>1. topic[m].result \in Result
    BY <1>0 DEF Messages, TypeOK
  <2>2. [Idle EXCEPT !.pc = "load", !.at = i, !.kind = "event", !.message = m,
                     !.result = topic[m].result] \in Calls
    BY <2>1, NullTypes DEF Calls, PC, Kind
  <2> QED
    BY <1>0, <1>5, <2>2, AttemptTypes DEF Deliver, Begin, TypeOK
<1>6. ASSUME NEW m \in Message, NEW i \in Instance, DeliverCopy(m, i)
      PROVE  TypeOK'
  BY <1>0, <1>6 DEF DeliverCopy, Acknowledge, Messages, TypeOK
<1>7. ASSUME NEW c \in Call, Load(c)
      PROVE  TypeOK'
  <2>1. [call[c] EXCEPT !.pc = "store", !.seen = row] \in Calls
    BY <1>0, CallTypes DEF PC, TypeOK
  <2> QED
    BY <1>0, <1>7, <2>1, NullTypes DEF Load, TypeOK
<1>8. ASSUME NEW c \in Call, Store(c)
      PROVE  TypeOK'
  <2>1. Evaluated(c) \in Contract
    BY <1>0, CallTypes, MovesAreContracts DEF Evaluated
  <2>2. [call[c] EXCEPT !.pc = "emit", !.seen = Evaluated(c)] \in Calls
    BY <1>0, <2>1, CallTypes DEF PC
  <2> QED
    BY <1>0, <1>8, <2>1, <2>2 DEF Store, TypeOK
<1>9. ASSUME NEW c \in Call, Emit(c)
      PROVE  TypeOK'
  <2>1. TriggerOf(call[c].seen) \in Trigger
    BY <1>0, <1>9, CallTypes, TriggerTypes DEF Emit
  <2>2. [trigger |-> TriggerOf(call[c].seen), at |-> call[c].at,
         http |-> call[c].kind = "evaluate"] \in Opening
    BY <1>0, <1>9, <2>1 DEF Emit, Opening, CallIsSound
  <2>3. call' \in [Call -> Calls]
    BY <1>0, <1>9, CallTypes DEF Emit, PC, TypeOK
  <2>4. events' \subseteq Trigger /\ opening' \subseteq Opening
    BY <1>0, <1>9, <2>1, <2>2 DEF Emit, TypeOK
  <2> QED
    BY <1>0, <1>9, <2>3, <2>4 DEF Emit, TypeOK
<1>10. ASSUME NEW c \in Call, EmitNothing(c)
       PROVE  TypeOK'
  BY <1>0, <1>10, FinishTypes DEF EmitNothing, TypeOK
<1>11. ASSUME NEW c \in Call, OpenCase(c)
       PROVE  TypeOK'
  <2>1. TriggerOf(call[c].seen) \in Trigger
    BY <1>0, <1>11, CallTypes, TriggerTypes DEF OpenCase, CallIsSound
  <2> QED
    BY <1>0, <1>11, <2>1, FinishTypes, OpenTypes DEF OpenCase, TypeOK
<1>12. ASSUME NEW o \in opening, OpenFromBus(o)
       PROVE  TypeOK'
  <2>1. o.trigger \in Trigger
    BY <1>0 DEF TypeOK, Opening
  <2> QED
    BY <1>0, <1>12, <2>1, OpenTypes DEF OpenFromBus, TypeOK
<1>13. ASSUME NEW c \in Call, NEW i \in Instance, Close(c, i)
       PROVE  TypeOK'
  <2>1. [Idle EXCEPT !.pc = "closing", !.at = i, !.kind = "close"] \in Calls
    BY NullTypes DEF Calls, PC, Kind
  <2> QED
    BY <1>0, <1>13, <2>1 DEF Close, Arriving, Begin, TypeOK
<1>14. ASSUME NEW c \in Call, LoadClosing(c)
       PROVE  TypeOK'
  <2>1. [call[c] EXCEPT !.pc = "closed", !.seen = row] \in Calls
    BY <1>0, CallTypes DEF PC, TypeOK
  <2> QED
    BY <1>0, <1>14, <2>1, NullTypes DEF LoadClosing, TypeOK
<1>15. ASSUME NEW c \in Call, StoreClosed(c)
       PROVE  TypeOK'
  <2>1. row' \in Contract
    BY <1>0, <1>15, CallTypes, MovesAreContracts DEF StoreClosed
  <2> QED
    BY <1>0, <1>15, <2>1, CallTypes DEF StoreClosed, TypeOK
<1>16. ASSUME NEW i \in Instance, Crash(i)
       PROVE  TypeOK'
  <2>1. torn' \subseteq Message
    BY <1>0, <1>16 DEF Crash, TypeOK, Stored, CallIsSound
  <2> QED
    BY <1>0, <1>16, <2>1, NullTypes DEF Crash, TypeOK, Interrupted
<1>17. CASE UNCHANGED vars
  BY <1>0, <1>17 DEF vars, TypeOK
<1>18. ASSUME NEW m \in Message, DeliverInVain(m)
       PROVE  TypeOK'
  BY <1>0, <1>18, AttemptTypes DEF DeliverInVain, TypeOK
<1> QED
  BY <1>1, <1>2, <1>3, <1>4, <1>5, <1>6, <1>7, <1>8, <1>9, <1>10, <1>11, <1>12, <1>13, <1>14,
     <1>15, <1>16, <1>17, <1>18 DEF Next, Step, Request, Receive

----------------------------------------------------------------------------
(* Payments and judgements.                                                *)

\* Whatever is written back of a sound copy is sound: a payment never makes a
\* judgement, a judgement needs a legal move, and so does a closing.
LEMMA MovesAreSound ==
  ASSUME NEW contract \in Contract, Sound(contract)
  PROVE  /\ \A status \in Payment : Sound(ApplyPayment(contract, status))
         /\ \A req \in Result : MayMove(contract.state, Aggregate(req)) =>
              Sound([contract EXCEPT !.req = req, !.state = Aggregate(req)])
         /\ "CLOSED" \in Allowed[contract.state] => Sound([contract EXCEPT !.state = "CLOSED"])
<1>0. contract.state \in ContractState /\ contract.begun \in BOOLEAN
  BY DEF Contract
<1>1. ASSUME NEW status \in Payment
      PROVE  Sound(ApplyPayment(contract, status))
  <2> DEFINE paid == ApplyPayment(contract, status)
  <2>1. /\ paid.state = PaidState(contract.state, status) /\ paid.req = contract.req
        /\ contract.begun \/ status = "SUCCESS" => paid.begun
    BY DEF ApplyPayment, Contract
  <2>2. \/ paid.state = contract.state
        \/ paid.state = "AWAITING_OUTCOME" /\ status = "SUCCESS"
        \/ paid.state \in {"AWAITING_EXECUTION", "CANCELLED"}
    BY <2>1 DEF PaidState
  <2> SUFFICES Sound(paid)
    OBVIOUS
  <2> HIDE DEF paid
  <2>3. CASE paid.state = contract.state
    BY <2>1, <2>3 DEF Sound
  <2>4. CASE paid.state # contract.state
    BY <2>1, <2>2, <2>4 DEF Sound, Judged
  <2> QED
    BY <2>3, <2>4
<1>2. ASSUME NEW req \in Result, MayMove(contract.state, Aggregate(req))
      PROVE  Sound([contract EXCEPT !.req = req, !.state = Aggregate(req)])
  <2>1. Aggregate(req) \in Judged
    BY AggregateIsWorst
  <2>2. contract.state \in Judged \cup {"AWAITING_OUTCOME"}
    BY <1>0, <1>2, <2>1 DEF MayMove, Allowed, Judged, ContractState
  <2>3. contract.begun
    BY <2>2 DEF Sound
  <2> QED
    BY <2>1, <2>3 DEF Sound, Contract
<1>3. ASSUME "CLOSED" \in Allowed[contract.state]
      PROVE  Sound([contract EXCEPT !.state = "CLOSED"])
  <2>1. contract.state \in Judged
    BY <1>0, <1>3 DEF Allowed, Judged, ContractState
  <2>2. contract.begun
    BY <2>1 DEF Sound
  <2> QED
    BY <2>2 DEF Sound, Contract, Judged
<1> QED
  BY <1>1, <1>2, <1>3

\* The row stays sound, whichever copy is written over it.
LEMMA RowStep ==
  ASSUME OutcomeInv, [Next]_vars
  PROVE  Sound(row)'
<1>0. /\ TypeOK /\ Sound(row) /\ \A c \in Call : CallIsSound(c)
  BY DEF OutcomeInv
<1>1. ASSUME NEW c \in Call, StorePayment(c)
      PROVE  Sound(row')
  BY <1>0, <1>1, CallTypes, MovesAreSound DEF StorePayment, CallIsSound
<1>2. ASSUME NEW c \in Call, Store(c)
      PROVE  Sound(row')
  BY <1>0, <1>2, CallTypes, MovesAreSound DEF Store, Evaluated, CallIsSound
<1>3. ASSUME NEW c \in Call, StoreClosed(c)
      PROVE  Sound(row')
  BY <1>0, <1>3, CallTypes, MovesAreSound DEF StoreClosed, CallIsSound
<1>4. (\A c \in Call : ~StorePayment(c) /\ ~Store(c) /\ ~StoreClosed(c)) => row' = row
  BY DEF Next, Step, Request, Receive, vars, LoadPayment, EvaluateEvidence, Close, Load, Emit,
         EmitNothing, OpenCase, LoadClosing, DeliverCopy, DeliverInVain, Deliver, Publish, OpenFromBus, Crash
<1>5. Sound(row')
  BY <1>0, <1>1, <1>2, <1>3, <1>4
<1> QED
  BY <1>5 DEF Sound

----------------------------------------------------------------------------
(* Cases.                                                                  *)

\* A trigger that is recorded stays so.
LEMMA EventsGrow ==
  ASSUME [Next]_vars
  PROVE  events \subseteq events'
BY DEF Next, Step, Request, Receive, vars, LoadPayment, EvaluateEvidence, Close, Load, Emit,
       EmitNothing, OpenCase, LoadClosing, DeliverCopy, DeliverInVain, Deliver, Publish, OpenFromBus, Crash,
       StorePayment, Store, StoreClosed

\* A case is opened for a trigger that is recorded.
LEMMA CasesStep ==
  ASSUME OutcomeInv, [Next]_vars
  PROVE  CasesAreRecorded' /\ (\A o \in opening : o.trigger \in events)'
<1>0. /\ TypeOK /\ CasesAreRecorded
      /\ \A o \in opening : o.trigger \in events
      /\ \A c \in Call : CallIsSound(c)
  BY DEF OutcomeInv
<1>1. ASSUME NEW trigger \in events, NEW i, Open(trigger, i), events' = events
      PROVE  CasesAreRecorded'
  BY <1>0, <1>1 DEF Open, CasesAreRecorded, TypeOK
<1>2. ASSUME NEW c \in Call, Emit(c)
      PROVE  /\ CasesAreRecorded'
             /\ \A o \in opening' : o.trigger \in events'
  BY <1>0, <1>2 DEF Emit, CasesAreRecorded
<1>3. ASSUME NEW c \in Call, OpenCase(c)
      PROVE  CasesAreRecorded' /\ opening' = opening
  BY <1>0, <1>1, <1>3 DEF OpenCase, CallIsSound
<1>4. ASSUME NEW o \in opening, OpenFromBus(o)
      PROVE  CasesAreRecorded' /\ opening' \subseteq opening
  BY <1>0, <1>1, <1>4 DEF OpenFromBus
<1>5. ASSUME NEW i \in Instance, Crash(i)
      PROVE  CasesAreRecorded' /\ opening' \subseteq opening
  BY <1>0, <1>5 DEF Crash, CasesAreRecorded, TypeOK
<1>6. \/ \E c \in Call : Emit(c) \/ OpenCase(c)
      \/ \E o \in opening : OpenFromBus(o)
      \/ \E i \in Instance : Crash(i)
      \/ UNCHANGED <<events, cases, local, opening>>
  BY DEF Next, Step, Request, Receive, vars, LoadPayment, EvaluateEvidence, Close, Load,
         EmitNothing, LoadClosing, DeliverCopy, DeliverInVain, Deliver, Publish, StorePayment, Store, StoreClosed
<1>7. CASE UNCHANGED <<events, cases, local, opening>>
  BY <1>0, <1>7 DEF CasesAreRecorded
<1> QED
  BY <1>0, <1>2, <1>3, <1>4, <1>5, <1>6, <1>7, EventsGrow

----------------------------------------------------------------------------
(* Calls.                                                                  *)

\* A call that has not begun rests on nothing.
LEMMA IdleIsSound ==
  ASSUME NEW c \in Call, call'[c] = Idle
  PROVE  CallIsSound(c)'
BY DEF CallIsSound, Idle, Sound, Created, Judged

\* A call that a step leaves alone stays sound.
LEMMA OthersKept ==
  ASSUME NEW c \in Call, CallIsSound(c), call'[c] = call[c], events \subseteq events'
  PROVE  CallIsSound(c)'
BY DEF CallIsSound

\* Every call stays sound.
LEMMA CallStep ==
  ASSUME OutcomeInv, [Next]_vars, NEW d \in Call
  PROVE  CallIsSound(d)'
<1>0. /\ TypeOK /\ Sound(row) /\ CallIsSound(d)
  BY DEF OutcomeInv
<1> USE DEF TypeOK
<1>1. ASSUME call'[d] = call[d]
      PROVE  CallIsSound(d)'
  BY <1>0, <1>1, EventsGrow, OthersKept
<1>2. ASSUME call'[d] = Idle
      PROVE  CallIsSound(d)'
  BY <1>2, IdleIsSound
<1>3. ASSUME NEW i \in Instance, NEW status \in Payment \ {"PENDING"},
             LoadPayment(d, i, status)
      PROVE  CallIsSound(d)'
  <2>1. call'[d] = [Idle EXCEPT !.pc = "pay", !.at = i, !.seen = row, !.status = status]
    BY <1>0, <1>3 DEF LoadPayment, Begin
  <2> QED
    BY <1>0, <2>1 DEF CallIsSound, Idle, Sound
<1>4. ASSUME NEW i \in Instance, NEW claims \in ClaimSets, EvaluateEvidence(d, i, claims)
      PROVE  CallIsSound(d)'
  <2>1. call'[d] = [Idle EXCEPT !.pc = "load", !.at = i, !.kind = "evaluate", !.claims = claims,
                      !.result = EvaluateAll(Derive(claims, row.payment))]
    BY <1>0, <1>4 DEF EvaluateEvidence, Begin
  <2> QED
    BY <2>1 DEF CallIsSound, Idle, Sound, Created, Judged
<1>5. ASSUME NEW m \in Message, NEW i \in Instance, Deliver(m, d, i)
      PROVE  CallIsSound(d)'
  <2>1. call'[d] = [Idle EXCEPT !.pc = "load", !.at = i, !.kind = "event", !.message = m,
                      !.result = topic[m].result]
    BY <1>0, <1>5 DEF Deliver, Begin
  <2> QED
    BY <2>1 DEF CallIsSound, Idle, Sound, Created, Judged
<1>6. ASSUME NEW i \in Instance, Close(d, i)
      PROVE  CallIsSound(d)'
  <2>1. call'[d] = [Idle EXCEPT !.pc = "closing", !.at = i, !.kind = "close"]
    BY <1>0, <1>6 DEF Close, Begin
  <2> QED
    BY <2>1 DEF CallIsSound, Idle, Sound, Created, Judged
<1>7. ASSUME Load(d)
      PROVE  CallIsSound(d)'
  <2>1. CASE MayMove(row.state, Aggregate(call[d].result))
    <3>1. call'[d] = [call[d] EXCEPT !.pc = "store", !.seen = row]
      BY <1>0, <1>7, <2>1 DEF Load
    <3> QED
      BY <1>0, <1>7, <2>1, <3>1, CallTypes DEF Load, CallIsSound, Calls, Sound
  <2>2. CASE ~MayMove(row.state, Aggregate(call[d].result))
    BY <1>0, <1>2, <1>7, <2>2 DEF Load
  <2> QED
    BY <2>1, <2>2
<1>8. ASSUME Store(d)
      PROVE  CallIsSound(d)'
  <2>1. Sound(Evaluated(d))
    BY <1>0, <1>8, CallTypes, MovesAreSound DEF Store, Evaluated, CallIsSound
  <2>2. call'[d] = [call[d] EXCEPT !.pc = "emit", !.seen = Evaluated(d)]
    BY <1>0, <1>8 DEF Store
  <2>3. /\ call'[d].pc = "emit" /\ call'[d].seen = Evaluated(d)
        /\ call'[d].at = call[d].at /\ call'[d].kind = call[d].kind
        /\ call'[d].message = call[d].message
    BY <2>2, <1>0, CallTypes DEF Calls
  <2> HIDE DEF TypeOK
  <2> QED
    BY <1>0, <1>8, <2>1, <2>3 DEF Store, CallIsSound, Sound
<1>9. ASSUME Emit(d)
      PROVE  CallIsSound(d)'
  <2>1. CASE call[d].kind = "event"
    <3>1. call'[d] = [call[d] EXCEPT !.pc = "open"]
      BY <1>0, <1>9, <2>1 DEF Emit
    <3>2. /\ call'[d].pc = "open" /\ call'[d].seen = call[d].seen
          /\ call'[d].at = call[d].at /\ call'[d].kind = call[d].kind
          /\ call'[d].message = call[d].message
      BY <3>1, <1>0, CallTypes DEF Calls
    <3>3. TriggerOf(call[d].seen) \in events' /\ call[d].seen.state \in TriggerKinds
      BY <1>9 DEF Emit
    <3> HIDE DEF TypeOK
    <3> QED
      BY <1>0, <1>9, <3>2, <3>3 DEF Emit, CallIsSound, Sound
  <2>2. CASE call[d].kind # "event"
    BY <1>0, <1>2, <1>9, <2>2 DEF Emit, End
  <2> QED
    BY <2>1, <2>2
<1>10. ASSUME LoadClosing(d)
       PROVE  CallIsSound(d)'
  <2>1. CASE "CLOSED" \in Allowed[row.state]
    <3>1. call'[d] = [call[d] EXCEPT !.pc = "closed", !.seen = row]
      BY <1>0, <1>10, <2>1 DEF LoadClosing
    <3> QED
      BY <1>0, <1>10, <2>1, <3>1, CallTypes DEF LoadClosing, CallIsSound, Calls, Sound
  <2>2. CASE "CLOSED" \notin Allowed[row.state]
    BY <1>0, <1>2, <1>10, <2>2 DEF LoadClosing
  <2> QED
    BY <2>1, <2>2
<1>11. ASSUME StorePayment(d) \/ EmitNothing(d) \/ OpenCase(d) \/ StoreClosed(d)
       PROVE  CallIsSound(d)'
  BY <1>0, <1>2, <1>11 DEF StorePayment, EmitNothing, OpenCase, StoreClosed, Finish, End
<1>12. ASSUME NEW i \in Instance, Crash(i)
       PROVE  CallIsSound(d)'
  BY <1>0, <1>1, <1>2, <1>12 DEF Crash
<1>13. ASSUME NEW c \in Call, c # d, Step(c) \/ Request(c)
       PROVE  CallIsSound(d)'
  <2>1. call'[d] = call[d]
    BY <1>0, <1>13 DEF Step, Request, LoadPayment, EvaluateEvidence, Close, Begin, End, Load, Emit,
           EmitNothing, OpenCase, LoadClosing, StorePayment, Store, StoreClosed, Finish
  <2> QED
    BY <1>1, <2>1
<1>14. ASSUME NEW m \in Message, NEW i \in Instance, NEW c \in Call, c # d, Deliver(m, c, i)
       PROVE  CallIsSound(d)'
  BY <1>0, <1>1, <1>14 DEF Deliver, Begin
<1>15. ASSUME \/ \E m \in Message : DeliverInVain(m) \/ \E i \in Instance : DeliverCopy(m, i)
              \/ \E m \in Message, facts \in EventFacts : Publish(m, facts)
              \/ \E o \in opening : OpenFromBus(o)
              \/ UNCHANGED vars
       PROVE  CallIsSound(d)'
  BY <1>1, <1>15 DEF DeliverCopy, DeliverInVain, Publish, OpenFromBus, vars
<1> HIDE DEF TypeOK
<1> QED
  BY <1>3, <1>4, <1>5, <1>6, <1>7, <1>8, <1>9, <1>10, <1>11, <1>12, <1>13, <1>14, <1>15
     DEF Next, Step, Request, Receive

----------------------------------------------------------------------------
(* The theorems.                                                           *)

\* OutcomeInv is inductive.
THEOREM OutcomeInvariant == Spec => []OutcomeInv
<1>1. Init => OutcomeInv
  <2> SUFFICES ASSUME Init
               PROVE  OutcomeInv
    OBVIOUS
  <2>1. Sound(Created)
    BY DEF Sound, Created, Judged
  <2>2. ASSUME NEW c \in Call
        PROVE  CallIsSound(c)
    <3>1. call[c] = Idle
      BY DEF Init
    <3> QED
      BY <2>1, <3>1 DEF CallIsSound, Idle
  <2> QED
    BY <2>1, <2>2, TypeInit DEF OutcomeInv, Init, CasesAreRecorded
<1>2. OutcomeInv /\ [Next]_vars => OutcomeInv'
  BY TypeStep, RowStep, CasesStep, CallStep DEF OutcomeInv
<1> QED
  BY <1>1, <1>2, PTL DEF Spec

\* The state of a contract is what its requirements add up to, whichever of the
\* copies in flight is stored last.
THEOREM StateAggregates == Spec => []StateIsAggregate
<1>1. OutcomeInv => StateIsAggregate
  BY DEF OutcomeInv, StateIsAggregate, Sound
<1> QED
  BY <1>1, OutcomeInvariant, PTL

\* No outcome is judged and no contract closed unpaid.
THEOREM JudgedPaid == Spec => []JudgedAfterPayment
<1>1. OutcomeInv => JudgedAfterPayment
  BY DEF OutcomeInv, JudgedAfterPayment, Sound
<1> QED
  BY <1>1, OutcomeInvariant, PTL

\* Every case has its recorded trigger, whichever instances are lost.
THEOREM CasesRecorded == Spec => []CasesAreRecorded
<1>1. OutcomeInv => CasesAreRecorded
  BY DEF OutcomeInv
<1> QED
  BY <1>1, OutcomeInvariant, PTL

\* An outcome that counts as satisfied has every requirement satisfied and was
\* paid for (INV_009: only verification satisfies an outcome).
THEOREM OnlyVerificationSatisfies ==
  Spec => [](row.state = "SATISFIED" =>
               row.begun /\ \A k \in Concept : row.req[k] = "SATISFIED")
<1>1. OutcomeInv => (row.state = "SATISFIED" =>
                      row.begun /\ \A k \in Concept : row.req[k] = "SATISFIED")
  <2> SUFFICES ASSUME OutcomeInv, row.state = "SATISFIED"
               PROVE  row.begun /\ \A k \in Concept : row.req[k] = "SATISFIED"
    OBVIOUS
  <2>1. row.req \in Result /\ row.begun /\ Aggregate(row.req) = "SATISFIED"
    BY DEF OutcomeInv, TypeOK, Contract, Result, Sound, Judged
  <2> QED
    BY <2>1, AggregateIsWorst
<1> QED
  BY <1>1, OutcomeInvariant, PTL
=============================================================================
