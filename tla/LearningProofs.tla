--------------------------- MODULE LearningProofs ---------------------------
(***************************************************************************)
(* Theorems about LearningMemory, for every set of proposals and handlers; *)
(* then about the rules of DecisionRules under any memory, for any number  *)
(* of constraints and judges, all scopes, all amounts and all that judges  *)
(* may say.                                                                *)
(***************************************************************************)
EXTENDS LearnedDecisions, TLAPS

----------------------------------------------------------------------------
(* Types.                                                                  *)

\* Every proposal belongs to a topic.
LEMMA TopicsAreTopics ==
  ASSUME NEW p \in Proposal
  PROVE  TopicOf(p) \in Topic
BY LearningAssumption DEF TopicOf, Topic, ProposalKind

\* A new record can be told from a missing one.
LEMMA RecordsAreThere ==
  /\ Active \in Record /\ Active # Missing
  /\ \A e \in Proposal : [status |-> "SUPERSEDED", by |-> e] \in Record
  /\ \A e \in Proposal \cup {NoProposal} : [status |-> "SUPERSEDED", by |-> e] # Missing
BY DEF Active, Record, Missing

\* The types hold in the beginning.
LEMMA TypeInit == Init => TypeOK
BY LearningAssumption DEF Init, TypeOK, Missing, Record, Topic, Calls, PC, Idle

\* What a handler under way is about.
LEMMA AboutTypes ==
  ASSUME TypeOK, NEW c \in Proc, ~At(c, "idle")
  PROVE  About(c) \in Proposal
BY DEF TypeOK, Calls, At, About

\* The types of the calls.
CallTypes ==
  /\ call \in [Proc -> Calls]
  /\ \A c \in Proc : call[c].pc # "idle" => call[c].about # NoProposal

\* A handler that goes on keeps them.
LEMMA GoesTypes ==
  ASSUME CallTypes, NEW c \in Proc, NEW pc \in PC, ~At(c, "idle"), Goes(c, pc)
  PROVE  CallTypes'
<1>1. call' \in [Proc -> Calls]
  BY DEF CallTypes, Calls, Goes
<1>2. \A d \in Proc : call'[d].about = call[d].about
                    /\ (d # c => call'[d].pc = call[d].pc)
  BY DEF CallTypes, Calls, Goes
<1> QED
  BY <1>1, <1>2 DEF CallTypes, At

\* So does one that ends.
LEMMA EndsTypes ==
  ASSUME CallTypes, NEW c \in Proc, Ends(c)
  PROVE  CallTypes'
<1>1. Idle \in Calls /\ Idle.pc = "idle"
  BY DEF Idle, Calls, PC
<1> QED
  BY <1>1 DEF CallTypes, Ends

\* Every step keeps the types.
LEMMA TypeStep ==
  ASSUME TypeOK, [Next]_vars
  PROVE  TypeOK'
<1>0. CallTypes
  BY DEF TypeOK, CallTypes
<1> USE <1>0 DEF TypeOK
<1>1. ASSUME NEW p \in Proposal, Create(p)
      PROVE  TypeOK'
  BY <1>1 DEF Create
<1>2. ASSUME NEW p \in Proposal, Expire(p)
      PROVE  TypeOK'
  BY <1>2 DEF Expire
<1>3. ASSUME NEW c \in Proc, NEW p \in Proposal, NEW want \in {"CONFIRMED", "REJECTED"},
             Load(c, p, want)
      PROVE  TypeOK'
  <2>1. call' \in [Proc -> Calls]
    BY <1>3 DEF Load, Calls, PC, Idle
  <2>2. \A d \in Proc : call'[d].pc # "idle" => call'[d].about # NoProposal
    BY <1>3, LearningAssumption DEF Load, Calls, Idle
  <2> QED
    BY <1>3, <2>1, <2>2 DEF Load, memory
<1>4. ASSUME NEW c \in Proc, PutExpired(c)
      PROVE  TypeOK'
  BY <1>4, AboutTypes, GoesTypes, EndsTypes DEF CallTypes, PutExpired, At
<1>5. ASSUME NEW c \in Proc, PutDecision(c)
      PROVE  TypeOK'
  <2>1. call[c].want \in {"CONFIRMED", "REJECTED"} /\ "event" \in PC /\ ~At(c, "idle")
    BY <1>5 DEF PutDecision, Calls, At, PC
  <2> QED
    BY <1>5, <2>1, AboutTypes, GoesTypes, EndsTypes DEF CallTypes, PutDecision
<1>6. ASSUME NEW c \in Proc, PutEvent(c)
      PROVE  TypeOK'
  BY <1>6, AboutTypes, GoesTypes, EndsTypes DEF CallTypes, PutEvent, At, PC
<1>7. ASSUME NEW c \in Proc, PutContext(c)
      PROVE  TypeOK'
  <2>1. ~At(c, "idle") /\ "read" \in PC /\ "tip" \in PC
    BY <1>7 DEF PutContext, At, PC
  <2> QED
    BY <1>7, <2>1, AboutTypes, GoesTypes, EndsTypes DEF CallTypes, PutContext
<1>8. ASSUME NEW c \in Proc, ReadTip(c)
      PROVE  TypeOK'
  <2>1. TopicOf(About(c)) \in Topic
    BY <1>8, AboutTypes, TopicsAreTopics DEF ReadTip, At
  <2> DEFINE seen == tip[TopicOf(About(c))]
  <2>2. call' \in [Proc -> Calls]
    <3>1. seen \in Proposal \cup {NoProposal}
      BY <2>1
    <3>2. call' = [call EXCEPT ![c] = [call[c] EXCEPT !.existing = seen, !.pc = "incoming"]]
      BY <1>8 DEF ReadTip
    <3> HIDE DEF seen
    <3>3. call[c] \in Calls
      OBVIOUS
    <3>4. [call[c] EXCEPT !.existing = seen, !.pc = "incoming"] \in Calls
      BY <3>1, <3>3 DEF Calls, PC
    <3> QED
      BY <3>2, <3>4
  <2>3. \A d \in Proc : call'[d].pc # "idle" => call'[d].about # NoProposal
    BY <1>8 DEF ReadTip, Calls, At
  <2> QED
    BY <1>8, <2>2, <2>3 DEF ReadTip, memory
<1>9. ASSUME NEW c \in Proc, PutIncoming(c)
      PROVE  TypeOK'
  <2>1. ~At(c, "idle") /\ call[c].existing \in Proposal \cup {NoProposal}
        /\ {"previous", "tip", "index"} \subseteq PC
    BY <1>9 DEF PutIncoming, At, Calls, PC
  <2>2. ~Activates(About(c), call[c].existing) => call[c].existing # NoProposal
    BY DEF Activates
  <2>3. record' \in [Proposal -> Record \cup {Missing}]
    <3> DEFINE new == IF Activates(About(c), call[c].existing) THEN Active
                      ELSE [status |-> "SUPERSEDED", by |-> call[c].existing]
    <3>1. new \in Record
      BY <2>1, <2>2, RecordsAreThere
    <3>2. record' = [record EXCEPT ![About(c)] = new]
      BY <1>9 DEF PutIncoming
    <3> HIDE DEF new
    <3> QED
      BY <3>1, <3>2
  <2>4. PICK pc \in {"previous", "tip", "index"} : Goes(c, pc)
    BY <1>9 DEF PutIncoming
  <2> QED
    BY <1>9, <2>1, <2>3, <2>4, AboutTypes, GoesTypes, EndsTypes DEF CallTypes, PutIncoming
<1>10. ASSUME NEW c \in Proc, PutPrevious(c)
       PROVE  TypeOK'
  <2>1. ~At(c, "idle") /\ "tip" \in PC
    BY <1>10 DEF PutPrevious, At, PC
  <2>2. record' \in [Proposal -> Record \cup {Missing}]
    BY <1>10, <2>1, AboutTypes, RecordsAreThere DEF PutPrevious
  <2> QED
    BY <1>10, <2>1, <2>2, AboutTypes, GoesTypes, EndsTypes DEF CallTypes, PutPrevious
<1>11. ASSUME NEW c \in Proc, PutTip(c)
       PROVE  TypeOK'
  <2>1. ~At(c, "idle") /\ "index" \in PC
    BY <1>11 DEF PutTip, At, PC
  <2>2. tip' \in [Topic -> Proposal \cup {NoProposal}]
    BY <1>11, <2>1, AboutTypes, GoesTypes, EndsTypes DEF CallTypes, PutTip
  <2> QED
    BY <1>11, <2>1, <2>2, AboutTypes, GoesTypes, EndsTypes DEF CallTypes, PutTip
<1>12. ASSUME NEW c \in Proc, ReadIndex(c)
       PROVE  TypeOK'
  <2>1. /\ call' \in [Proc -> Calls]
        /\ \A d \in Proc : call'[d].pc # "idle" => call'[d].about # NoProposal
    <3>1. CASE About(c) \in index
      BY <1>12, <3>1, AboutTypes, GoesTypes, EndsTypes DEF CallTypes, ReadIndex
    <3>2. CASE About(c) \notin index
      BY <1>12, <3>2 DEF ReadIndex, Calls, PC, At
    <3> QED
      BY <3>1, <3>2
  <2> QED
    BY <1>12, <2>1, AboutTypes, GoesTypes, EndsTypes DEF CallTypes, ReadIndex, memory
<1>13. ASSUME NEW c \in Proc, PutIndex(c)
       PROVE  TypeOK'
  <2>1. call[c].ids \subseteq Proposal
    BY DEF Calls
  <2> QED
    BY <1>13, <2>1, AboutTypes, GoesTypes, EndsTypes DEF CallTypes, PutIndex, At
<1>14. ASSUME NEW c \in Proc, Crash(c)
       PROVE  TypeOK'
  <2>1. crashes' \in 0..MaxCrashes
    BY <1>14, LearningAssumption DEF Crash
  <2> QED
    BY <1>14, <2>1, AboutTypes, GoesTypes, EndsTypes DEF CallTypes, Crash, memory
<1>15. ASSUME UNCHANGED vars
       PROVE  TypeOK'
  BY <1>15 DEF vars, memory
<1> QED
  BY <1>1, <1>2, <1>3, <1>4, <1>5, <1>6, <1>7, <1>8, <1>9, <1>10, <1>11, <1>12, <1>13,
     <1>14, <1>15 DEF Next, Handle

\* The types hold in every behaviour.
THEOREM TypeInvariant == Spec => []TypeOK
<1>1. TypeOK /\ [Next]_vars => TypeOK'
  BY TypeStep
<1> QED
  BY TypeInit, <1>1, PTL DEF Spec

----------------------------------------------------------------------------
(* What is in force.                                                       *)

\* What never goes: an event, a learned context, a record.
Stays ==
  /\ confirmed \subseteq confirmed'
  /\ context \subseteq context'
  /\ \A p \in Proposal : record[p] # Missing => record'[p] # Missing

\* A handler that does not move keeps what it has left behind.
LEMMA LeavesStay ==
  ASSUME TypeOK, Stays, NEW c \in Proc, CallLeaves(c), call'[c] = call[c]
  PROVE  CallLeaves(c)'
<1>1. call[c].pc # "idle" => call[c].about \in Proposal
  BY DEF TypeOK, Calls
<1>2. call[c].existing \in Proposal \cup {NoProposal}
  BY DEF TypeOK, Calls
<1>3. About(c)' = About(c)
  BY DEF About
<1>4. (TopicOf(About(c)) \in {"preference", "rule"})'
        <=> TopicOf(About(c)) \in {"preference", "rule"}
  BY <1>3 DEF TopicOf
<1>5. Activates(About(c), call[c].existing)' <=> Activates(About(c), call[c].existing)
  BY <1>3 DEF Activates
<1> QED
  BY <1>1, <1>2, <1>3, <1>4, <1>5 DEF CallLeaves, Stays, At, About

\* The invariant holds in the beginning.
LEMMA LearningInit == Init => LearningInv
<1>1. Init => InForceWasConfirmed
  BY DEF Init, InForceWasConfirmed, Missing
<1>2. Init => \A c \in Proc : CallLeaves(c)
  BY DEF Init, CallLeaves, Idle, At, About
<1> QED
  BY TypeInit, <1>1, <1>2 DEF LearningInv

\* What is in force stays confirmed while tips and records stay.
LEMMA InForceStays ==
  ASSUME TypeOK, InForceWasConfirmed, Stays, tip' = tip,
         \A p \in Proposal : record'[p].by = record[p].by
                             \/ record'[p].by = NoProposal
                             \/ (record'[p].by \in Proposal
                                  /\ record'[record'[p].by] # Missing)
  PROVE  InForceWasConfirmed'
<1>1. \A t \in Topic : tip[t] # NoProposal => tip[t] \in Proposal
  BY DEF TypeOK
<1>2. \A p \in Proposal : record[p].by # NoProposal => record[p].by \in Proposal
  BY DEF TypeOK, Record, Missing
<1> QED
  BY <1>1, <1>2 DEF InForceWasConfirmed, Stays

\* The other handlers are left alone.
LEMMA OthersStay ==
  ASSUME TypeOK, LearningInv, Stays, NEW c \in Proc, CallLeaves(c)',
         \A d \in Proc \ {c} : call'[d] = call[d]
  PROVE  \A d \in Proc : CallLeaves(d)'
<1> SUFFICES ASSUME NEW d \in Proc, d # c
             PROVE  CallLeaves(d)'
  OBVIOUS
<1> QED
  BY LeavesStay DEF LearningInv

\* A handler that goes on or ends leaves the others alone.
LEMMA OneMoves ==
  ASSUME TypeOK, NEW c \in Proc
  PROVE  /\ \A pc \in PC : Goes(c, pc) =>
              /\ call'[c] = [call[c] EXCEPT !.pc = pc]
              /\ \A d \in Proc \ {c} : call'[d] = call[d]
         /\ Ends(c) =>
              /\ call'[c] = Idle
              /\ \A d \in Proc \ {c} : call'[d] = call[d]
BY DEF TypeOK, Goes, Ends

\* A handler that has ended has nothing to have left behind.
LEMMA IdleLeaves ==
  ASSUME NEW c \in Proc, call'[c] = Idle
  PROVE  CallLeaves(c)'
BY DEF CallLeaves, Idle, At, About

\* Every step keeps the invariant.
LEMMA LearningStep ==
  ASSUME LearningInv, [Next]_vars
  PROVE  LearningInv'
<1>0. TypeOK /\ TypeOK' /\ InForceWasConfirmed
  BY TypeStep DEF LearningInv
<1> SUFFICES InForceWasConfirmed' /\ \A c \in Proc : CallLeaves(c)'
  BY <1>0 DEF LearningInv
<1> USE <1>0
<1>1. ASSUME NEW p \in Proposal, Create(p) \/ Expire(p)
      PROVE  InForceWasConfirmed' /\ \A c \in Proc : CallLeaves(c)'
  <2>1. Stays /\ UNCHANGED <<record, tip, call>>
    BY <1>1 DEF Create, Expire, Stays
  <2> QED
    BY <2>1, InForceStays, LeavesStay DEF LearningInv
<1>2. ASSUME NEW c \in Proc, NEW p \in Proposal, NEW want \in {"CONFIRMED", "REJECTED"},
             Load(c, p, want)
      PROVE  InForceWasConfirmed' /\ \A d \in Proc : CallLeaves(d)'
  <2>1. Stays /\ UNCHANGED <<record, tip>> /\ \A d \in Proc \ {c} : call'[d] = call[d]
    BY <1>2 DEF Load, Stays, memory, TypeOK
  <2>2. call'[c].pc \in {"expire", "decide"} /\ call'[c].existing = NoProposal
    BY <1>2 DEF Load, TypeOK, Idle
  <2>3. CallLeaves(c)'
    BY <2>2 DEF CallLeaves, At
  <2> QED
    BY <2>1, <2>3, InForceStays, OthersStay
<1>3. ASSUME NEW c \in Proc, PutExpired(c) \/ PutDecision(c) \/ ReadIndex(c) \/ PutIndex(c)
                                \/ Crash(c)
      PROVE  InForceWasConfirmed' /\ \A d \in Proc : CallLeaves(d)'
  <2>1. Stays /\ UNCHANGED <<record, tip>>
    BY <1>3 DEF PutExpired, PutDecision, ReadIndex, PutIndex, Crash, Stays, memory
  <2>2. \A d \in Proc \ {c} : call'[d] = call[d]
    BY <1>3, OneMoves DEF PutExpired, PutDecision, ReadIndex, PutIndex, Crash, TypeOK, Goes
  <2>3. CallLeaves(c)'
    <3>1. CASE Ends(c)
      BY <3>1, OneMoves, IdleLeaves
    <3>2. CASE PutDecision(c) /\ Goes(c, "event")
      <4>1. /\ call'[c].pc = "event" /\ call[c].pc = "decide"
            /\ call'[c].existing = call[c].existing
        BY <3>2 DEF PutDecision, Goes, TypeOK, Calls, At
      <4>2. call'[c].existing = NoProposal
        BY <4>1 DEF LearningInv, CallLeaves
      <4> QED
        BY <4>1, <4>2 DEF CallLeaves, At
    <3>3. CASE ReadIndex(c) /\ ~Ends(c)
      <4>1. /\ call'[c].pc = "addindex" /\ call[c].pc = "index"
            /\ call'[c].existing = call[c].existing
            /\ call'[c].about = call[c].about
        BY <3>3 DEF ReadIndex, TypeOK, Calls, At
      <4>2. CallLeaves(c)
        BY DEF LearningInv
      <4>3. UNCHANGED <<confirmed, context, record>>
        BY <3>3 DEF ReadIndex, memory
      <4>4. (TopicOf(About(c)) \in {"preference", "rule"})'
              <=> TopicOf(About(c)) \in {"preference", "rule"}
        BY <4>1 DEF TopicOf, About
      <4> QED
        BY <4>1, <4>2, <4>3, <4>4 DEF CallLeaves, At, About
    <3> QED
      BY <1>3, <3>1, <3>2, <3>3 DEF PutExpired, PutDecision, PutIndex, Crash
  <2> QED
    BY <2>1, <2>2, <2>3, InForceStays, OthersStay
<1>4. ASSUME NEW c \in Proc, PutEvent(c) \/ PutContext(c) \/ ReadTip(c)
      PROVE  InForceWasConfirmed' /\ \A d \in Proc : CallLeaves(d)'
  <2>1. Stays /\ UNCHANGED <<record, tip>>
    BY <1>4 DEF PutEvent, PutContext, ReadTip, Stays, memory
  <2>2. \A d \in Proc \ {c} : call'[d] = call[d]
    BY <1>4 DEF PutEvent, PutContext, ReadTip, TypeOK, Goes
  <2>3. CallLeaves(c) /\ About(c) \in Proposal
    BY <1>4, AboutTypes DEF LearningInv, PutEvent, PutContext, ReadTip, At
  <2>4. call'[c].about = call[c].about
    BY <1>4 DEF PutEvent, PutContext, ReadTip, TypeOK, Goes, Calls
  <2>5. (TopicOf(About(c)) \in {"preference", "rule"})'
          <=> TopicOf(About(c)) \in {"preference", "rule"}
    BY <2>4 DEF TopicOf, About
  <2>6. CallLeaves(c)'
    <3>1. CASE PutEvent(c)
      <4>1. /\ call'[c].pc = "context" /\ call'[c].existing = call[c].existing
            /\ call[c].pc = "event" /\ About(c) \in confirmed'
        BY <3>1 DEF PutEvent, Goes, TypeOK, Calls, At
      <4> QED
        BY <2>1, <2>3, <2>4, <4>1 DEF CallLeaves, At, About
    <3>2. CASE PutContext(c)
      <4>1. /\ call'[c].pc = IF TopicOf(About(c)) \in {"preference", "rule"}
                             THEN "read" ELSE "tip"
            /\ call'[c].existing = call[c].existing
            /\ call[c].pc = "context"
            /\ About(c) \in context' /\ confirmed' = confirmed
        BY <3>2 DEF PutContext, Goes, TypeOK, Calls, At
      <4>2. call'[c].existing = NoProposal
        BY <2>3, <4>1 DEF CallLeaves
      <4>3. Activates(About(c), call[c].existing)'
        BY <4>2 DEF Activates
      <4> QED
        BY <2>1, <2>3, <2>4, <2>5, <4>1, <4>2, <4>3 DEF CallLeaves, At, About
    <3>3. CASE ReadTip(c)
      <4>1. /\ call'[c].pc = "incoming" /\ call[c].pc = "read"
            /\ call'[c].existing = tip[TopicOf(About(c))]
            /\ UNCHANGED <<confirmed, context>>
        BY <3>3 DEF ReadTip, TypeOK, Calls, At, memory
      <4>2. TopicOf(About(c)) \in {"preference", "rule"}
        BY <2>3, <4>1 DEF CallLeaves
      <4>3. call'[c].existing # NoProposal => record[call'[c].existing] # Missing
        BY <4>1, <4>2 DEF InForceWasConfirmed, Topic
      <4> QED
        BY <2>1, <2>3, <2>4, <2>5, <4>1, <4>2, <4>3 DEF CallLeaves, At, About
    <3> QED
      BY <1>4, <3>1, <3>2, <3>3
  <2> QED
    BY <2>1, <2>2, <2>6, InForceStays, OthersStay
<1>5. ASSUME NEW c \in Proc, PutIncoming(c)
      PROVE  InForceWasConfirmed' /\ \A d \in Proc : CallLeaves(d)'
  <2> DEFINE e == call[c].existing
             new == IF Activates(About(c), e) THEN Active
                    ELSE [status |-> "SUPERSEDED", by |-> e]
  <2>1. /\ record' = [record EXCEPT ![About(c)] = new]
        /\ UNCHANGED <<tip, confirmed, context>>
        /\ call[c].pc = "incoming" /\ About(c) \in Proposal
    BY <1>5, AboutTypes DEF PutIncoming, At
  <2>2. /\ CallLeaves(c)
        /\ e \in Proposal \cup {NoProposal}
        /\ e # NoProposal => record[e] # Missing
    BY DEF LearningInv, CallLeaves, TypeOK, Calls
  <2>3. new # Missing /\ (new.by = e \/ new.by = NoProposal)
    BY <2>2, RecordsAreThere DEF Active, Activates
  <2>4. PICK pc \in {"previous", "tip", "index"} :
             /\ Goes(c, pc)
             /\ pc = "previous" => e # NoProposal
             /\ pc # "index" => Activates(About(c), e)
    BY <1>5 DEF PutIncoming
  <2> HIDE DEF new
  <2>5. /\ record'[About(c)] = new
        /\ \A p \in Proposal \ {About(c)} : record'[p] = record[p]
    BY <2>1 DEF TypeOK
  <2>6. Stays
    BY <2>1, <2>3, <2>5 DEF Stays
  <2>7. /\ call'[c] = [call[c] EXCEPT !.pc = pc]
        /\ \A d \in Proc \ {c} : call'[d] = call[d]
    BY <2>4, OneMoves DEF PC
  <2>8. call'[c].about = call[c].about /\ call'[c].existing = e /\ call'[c].pc = pc
    BY <2>7 DEF TypeOK, Calls
  <2>9. (TopicOf(About(c)) \in {"preference", "rule"})'
          <=> TopicOf(About(c)) \in {"preference", "rule"}
    BY <2>8 DEF TopicOf, About
  <2>10. e # NoProposal => record'[e] # Missing
    BY <2>2, <2>6 DEF Stays
  <2>11. CallLeaves(c)'
    <3>1. record'[About(c)] # Missing
      BY <2>3, <2>5
    <3>2. Activates(About(c), call[c].existing)' <=> Activates(About(c), e)
      BY <2>8 DEF Activates, About
    <3> QED
      BY <2>1, <2>2, <2>4, <2>8, <2>9, <2>10, <3>1, <3>2 DEF CallLeaves, At, About
  <2>12. InForceWasConfirmed'
    BY <2>1, <2>2, <2>3, <2>5, <2>6, <2>10, InForceStays
  <2> QED
    BY <2>6, <2>7, <2>11, <2>12, OthersStay
<1>6. ASSUME NEW c \in Proc, PutPrevious(c)
      PROVE  InForceWasConfirmed' /\ \A d \in Proc : CallLeaves(d)'
  <2> DEFINE e == call[c].existing
             new == [status |-> "SUPERSEDED", by |-> About(c)]
  <2>1. /\ record' = [record EXCEPT ![e] = new]
        /\ UNCHANGED <<tip, confirmed, context>>
        /\ call[c].pc = "previous" /\ About(c) \in Proposal
        /\ Goes(c, "tip")
    BY <1>6, AboutTypes DEF PutPrevious, At
  <2>2. /\ CallLeaves(c)
        /\ e \in Proposal
        /\ record[e] # Missing
        /\ TopicOf(About(c)) \in {"preference", "rule"}
        /\ record[About(c)] # Missing
    BY <2>1 DEF LearningInv, CallLeaves, TypeOK, Calls, At
  <2>3. new # Missing /\ new.by = About(c)
    BY DEF Missing
  <2> HIDE DEF new
  <2>4. /\ record'[e] = new
        /\ \A p \in Proposal \ {e} : record'[p] = record[p]
    BY <2>1, <2>2 DEF TypeOK
  <2>5. Stays
    BY <2>1, <2>3, <2>4 DEF Stays
  <2>6. /\ call'[c] = [call[c] EXCEPT !.pc = "tip"]
        /\ \A d \in Proc \ {c} : call'[d] = call[d]
    BY <2>1, OneMoves DEF PC
  <2>7. call'[c].about = call[c].about /\ call'[c].existing = e /\ call'[c].pc = "tip"
    BY <2>6 DEF TypeOK, Calls
  <2>8. (TopicOf(About(c)) \in {"preference", "rule"})'
          <=> TopicOf(About(c)) \in {"preference", "rule"}
    BY <2>7 DEF TopicOf, About
  <2>9. record'[About(c)] # Missing /\ record'[e] # Missing
    BY <2>1, <2>2, <2>5 DEF Stays
  <2>10. CallLeaves(c)'
    <3>1. Activates(About(c), call[c].existing)' <=> Activates(About(c), e)
      BY <2>7 DEF Activates, About
    <3> QED
      BY <2>1, <2>2, <2>7, <2>8, <2>9, <3>1 DEF CallLeaves, At, About
  <2>11. InForceWasConfirmed'
    BY <2>1, <2>3, <2>4, <2>5, <2>9, InForceStays
  <2> QED
    BY <2>5, <2>6, <2>10, <2>11, OthersStay
<1>7. ASSUME NEW c \in Proc, PutTip(c)
      PROVE  InForceWasConfirmed' /\ \A d \in Proc : CallLeaves(d)'
  <2>1. /\ tip' = [tip EXCEPT ![TopicOf(About(c))] = About(c)]
        /\ UNCHANGED <<record, confirmed, context>>
        /\ call[c].pc = "tip" /\ About(c) \in Proposal
    BY <1>7, AboutTypes DEF PutTip, At
  <2>2. CallLeaves(c) /\ Stays
    BY <2>1 DEF LearningInv, Stays
  <2>3. TopicOf(About(c)) \in Topic
    BY <2>1, TopicsAreTopics
  <2>4. InForceWasConfirmed'
    BY <2>1, <2>2, <2>3 DEF InForceWasConfirmed, CallLeaves, TypeOK
  <2>5. \A d \in Proc \ {c} : call'[d] = call[d]
    BY <1>7, OneMoves DEF PutTip, PC
  <2>6. CallLeaves(c)'
    <3>1. CASE Ends(c)
      BY <3>1, OneMoves, IdleLeaves
    <3>2. CASE Goes(c, "index") /\ TopicOf(About(c)) = "preference"
      <4>1. /\ call'[c].pc = "index" /\ call'[c].existing = call[c].existing
            /\ call'[c].about = call[c].about
        BY <3>2 DEF Goes, TypeOK, Calls
      <4>2. (TopicOf(About(c)) \in {"preference", "rule"})'
              <=> TopicOf(About(c)) \in {"preference", "rule"}
        BY <4>1 DEF TopicOf, About
      <4> QED
        BY <2>1, <2>2, <3>2, <4>1, <4>2 DEF CallLeaves, At, About
    <3> QED
      BY <1>7, <3>1, <3>2 DEF PutTip
  <2> QED
    BY <2>2, <2>4, <2>5, <2>6, OthersStay
<1>8. ASSUME UNCHANGED vars
      PROVE  InForceWasConfirmed' /\ \A d \in Proc : CallLeaves(d)'
  <2>1. Stays /\ UNCHANGED <<record, tip, call>>
    BY <1>8 DEF vars, memory, Stays
  <2> QED
    BY <2>1, InForceStays, LeavesStay DEF LearningInv
<1> QED
  BY <1>1, <1>2, <1>3, <1>4, <1>5, <1>6, <1>7, <1>8 DEF Next, Handle

\* The invariant holds in every behaviour.
THEOREM LearningInvariant == Spec => []LearningInv
BY LearningInit, LearningStep, PTL DEF Spec

\* What is in force was confirmed, has its event, its context and its record,
\* wherever a handler was lost and however handlers met.
THEOREM InForce == Spec => []InForceWasConfirmed
<1>1. LearningInv => InForceWasConfirmed
  BY DEF LearningInv
<1> QED
  BY <1>1, LearningInvariant, PTL

\* A learned preference replaces only an explicit one that was not yet there
\* when its confirmation read the tip.
THEOREM ExplicitOutranks == Spec => ExplicitOutranksLearned
<1>1. ASSUME LearningInv, [Next]_vars, NEW c \in Proc,
             At(c, "tip"), call'[c] # call[c], KindOfProposal[About(c)] = "LEARNED",
             tip["preference"] # NoProposal,
             KindOfProposal[tip["preference"]] = "EXPLICIT"
      PROVE  call[c].existing # tip["preference"]
  <2>1. Activates(About(c), call[c].existing)
    BY <1>1 DEF LearningInv, CallLeaves, At
  <2> QED
    BY <1>1, <2>1 DEF Activates
<1>2. LearningInv /\ [Next]_vars => [ExplicitOutranksLearnedStep]_vars
  BY <1>1 DEF ExplicitOutranksLearnedStep
<1> QED
  BY <1>2, LearningInvariant, PTL DEF Spec, ExplicitOutranksLearned

----------------------------------------------------------------------------
(* Decisions.                                                              *)

\* The stricter of two decisions is a block if one of them is.
LEMMA CombineBlocks ==
  ASSUME NEW d \in Decision
  PROVE  Combine("BLOCK", d) = "BLOCK"
BY DEF Combine, Decision, Severity

\* It needs approval, or is a block, if one of them does.
LEMMA CombineHolds ==
  ASSUME NEW g \in {"REQUIRE_APPROVAL", "BLOCK"}, NEW d \in Decision
  PROVE  Combine(g, d) \in {"REQUIRE_APPROVAL", "BLOCK"}
BY DEF Combine, Decision, Severity

\* The decision that is composed is never weaker than either part.
LEMMA CombineIsStricter ==
  ASSUME NEW g \in Decision, NEW d \in Decision
  PROVE  /\ Combine(g, d) \in Decision
         /\ Severity[Combine(g, d)] >= Severity[g]
         /\ Severity[Combine(g, d)] >= Severity[d]
BY DEF Combine, Decision, Severity

\* What was learned never loosens a decision.
THEOREM AdaptiveOnlyTightens ==
  ASSUME NEW b \in Decision, NEW learned \in Learned
  PROVE  /\ Adaptive(b, learned) \in Decision
         /\ Severity[Adaptive(b, learned)] >= Severity[b]
<1>1. CASE b \in {"BLOCK", "REQUIRE_APPROVAL"}
  BY <1>1 DEF Adaptive, Decision, Severity
<1>2. CASE b = "ALLOW_WITH_MONITORING"
  BY <1>2 DEF Adaptive, Decision, Severity
<1>3. CASE b = "ALLOW"
  BY <1>3 DEF Adaptive, Decision, Severity
<1> QED
  BY <1>1, <1>2, <1>3 DEF Decision

\* A stricter scope never leads to a weaker decision in the end.
LEMMA OutcomeIsMonotone ==
  ASSUME NEW gate \in Decision, NEW learned \in Learned,
         NEW a \in Decision, NEW b \in Decision, Severity[a] <= Severity[b]
  PROVE  Severity[Outcome(gate, b, learned)] >= Severity[Outcome(gate, a, learned)]
<1> DEFINE x == Combine(gate, a)
           y == Combine(gate, b)
<1>1. x \in Decision /\ y \in Decision /\ Severity[x] <= Severity[y]
  BY DEF Combine, Decision, Severity
<1> HIDE DEF x, y
<1>2. learned.ruled \in BOOLEAN /\ learned.preferred \in BOOLEAN /\ learned.weak \in 0..2
  BY DEF Learned
<1>3. Severity[Adaptive(x, learned)] <= Severity[Adaptive(y, learned)]
  <2>1. CASE x = "ALLOW"
    BY <1>1, <1>2, <2>1 DEF Adaptive, Decision, Severity
  <2>2. CASE x = "ALLOW_WITH_MONITORING"
    BY <1>1, <1>2, <2>2 DEF Adaptive, Decision, Severity
  <2>3. CASE x \in {"REQUIRE_APPROVAL", "BLOCK"}
    BY <1>1, <2>3 DEF Adaptive, Decision, Severity
  <2> QED
    BY <1>1, <2>1, <2>2, <2>3 DEF Decision
<1>4. /\ Adaptive(x, learned) \in Decision /\ Adaptive(y, learned) \in Decision
      /\ \A d \in Decision : Severity[d] \in Nat
  BY <1>1, AdaptiveOnlyTightens DEF Decision, Severity
<1> QED
  BY <1>3, <1>4 DEF Outcome, x, y

----------------------------------------------------------------------------
(* The guardian.                                                           *)

\* What judges say is a set of classifications.
LEMMA SaidTypes ==
  ASSUME NEW results \in [Judge -> Result], NEW c \in Constraint
  PROVE  Said(results, c) \subseteq Classification
BY DEF Said, Result

\* A constraint that one answering judge contradicts is contradicted.
LEMMA WorstIsMerged ==
  ASSUME NEW results \in [Judge -> Result], NEW c \in Constraint, NEW j \in Judge,
         results[j].ok, "CONTRADICTED" \in results[j].said[c]
  PROVE  Merged(results, c) = "CONTRADICTED"
<1> DEFINE said == Said(results, c)
<1>1. said \subseteq Classification
  BY SaidTypes
<1>2. "CONTRADICTED" \in said
  BY DEF Said
<1>3. \A x \in Classification : x # "CONTRADICTED" => Rank[x] > Rank["CONTRADICTED"]
  BY DEF Classification, Rank
<1>4. \A x \in said : Rank["CONTRADICTED"] <= Rank[x]
  BY <1>1 DEF Classification, Rank
<1>5. \A x \in Classification : Rank[x] \in Nat
  BY DEF Classification, Rank
<1> HIDE DEF said
<1> DEFINE worst == CHOOSE x \in said : \A y \in said : Rank[x] <= Rank[y]
<1>6. worst \in said /\ \A y \in said : Rank[worst] <= Rank[y]
  BY <1>2, <1>4
<1> HIDE DEF worst
<1>7. worst = "CONTRADICTED"
  <2>1. worst \in Classification /\ Rank[worst] <= Rank["CONTRADICTED"]
    BY <1>1, <1>2, <1>6
  <2>2. "CONTRADICTED" \in Classification
    BY <1>1, <1>2
  <2> QED
    BY <2>1, <2>2, <1>3, <1>5
<1>8. Merged(results, c) = worst
  BY <1>2 DEF Merged, worst, said
<1> QED
  BY <1>7, <1>8

\* A status there always is.
LEMMA StatusTypes ==
  ASSUME NEW results, NEW high \in BOOLEAN
  PROVE  /\ Status(results, high) \in {"CRITICAL_FAILURE", "CONFLICTED", "UNCERTAIN", "CLEAR"}
         /\ Critical(results, high) => Status(results, high) = "CRITICAL_FAILURE"
         /\ Doubtful(results, high) => Status(results, high) # "CLEAR"
BY DEF Status

\* For every judgement: whatever was learned.
LEMMA ContradictionBlocks == ContradictedIsBlocked
<1> SUFFICES ASSUME NEW results \in Results, NEW high \in BOOLEAN,
                    NEW c \in Enforced, NEW j \in Judge,
                    results[j].ok, "CONTRADICTED" \in results[j].said[c],
                    NEW granted \in Decision, NEW learned \in Learned
             PROVE  Outcome(Gate(Status(results, high), high), granted, learned) = "BLOCK"
  BY DEF ContradictedIsBlocked, OnContradiction, ContradictedGates
<1>1. results \in [Judge -> Result] /\ c \in Constraint
  BY RulesAssumption DEF Enforced
<1>2. Critical(results, high)
  BY <1>1, WorstIsMerged DEF Critical
<1>3. Gate(Status(results, high), high) = "BLOCK"
  BY <1>2, StatusTypes DEF Gate
<1>4. Combine("BLOCK", granted) = "BLOCK"
  BY CombineBlocks
<1> QED
  BY <1>3, <1>4 DEF Outcome, Adaptive

\* What one answering judge contradicts is blocked, whatever else is said,
\* granted and learned: aggregateGuardianVerdict, applyGuardianSemanticGate,
\* combineAuthorityDecisions and composeAdaptiveAuthorityDecision in a row.
THEOREM Contradicted == Spec => []ContradictedIsBlocked
BY ContradictionBlocks, PTL

\* For every judgement: whatever was learned.
LEMMA SilenceAsks == UnjudgedNeedsApproval
<1> SUFFICES ASSUME NEW results \in Results,
                    \/ \E c \in Enforced : Said(results, c) = {}
                    \/ \E j \in Judge : ~results[j].ok,
                    NEW granted \in Decision, NEW learned \in Learned
             PROVE  Outcome(Gate(Status(results, TRUE), TRUE), granted, learned)
                      \in {"REQUIRE_APPROVAL", "BLOCK"}
  <2>1. \A gate \in UnjudgedGates, granted \in Decision, learned \in Learned :
          Outcome(gate, granted, learned) \in {"REQUIRE_APPROVAL", "BLOCK"}
    BY DEF UnjudgedGates
  <2> QED
    BY <2>1 DEF UnjudgedNeedsApproval, OnSilence
<1>1. Doubtful(results, TRUE)
  BY DEF Doubtful
<1>2. Status(results, TRUE) \in {"CRITICAL_FAILURE", "CONFLICTED", "UNCERTAIN"}
  BY <1>1, StatusTypes
<1>3. Gate(Status(results, TRUE), TRUE) \in {"REQUIRE_APPROVAL", "BLOCK"}
  BY <1>2 DEF Gate
<1> DEFINE b == Combine(Gate(Status(results, TRUE), TRUE), granted)
<1>4. b \in {"REQUIRE_APPROVAL", "BLOCK"}
  BY <1>3, CombineHolds
<1> HIDE DEF b
<1>5. Adaptive(b, learned) = b
  BY <1>4 DEF Adaptive
<1> QED
  BY <1>4, <1>5 DEF Outcome, b

\* Without every judge's answer, and without a word on each enforced
\* constraint, a high-consequence action waits for a human's approval.
THEOREM Unjudged == Spec => []UnjudgedNeedsApproval
BY SilenceAsks, PTL

----------------------------------------------------------------------------
(* Scopes.                                                                 *)

\* Severities are numbers, and a block is the most severe.
LEMMA SeverityRange ==
  /\ \A d \in Decision : Severity[d] \in Nat /\ Severity[d] <= Severity["BLOCK"]
  /\ \A d \in Decision : Severity[d] >= Severity["BLOCK"] => d = "BLOCK"
BY DEF Decision, Severity

\* A scope decides one of the four.
LEMMA ScopeDecisionTypes ==
  ASSUME NEW scope \in Scope, NEW request \in Request, NEW spent \in Nat
  PROVE  ScopeDecision(scope, request, spent) \in Decision
BY DEF ScopeDecision, Scope, Request, Optional, Decision

\* What the parent refuses for its amount, the child refuses too: for this
\* reason an amount must be capped on both sides or on neither.
LEMMA AmountNarrows ==
  ASSUME NEW parent \in Scope, NEW child \in Scope, ScopeSubset(child, parent),
         NEW request \in Request, NEW spent \in Nat
  PROVE  /\ OverAmount(parent, request) => OverAmount(child, request)
         /\ OverExposure(parent, request, spent) => OverExposure(child, request, spent)
<1>1. /\ parent.maxAmount \in Nat \cup {None} /\ child.maxAmount \in Nat \cup {None}
      /\ request.amount \in Nat \cup {None}
      /\ Capped(child.maxAmount, parent.maxAmount)
  BY DEF Scope, Request, Optional, ScopeSubset
<1> QED
  BY <1>1, RulesAssumption DEF Capped, OverAmount, OverExposure

\* What the parent refuses for its merchant, the child refuses too.
LEMMA MerchantNarrows ==
  ASSUME NEW parent \in Scope, NEW child \in Scope, ScopeSubset(child, parent),
         NEW request \in Request, WrongMerchant(parent, request)
  PROVE  WrongMerchant(child, request)
BY DEF Scope, Request, Optional, ScopeSubset, Listed, WrongMerchant

\* A scope decides no weaker than the one it is part of.
LEMMA SubsetNarrows ==
  ASSUME NEW parent \in Scope, NEW child \in Scope, ScopeSubset(child, parent),
         NEW request \in Request, NEW spent \in Nat
  PROVE  Severity[ScopeDecision(parent, request, spent)]
           <= Severity[ScopeDecision(child, request, spent)]
<1> DEFINE dp == ScopeDecision(parent, request, spent)
           dc == ScopeDecision(child, request, spent)
           cp == parent.caps[request.capability]
           cc == child.caps[request.capability]
<1>1. dp \in Decision /\ dc \in Decision
  BY ScopeDecisionTypes
<1>2. CASE dc = "BLOCK"
  BY <1>1, <1>2, SeverityRange
<1>3. CASE dc # "BLOCK"
  <2>1. /\ cc # None
        /\ ~OverAmount(child, request) /\ ~WrongMerchant(child, request)
        /\ ~OverExposure(child, request, spent)
        /\ dc = cc
    BY <1>3 DEF ScopeDecision
  <2>2. Permits(cc, cp) /\ cp \in {None} \cup Decision /\ cc \in Decision
    BY <2>1 DEF ScopeSubset, Request, Scope, Optional
  <2>3. cp # None
    <3>1. cp = None => Severity[cc] >= Severity["BLOCK"]
      BY <2>1, <2>2 DEF Permits
    <3> QED
      BY <1>3, <2>1, <2>2, <3>1, SeverityRange
  <2>4. dp = cp
    BY <2>1, <2>3, AmountNarrows, MerchantNarrows DEF ScopeDecision
  <2> QED
    BY <2>1, <2>2, <2>3, <2>4 DEF Permits
<1> QED
  BY <1>2, <1>3

\* For every pair of scopes: whatever was learned.
LEMMA DelegatedNarrows == DelegationNarrows
<1> SUFFICES ASSUME NEW parent \in Scopes, NEW child \in Scopes, ScopeSubset(child, parent),
                    NEW request \in Requests, NEW spent \in Exposures,
                    NEW gate \in Decision, NEW learned \in Learned
             PROVE  Severity[Outcome(gate, ScopeDecision(child, request, spent), learned)]
                      >= Severity[Outcome(gate, ScopeDecision(parent, request, spent), learned)]
  <2>1. \A granted \in DelegatedPairs, gate \in Decision, learned \in Learned :
          Severity[Outcome(gate, granted[2], learned)]
            >= Severity[Outcome(gate, granted[1], learned)]
    BY DEF DelegatedPairs
  <2> QED
    BY <2>1 DEF DelegationNarrows, OnDelegation
<1>1. parent \in Scope /\ child \in Scope /\ request \in Request /\ spent \in Nat
  BY RulesAssumption
<1>2. /\ ScopeDecision(parent, request, spent) \in Decision
      /\ ScopeDecision(child, request, spent) \in Decision
  BY <1>1, ScopeDecisionTypes
<1> QED
  BY <1>1, <1>2, SubsetNarrows, OutcomeIsMonotone

\* isCapabilityScopeSubset and evaluateAuthorityRequest agree: delegation
\* never makes a decision more permissive, whatever the memory holds.
THEOREM Delegation == Spec => []DelegationNarrows
BY DelegatedNarrows, PTL

\* Part of a part is a part, so that a chain of delegations narrows as well.
THEOREM DelegationChains ==
  ASSUME NEW a \in Scope, NEW b \in Scope, NEW c \in Scope,
         ScopeSubset(b, a), ScopeSubset(c, b)
  PROVE  ScopeSubset(c, a)
<1>1. ASSUME NEW k \in Capability
      PROVE  Permits(c.caps[k], a.caps[k])
  <2>1. /\ a.caps[k] \in {None} \cup Decision /\ b.caps[k] \in {None} \cup Decision
        /\ c.caps[k] \in {None} \cup Decision
        /\ Permits(b.caps[k], a.caps[k]) /\ Permits(c.caps[k], b.caps[k])
    BY DEF Scope, Optional, ScopeSubset
  <2> QED
    BY <2>1, SeverityRange DEF Permits, Decision
<1>2. Capped(c.maxAmount, a.maxAmount) /\ Capped(c.depth, a.depth)
  BY RulesAssumption DEF ScopeSubset, Capped, Scope, Optional
<1>3. NoLater(c.expiresAt, a.expiresAt)
  BY RulesAssumption DEF ScopeSubset, NoLater, Scope, Optional
<1>4. Listed(c.merchants, a.merchants) /\ a.denied \subseteq c.denied
  BY DEF ScopeSubset, Listed, Scope, Optional
<1> QED
  BY <1>1, <1>2, <1>3, <1>4 DEF ScopeSubset
=============================================================================
