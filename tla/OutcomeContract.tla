-------------------------- MODULE OutcomeContract ---------------------------
(***************************************************************************)
(* The life of one outcome contract                                        *)
(*   (services/outcome-service/src/service.ts; its callers in              *)
(*    services/resolution-service/src: outcome-internal-routes.ts,         *)
(*    event-handler.ts; packages/cloud-pubsub/src/in-memory-bus.ts).       *)
(*                                                                         *)
(* Payments, evaluations and closings each read the stored contract, go    *)
(* on from what they read, and store the contract whole; nothing compares  *)
(* versions, so calls that overlap overwrite one another.  An evaluation   *)
(* asked for over HTTP opens the resolution case from the in-process bus,  *)
(* which nobody waits for; one delivered by Pub/Sub also opens it before   *)
(* it acknowledges; it is delivered again until it does or its attempts    *)
(* are used up (dead_letter_policy in infrastructure/terraform/modules/    *)
(* runtime/main.tf; nothing reads the dead letters).                       *)
(*                                                                         *)
(* Opening a case is one step here; ResolutionCase has its details.        *)
(* A call holds its facts evaluated: evaluatePredicate reads nothing else. *)
(***************************************************************************)
EXTENDS OutcomeRules

CONSTANTS
  Instance,     \* instances of the service
  Call,         \* calls under way at a time
  Message,      \* evidence events published to Pub/Sub
  EventFacts,   \* the snapshots an event may carry
  ClaimSets,    \* the accepted claims a request may name
  MaxDeliveries, \* max_delivery_attempts of a message
  MaxRequests,  \* bound on requests over HTTP
  MaxCrashes    \* bound on instances lost

ASSUME OutcomeAssumption ==
  /\ None \notin Instance \cup Message
  /\ EventFacts \subseteq Facts
  /\ ClaimSets \subseteq Claims
  /\ MaxDeliveries \in Nat
  /\ MaxRequests \in Nat
  /\ MaxCrashes \in Nat

VARIABLES
  row,       \* outcomeContracts: the stored contract
  events,    \* outcomeEvents: the triggers recorded
  cases,     \* the triggers a resolution case was opened for
  local,     \* per instance: the cases in its map
  handled,   \* per instance: the messages its bus has handled
  opening,   \* cases the in-process bus is opening
  topic,     \* the evidence messages
  call,      \* the calls
  requests,
  crashes,
  cut,       \* a crash interrupted an evaluation asked for over HTTP
  torn       \* the messages whose evaluation a crash interrupted

vars == <<row, events, cases, local, handled, opening, topic, call,
          requests, crashes, cut, torn>>

-----------------------------------------------------------------------------
Result == [Concept -> ReqState]

Kind == {"payment", "evaluate", "event", "close"}
PC == {"idle", "load", "pay", "store", "emit", "open", "closing", "closed"}
Calls == [pc : PC, at : Instance \cup {None}, kind : Kind, message : Message \cup {None},
          claims : Claims, seen : Contract, result : Result, status : Payment]
NoClaims == [received |-> {}, alias |-> {}]
Idle == [pc |-> "idle", at |-> None, kind |-> "payment", message |-> None,
         claims |-> NoClaims, seen |-> Created, result |-> Created.req, status |-> "PENDING"]

\* A case the bus is opening: where, and whether a request caused it.
Opening == [trigger : Trigger, at : Instance, http : BOOLEAN]

Messages == [status : {"unpublished", "pending", "acked"}, result : Result, attempts : Nat]

TypeOK ==
  /\ row \in Contract
  /\ events \subseteq Trigger
  /\ cases \subseteq Trigger
  /\ local \in [Instance -> SUBSET Trigger]
  /\ handled \in [Instance -> SUBSET Message]
  /\ opening \subseteq Opening
  /\ topic \in [Message -> Messages]
  /\ call \in [Call -> Calls]
  /\ requests \in Nat
  /\ crashes \in Nat
  /\ cut \in BOOLEAN
  /\ torn \subseteq Message

Init ==
  /\ row = Created
  /\ events = {}
  /\ cases = {}
  /\ local = [i \in Instance |-> {}]
  /\ handled = [i \in Instance |-> {}]
  /\ opening = {}
  /\ topic = [m \in Message |-> [status |-> "unpublished", result |-> Created.req, attempts |-> 0]]
  /\ call = [c \in Call |-> Idle]
  /\ requests = 0
  /\ crashes = 0
  /\ cut = FALSE
  /\ torn = {}

-----------------------------------------------------------------------------
(* Calls.                                                                  *)

Arriving == requests < MaxRequests /\ requests' = requests + 1
Begin(c, begun) == call[c].pc = "idle" /\ call' = [call EXCEPT ![c] = begun]
End(c) == call' = [call EXCEPT ![c] = Idle]

\* onPaymentSuccess, onPaymentUnknown, onPaymentFailed: a repetition and a
\* refusal change nothing.
LoadPayment(c, i, status) ==
  /\ Arriving
  /\ row.payment # status
  /\ ~Refused(row, status)
  /\ Begin(c, [Idle EXCEPT !.pc = "pay", !.at = i, !.seen = row, !.status = status])
  /\ UNCHANGED <<row, events, cases, local, handled, opening, topic, crashes, cut, torn>>

StorePayment(c) ==
  /\ call[c].pc = "pay"
  /\ row' = ApplyPayment(call[c].seen, call[c].status)
  /\ End(c)
  /\ UNCHANGED <<events, cases, local, handled, opening, topic, requests, crashes, cut, torn>>

\* POST evaluate-evidence: the facts come from the claims and from the
\* contract as it is when the request arrives.
EvaluateEvidence(c, i, claims) ==
  /\ Arriving
  /\ Begin(c, [Idle EXCEPT !.pc = "load", !.at = i, !.kind = "evaluate", !.claims = claims,
                           !.result = EvaluateAll(Derive(claims, row.payment))])
  /\ UNCHANGED <<row, events, cases, local, handled, opening, topic, crashes, cut, torn>>

Publish(m, facts) ==
  /\ topic[m].status = "unpublished"
  /\ topic' = [topic EXCEPT ![m].status = "pending", ![m].result = EvaluateAll(facts)]
  /\ UNCHANGED <<row, events, cases, local, handled, opening, call, requests, crashes, cut, torn>>

\* A message is delivered again until it is acknowledged or dead-lettered.
MayDeliver(m) == topic[m].status = "pending" /\ topic[m].attempts < MaxDeliveries
Attempted(m) == [topic EXCEPT ![m].attempts = @ + 1]
Acknowledge(m) == topic' = [topic EXCEPT ![m].status = "acked"]

\* The push endpoint hands a message to handleEvidenceEvent; a copy that
\* the instance has handled is acknowledged at once.
Deliver(m, c, i) ==
  /\ MayDeliver(m)
  /\ m \notin handled[i]
  /\ Begin(c, [Idle EXCEPT !.pc = "load", !.at = i, !.kind = "event", !.message = m,
                           !.result = topic[m].result])
  /\ topic' = Attempted(m)
  /\ UNCHANGED <<row, events, cases, local, handled, opening, requests, crashes, cut, torn>>

DeliverCopy(m, i) ==
  /\ MayDeliver(m)
  /\ m \in handled[i]
  /\ Acknowledge(m)
  /\ UNCHANGED <<row, events, cases, local, handled, opening, call, requests, crashes, cut, torn>>

\* No instance answers.
DeliverInVain(m) ==
  /\ MayDeliver(m)
  /\ topic' = Attempted(m)
  /\ UNCHANGED <<row, events, cases, local, handled, opening, call, requests, crashes, cut, torn>>

\* Fault: the move is not checked.
LoadUngated(c) ==
  /\ call[c].pc = "load"
  /\ call' = [call EXCEPT ![c].pc = "store", ![c].seen = row]
  /\ UNCHANGED <<row, events, cases, local, handled, opening, topic, requests, crashes, cut, torn>>

\* applyObservations up to its write: the contract is read again, every
\* requirement takes the state the facts give it, and an illegal move ends
\* the call with an error (a message stays pending).
Load(c) ==
  /\ call[c].pc = "load"
  /\ call' = [call EXCEPT ![c] =
       IF MayMove(row.state, Aggregate(@.result))
       THEN [@ EXCEPT !.pc = "store", !.seen = row] ELSE Idle]
  /\ UNCHANGED <<row, events, cases, local, handled, opening, topic, requests, crashes, cut, torn>>

Evaluated(c) == [call[c].seen EXCEPT !.req = call[c].result,
                                     !.state = Aggregate(call[c].result)]

Store(c) ==
  /\ call[c].pc = "store"
  /\ row' = Evaluated(c)
  /\ call' = [call EXCEPT ![c].pc = "emit", ![c].seen = Evaluated(c)]
  /\ UNCHANGED <<events, cases, local, handled, opening, topic, requests, crashes, cut, torn>>

\* A message is handled; the acknowledgement may be lost on its way.
Finish(c) ==
  /\ End(c)
  /\ IF call[c].kind = "event"
     THEN /\ Acknowledge(call[c].message) \/ UNCHANGED topic
          /\ handled' = [handled EXCEPT ![call[c].at] = @ \cup {call[c].message}]
     ELSE UNCHANGED <<topic, handled>>

\* Fault: the trigger is not recorded.
EmitUnrecorded(c) ==
  /\ call[c].pc = "emit"
  /\ call[c].seen.state \in TriggerKinds
  /\ opening' = opening \cup {[trigger |-> TriggerOf(call[c].seen), at |-> call[c].at,
                               http |-> call[c].kind = "evaluate"]}
  /\ Finish(c)
  /\ UNCHANGED <<row, events, cases, local, requests, crashes, cut, torn>>

\* Fault: a message is acknowledged once its trigger is out.
EmitAndFinish(c) ==
  /\ call[c].pc = "emit"
  /\ call[c].seen.state \in TriggerKinds
  /\ events' = events \cup {TriggerOf(call[c].seen)}
  /\ opening' = IF TriggerOf(call[c].seen) \in events THEN opening
                ELSE opening \cup {[trigger |-> TriggerOf(call[c].seen), at |-> call[c].at,
                                    http |-> call[c].kind = "evaluate"]}
  /\ Finish(c)
  /\ UNCHANGED <<row, cases, local, requests, crashes, cut, torn>>

\* emitPhase9Triggers and publishEvent: a trigger recorded for the first
\* time goes to the bus, whose subscriber opens the case on its own.
Emit(c) ==
  LET trigger == TriggerOf(call[c].seen)
  IN  /\ call[c].pc = "emit"
      /\ call[c].seen.state \in TriggerKinds
      /\ events' = events \cup {trigger}
      /\ opening' = IF trigger \in events THEN opening
                    ELSE opening \cup {[trigger |-> trigger, at |-> call[c].at,
                                        http |-> call[c].kind = "evaluate"]}
      /\ IF call[c].kind = "event"
         THEN call' = [call EXCEPT ![c].pc = "open"] ELSE End(c)
      /\ UNCHANGED <<row, cases, local, handled, topic, requests, crashes, cut, torn>>

\* No trigger: the evaluation ends, a message is acknowledged.
EmitNothing(c) ==
  /\ call[c].pc = "emit"
  /\ call[c].seen.state \notin TriggerKinds
  /\ Finish(c)
  /\ UNCHANGED <<row, events, cases, local, opening, requests, crashes, cut, torn>>

Open(trigger, i) ==
  /\ cases' = cases \cup {trigger}
  /\ local' = [local EXCEPT ![i] = @ \cup {trigger}]

\* openResolutionIfTriggered, before the message is acknowledged.
OpenCase(c) ==
  /\ call[c].pc = "open"
  /\ Open(TriggerOf(call[c].seen), call[c].at)
  /\ Finish(c)
  /\ UNCHANGED <<row, events, opening, requests, crashes, cut, torn>>

\* ResolutionService.onOutcomeEvent.
OpenFromBus(o) ==
  /\ o \in opening
  /\ Open(o.trigger, o.at)
  /\ opening' = opening \ {o}
  /\ UNCHANGED <<row, events, handled, topic, call, requests, crashes, cut, torn>>

\* POST close: a satisfied contract is not closed while this instance
\* knows of a case.
Close(c, i) ==
  /\ Arriving
  /\ row.state = "SATISFIED" => local[i] = {}
  /\ Begin(c, [Idle EXCEPT !.pc = "closing", !.at = i, !.kind = "close"])
  /\ UNCHANGED <<row, events, cases, local, handled, opening, topic, crashes, cut, torn>>

\* closeContract reads again, and writes what it read as CLOSED.
LoadClosing(c) ==
  /\ call[c].pc = "closing"
  /\ call' = [call EXCEPT ![c] =
       IF "CLOSED" \in Allowed[row.state]
       THEN [@ EXCEPT !.pc = "closed", !.seen = row] ELSE Idle]
  /\ UNCHANGED <<row, events, cases, local, handled, opening, topic, requests, crashes, cut, torn>>

StoreClosed(c) ==
  /\ call[c].pc = "closed"
  /\ row' = [call[c].seen EXCEPT !.state = "CLOSED"]
  /\ End(c)
  /\ UNCHANGED <<events, cases, local, handled, opening, topic, requests, crashes, cut, torn>>

-----------------------------------------------------------------------------
(* An instance is lost with its calls, its maps and what its bus had to    *)
(* do.  A request is not repeated by anyone, a message as long as it has   *)
(* attempts left.                                                          *)

Stored(c, i, kind) ==
  call[c].at = i /\ call[c].kind = kind /\ call[c].pc \in {"emit", "open"}
Interrupted(i) ==
  \/ \E c \in Call : Stored(c, i, "evaluate")
  \/ \E o \in opening : o.at = i /\ o.http /\ o.trigger \notin cases

Crash(i) ==
  /\ crashes < MaxCrashes
  /\ crashes' = crashes + 1
  /\ cut' = (cut \/ Interrupted(i))
  /\ torn' = torn \cup {call[c].message : c \in {d \in Call : Stored(d, i, "event")}}
  /\ call' = [c \in Call |-> IF call[c].at = i THEN Idle ELSE call[c]]
  /\ opening' = {o \in opening : o.at # i}
  /\ local' = [local EXCEPT ![i] = {}]
  /\ handled' = [handled EXCEPT ![i] = {}]
  /\ UNCHANGED <<row, events, cases, topic, requests>>

-----------------------------------------------------------------------------
Step(c) ==
  \/ StorePayment(c) \/ Load(c) \/ Store(c) \/ Emit(c) \/ EmitNothing(c) \/ OpenCase(c)
  \/ LoadClosing(c) \/ StoreClosed(c)

Receive(m) == \E i \in Instance : DeliverCopy(m, i) \/ \E c \in Call : Deliver(m, c, i)

Request(c) ==
  \E i \in Instance :
    \/ \E status \in Payment \ {"PENDING"} : LoadPayment(c, i, status)
    \/ \E claims \in ClaimSets : EvaluateEvidence(c, i, claims)
    \/ Close(c, i)

Next ==
  \/ \E c \in Call : Step(c) \/ Request(c)
  \/ \E m \in Message : Receive(m) \/ DeliverInVain(m) \/ \E facts \in EventFacts : Publish(m, facts)
  \/ \E o \in opening : OpenFromBus(o)
  \/ \E i \in Instance : Crash(i)

Spec == Init /\ [][Next]_vars

\* A call and the bus go on while their instance lives; Pub/Sub goes on
\* delivering a message that has attempts left.
FairSpec ==
  /\ Spec
  /\ \A c \in Call : WF_vars(Step(c))
  /\ WF_vars(\E o \in opening : OpenFromBus(o))
  /\ \A m \in Message : WF_vars(Receive(m))

-----------------------------------------------------------------------------
(* Properties.                                                             *)

\* All has its type, and the state of a contract is the one its requirements
\* add up to, however payments, evaluations and closings overwrite one another:
\* a contract is never SATISFIED with a requirement open or BREACHED with none
\* broken (INV_009: only verification satisfies an outcome).
StateIsAggregate ==
  /\ TypeOK
  /\ row.state \in Judged => row.state = Aggregate(row.req)

\* No outcome is judged, and no contract closed, before a payment has
\* succeeded: applyObservations relies on the legal moves for it, and a
\* copy read earlier may be written back later.
JudgedAfterPayment == row.state \in Judged \cup {"CLOSED"} => row.begun

\* A case is opened only for a trigger that is recorded, by an event or a
\* request, also when its instance was lost in between (publishEvent comes
\* before the bus and before openResolutionIfTriggered).
CasesAreRecorded ==
  /\ cases \subseteq events
  /\ \A i \in Instance : local[i] \subseteq cases

\* What a contract says of itself, stored or in a caller's hand: its state is the
\* sum of its requirements, and it waits for an outcome only once paid for.
Sound(contract) ==
  /\ contract.state \in Judged => contract.state = Aggregate(contract.req)
  /\ contract.state \in Judged \cup {"AWAITING_OUTCOME", "CLOSED"} => contract.begun

\* What a call has checked of its copy before it writes it back.
CallIsSound(c) ==
  /\ call[c].pc # "idle" => call[c].at \in Instance
  /\ call[c].kind = "event" => call[c].message \in Message
  /\ Sound(call[c].seen)
  /\ call[c].pc = "store" => MayMove(call[c].seen.state, Aggregate(call[c].result))
  /\ call[c].pc = "closed" => "CLOSED" \in Allowed[call[c].seen.state]
  /\ call[c].pc = "open" => /\ call[c].seen.state \in TriggerKinds
                            /\ TriggerOf(call[c].seen) \in events

\* The inductive invariant: the properties above, of the copies as of the row, and
\* that the bus opens cases for recorded triggers only.
OutcomeInv ==
  /\ TypeOK
  /\ Sound(row)
  /\ CasesAreRecorded
  /\ \A o \in opening : o.trigger \in events
  /\ \A c \in Call : CallIsSound(c)

\* A contract does not stay in a state that calls for a resolution without
\* its case being opened: a lost instance is made up for by redelivery
\* (openResolutionIfTriggered comes before the acknowledgement).  Two losses
\* are for good: an HTTP evaluation that was cut off, which nobody repeats,
\* and a message whose evaluation was torn and whose attempts are used up.
GivenUp(m) == topic[m].status = "pending" /\ topic[m].attempts = MaxDeliveries
TriggersReachCases ==
  []<>(\/ cut
       \/ \E m \in torn : GivenUp(m)
       \/ row.state \notin TriggerKinds
       \/ TriggerOf(row) \in cases)

=============================================================================
