# A TLA+ verification of TrueMandate's authorization runtime

TrueMandate lets AI agents spend money under a human's mandate. A human intent
becomes an intent state, agents plan an action, deterministic services evaluate
it, a human may have to approve it, the authority service mints a grant bound to
one prepared action, the gateway executes the action at most once through an
adapter, and an outcome contract is watched afterwards; a failed outcome opens a
resolution case whose remedies take the same privileged path again. All state is
in Firestore; services run in several Cloud Run instances.

This directory has the TLA+ models of that runtime, their TLC configurations and
the TLAPS proofs. Paths below are relative to the repository.

## 1. Inventory

| component | state | operations | what is hard |
|---|---|---|---|
| two-phase gateway (`services/gateway-service`) | none of its own; ten stores in Firestore | prepare, authorize, commit, reconcileUnknownExecution | a commit is some thirty awaits over stores that no transaction spans; concurrent and repeated calls, crashes, an adapter that may not know |
| economic stores (`packages/cloud-firestore`) | prepared actions, grants, commit tokens, nonces, idempotency, exposure ledger, economic reservations, side-effect ledger | each a transaction with a compare-and-set or an insert-if-absent, some unconditional writes | which refusals the callers look at |
| authority core and service (`packages/authority`, `services/authority-service`) | evaluations, grants, approval requests, monitoring contracts | evaluate, bind-and-mint, revoke, approvals, monitoring | gates read, then used later; rows written without a comparison |
| outcome contracts (`services/outcome-service`, `packages/outcome-core`) | contracts, criteria, events | create, transition, aggregate, publish | read-modify-write; the event row is stored before the event is published |
| resolution (`services/resolution-service`) | cases, proposals, mandates, mandate claims | open, propose, select, approve, execute a remedy, close | in-memory maps mirrored to the store, claims across restarts, writes that are not awaited |
| intent (`services/intent-service`) | intents, states, tip | create, new state, finalize, supersede | the tip is read, then set unconditionally |
| workflow engine (`services/agent-runtime`) | artifacts | run, pause for approval, resume, dispatch | reruns over half-written artifacts; retries |
| model concurrency (`packages/model`, `packages/cloud-firestore`) | slot leases | acquire, release | leases that end before their holder |
| learning (`services/learning-service`) | proposals, preferences, rules, trust signals, tips | propose, confirm, reject | a confirmation is some ten writes that nothing compares |
| decision rules (`guardian-core`, `authority`, `capability-subset`) | none | aggregate judges, decide, tighten, delegate | precedence and boundaries |
| evidence, provenance | append-only records | submit, verify, record | little interaction |
| agents, web, public API, analytics, benchmarks | - | - | prompts, presentation, telemetry and test harnesses: not modelled |

`PROJECT.json` lists every component with its status, and under `hazards` what in
this code is hard to test, at its line.

Interaction: `GenericWorkflowEngine` calls the authority service (evaluate, create
the approval, bind and mint), the outcome service (contract) and the gateway
(prepare, authorize); a human's decision resumes the workflow; COMMIT is a call of
its own. The gateway reads the tip of the intent, the grant and its provenance at
each phase. Outcome events escalate monitoring contracts, which gate later mints,
and open resolution cases, whose remedies go through the gateway with a second
exposure reservation in the group of the intent.

## 2. Plan

In order of importance, all written:

1. `TwoPhaseGateway`, refinement of `PaymentOnce`, proofs in `GatewayProofs`.
2. `ApprovalRequest`: request, decision, expiry, supersession, and the gates that
   read the approval before anything is minted; proofs in `ApprovalProofs`.
3. `MonitoringContract`: signals and outcome failures over an unconditional put,
   and the mint gate that reads it; proofs in `StoreProofs`.
4. `ResolutionCase`: a case, mandates that are issued again and their claims on
   several instances with maps of their own, one of which may be recycled; the promise
   of `PaymentOnce` seen from outside; proofs in `ResolutionProofs`.
5. `OutcomeContract` over the pure `OutcomeRules`: payments, evaluations, events
   delivered again, and the case that a trigger must open;
   proofs in `OutcomeProofs`.
6. `IntentStates`: finalization, policy ingress, semantic supersession, the tip;
   proofs in `StoreProofs`.
7. `WorkflowEngine`: the chain of artifacts, approval pause and resumption; proofs in
   `WorkflowProofs`.
8. `ModelCalls`: the slots' leases, the queue, attempts and stage budgets; proofs in
   `ModelCallsProofs`.
9. `LearningMemory`: confirmations and what they leave in force; proofs in
   `LearningProofs`.
10. `DecisionRules`: the guardian's aggregation, scopes, delegation, adaptation as
    pure operators; `LearnedDecisions`: decisions under the memory; proofs in
    `LearningProofs`.

Every safety property that a run checks is also proved. What remains is in section
6. The next pieces, in order: the verification of evidence and the index of proof
obligations; the monitoring indices with several contracts per workflow; the gateway
with two grants of one action as an instance of its own.

## 3. The modules and the code

| module | what it is |
|---|---|
| `TwoPhaseGateway` | the privileged path, one action per await |
| `PaymentOnce` | what the path promises for one execution key |
| `GatewayProperties` | the promises and the refinement mapping |
| `GatewayInvariant` | the inductive invariant `IInv`, with `BudgetInv` for the budget and `DoubtInv` for keys in doubt |
| `GatewayProofs` | theorems about the gateway |
| `ApprovalRequest` | the human approval and the resumption it unlocks, with its properties and the inductive invariants `SerialInv` and `LogKeepsUp` |
| `ApprovalProofs` | theorems about the approval |
| `MonitoringContract` | the monitoring contract and the mint gate, with its properties and the inductive invariant `MonitorInv` |
| `StoreProofs` | theorems about the monitoring contract and about the intent states: two stores behind handlers that read, compute and put |
| `ResolutionCase` | one case and its remedies, each with one mandate id, on several instances, with its properties and the inductive invariant `ResolutionInv` |
| `ResolutionProofs` | theorems about the case |
| `OutcomeRules` | predicates, aggregation and legal moves of an outcome contract |
| `OutcomeContract` | the life of a contract, extends `OutcomeRules`, with the inductive invariant `OutcomeInv` |
| `OutcomeProofs` | theorems about the contract and its rules |
| `IntentStates` | states and tip of one intent, with the inductive invariant `StatesInv` |
| `WorkflowEngine` | submissions and resumptions of one key, with its properties and the inductive invariant `WorkflowInv` |
| `WorkflowProofs` | theorems about the workflow |
| `ModelCalls` | stage budget, attempts, queue and leased slots, with the inductive invariant `ModelCallsInv` |
| `ModelCallsProofs` | theorems about the slots |
| `LearningMemory` | proposals and what their confirmation leaves, with the inductive invariant `LearningInv` |
| `LearningProofs` | theorems about the memory, and about the rules under any memory |
| `DecisionRules` | how an action is decided on, pure operators |
| `LearnedDecisions` | the memory and the rules together: what the authority loads of the memory, and the properties of what it decides |
| `MCGateway`, `MCApproval`, `MCMonitoring`, `MCResolution`, `MCOutcome`, `MCIntentStates`, `MCWorkflow`, `MCModelCalls`, `MCLearning` | constants of the small instances; `MCLearning` also holds those of `DecisionRules` |

A definition whose comment begins with "Fault:" is not part of a specification. It
is a plausible bug of the definition next to it, kept to show that a property
notices it (`mutants` in `PROJECT.json`).

### 3.1 TwoPhaseGateway

A *call* is one execution of a request handler in one instance. `pc[p]` names its
next store operation, `req[p]` the grant it works for; `seen`, `live`, `rooted` and
`answer` are what its local variables remember of earlier reads: the record at the
start, the comparison of `now` with the grant's expiry, whether a root exposure is
due, and the adapter's answer. One store operation, with the synchronous code up
to the next `await`, is one action. Firestore runs a read-modify-write of one
document in a transaction, which makes it one step.

| variable | code |
|---|---|
| `record` | `preparedActionStore`: lifecycle and version, moved by compare-and-set |
| `grant` | `grantStore`: consumption state |
| `token` | `commitTokenStore`; the token's id is derived from the grant's id |
| `nonces` | `nonceStore` |
| `idem` | `idempotencyStore`, one row per execution key |
| `main`, `root` | `exposureLedger`: entries `exp-inflight-<key>` and `exp-inflight-root-<key>` |
| `reservation`, `reservedBy` | `economicReservationStore`, by prepared action |
| `ledger` | `sideEffectLedger`, record `exec-<key>` |
| `effects` | not a store: what really happened at the payment provider |
| `tip`, `expired` | the intent's current state, the clock |

Labels and actions follow the code: `prep_*` and `mint_*` for prepare and
bind-and-mint, `auth_*` for authorize, `cm_*` for commit up to the adapter,
`ok_*`, `fail_*` and `unk_*` for what follows an answer, `rec_*` for
`reconcileUnknownExecution`. A refusal that writes nothing is the end of the call
(`Return`). `PROJECT.json` maps every definition to its lines.

What is assumed of the world:

- the adapter's answers mean what their names say: SUCCESS, the effect happened
  once; FAILED and MALFORMED, it did not; UNKNOWN, either. The report of a
  reconciliation is true.
- a grant, its token and its prepared action expire at one moment; `now` is taken
  when a call begins. Amount, currency and threshold are present.
- an instance may die at any await (`Crash`); a store error that is thrown is the
  same for the caller. Both are bounded by `MaxCrashes`.
- one action may have several grants: the id of a grant is a hash over the
  evaluation, the prepared action and an idempotency key that the caller of
  bind-and-mint chooses. Several actions may share an execution key: the domain
  packs derive it from the business identity of the payment.
- the tip only grows. Two overlapping creations of states may in fact set it back
  (`IntentStates` has the details); no property here
  depends on the direction.

### 3.2 ApprovalRequest

All requests are for one evaluation. `row` and `events` are the two collections of
`approval-routes.ts`; `contract`, `prepared` and `minted` say under which request
the resumption got so far. `read` and `decision` are what a decide call remembers
across its awaits. `shared` is a history variable: the requests that two writing
calls (create, decide) handled at the same time. It is never read by an action.

The evaluation is immutable and has a stable id, so reading it is part of the
step that begins a call. A request expires when its evaluation does, because the
engine passes the one to the other. `gateway.prepare` has its own awaits in
`TwoPhaseGateway`; here it is one step. `run()` with an approval id ends early on
an existing workflow, so only `resumeWithApproval` resumes. Stage timings are left
out.

The id of a request is derived from the evaluation in the engine, but the route
takes it from the caller; with one request id in the instance a re-request meets
its predecessor, which is the case the code was written for.

### 3.3 MonitoringContract

One workflow, one contract: the engine derives the id from the workflow. `row` is
the document in `monitoringContracts` (its list of signals as the set of their
severities), `copy` and `kind` are the new row and the report that a reporting call
holds between its read and its put. The functions of `monitoring-contract.ts` are
operators on rows: `Recorded` is `recordRiskSignal`, `MarkedFailed` is
`markVerifiedOutcomeFailure`, `MayMint` is `assertPrivilegedActionAllowed` with what
minting makes of its answer. Outcome events that reach
`applyOutcomeEventToMonitoring` take the steps of the routes. Creation reads only
the evaluation, which never changes, before its `putIfAbsent`. The state CLOSED is
in the code's table, but nothing closes a contract.

`accepted` (the kinds of reports that were written), `knew` (what was accepted when
a mint began) and `shared` (two reports were under way at once) are history
variables.

### 3.4 ResolutionCase

The service (`services/resolution-service/src/service.ts`) is event driven and keeps
its state twice. `row`, `mandates`, `claims` and `trigger` are the collections;
`local`, `known` and `held` are the maps of one instance, filled when it meets a
case for the first time and never read again from the store while the case is in
them. A call is bound to the instance that took it (`at`) and runs from one `await`
to the next in one step. `persistCaseState` starts a write and goes on: `writes`
are those under way, each with the row as it was when it was started, and they
land in any order; `flushCases` waits for those of its instance that nobody else
waits for. `Restart` drops an instance with its maps, its calls and its unfinished
writes.

A remedy has one mandate id, `mandate-<remedyProposalId>`
(`packages/authority/src/remediation-mandate.ts:39`). Every issue (`IssueMandate`) puts
a new ACTIVE mandate over the row and over the instance's copy, whatever is there
(`service.ts:766`). `issued` numbers the issues: the number stands for `createdAt` and
the expiry, so that two issues differ. Two issues in one millisecond with the same
expiry would be equal, and are not told apart by the code either.

The trigger path takes a stored case without its remedies: `carried` is the plan
inside such a case, which goes back to the store with every write of it, while `plan`
is what the routes look at. Listing makes a plan when there is none, issuing and
executing need one, verification needs none (`Answerable`).

The kinds of calls are the delivery of a trigger (`existing`, `insert`, `raced`,
`take`, `put`, `opened`), and the routes `plan`, `issue`, `execute` and `verify`. The parts of
`executeRemedyPipeline` are the claim (`claim`), the contract stub (`stub`), the port,
and what follows its answer (`paid`, `consume`, `consumed`, `release`). The port
(`remedy-execution-port.ts`) is `action`, `proof`, `evaluate`, `binding` and `commit`:

- `artifacts` has the ACTION and the PROOF of the remedy at the intent service, under
  ids made of the remedy's, which are immutable: the first content is kept, an equal
  one accepted, another refused. The ACTION repeats the mandate's `createdAt`,
  the PROOF hashes its status. GUARDIAN and WORKFLOW follow from these two and are left
  out.
- The authority reads mandate, case and remedy back from the resolution service, from
  any instance, which may fill that instance's memory. Each of these reads is one
  step, and the case and the remedy come from one instance.
- `asked` is what the gateway was asked to pay, `paid` which remedies it has paid for. The
  gateway's answer may be a success, a replay, a failure or unknown; that its key
  (case and remedy) is paid once is what `TwoPhaseGateway` shows.
- Whatever else goes wrong on the way (the evaluation record, PREPARE, the mint) is
  `PortFails`.

Plans are not empty. A plan that is made again after the contract has changed may use the
id of a remedy again; that is the same remedy here.

### 3.5 OutcomeRules and OutcomeContract

`OutcomeRules` has the pure functions of `packages/outcome-core`: `evaluatePredicate`
over facts, `deriveObservations` from accepted claims, `aggregateRequirementStates`,
the table of legal moves and what the three payment statuses do. Facts are what
the comparisons tell apart. The templates make HARD and SAFETY_CRITICAL
requirements only, so the precedence among softer ones is not there.

`OutcomeContract` is one contract in the store. `row` is the document; a call holds
the contract it read (`seen`), goes on from it and puts it back whole. `events` are
the stored triggers, `cases` those a resolution case was opened for, `opening` the
ones that the in-process bus has taken over from a caller who does not wait, `local`
and `handled` what an instance remembers. `topic` has the evidence messages of
Pub/Sub, each with the `attempts` made at it: a message is delivered (`Receive`) until it
is acknowledged or `MaxDeliveries` attempts are used up, and an attempt may also reach
nobody (`DeliverInVain`) or end in an error, as when evidence precedes the payment.
`cut` and `torn` record that a crash interrupted an evaluation after it had stored its
row: one asked for over HTTP, and those of messages.

### 3.6 IntentStates

`states`, `tip` and `artifact` are the documents of `services/intent-service`. A
request is a finalization of a verified compilation, a policy from the ingress, or
a supersession by evidence (`semantic-supersession.ts`); `seen`, `prior` and `made`
are the state it is about, the verification it started from, and the state it
makes. The identifiers follow the code: a version for the policy's states, the
hash of the compilation or of the verdict for the others, so that two policies may
meet under one id and two finalizations of one compilation do. `stands` and
`serial` are history variables.

### 3.7 WorkflowEngine

The id of a workflow is made of the key and the hash of the intent state, so the
model has a workflow per state. `artifact` has the immutable rows of each (the
route keeps the first and answers the rest with a conflict if the content differs),
`evaluation` and `approval` the authority's records, and `marks` what the other
services were asked for on the way to a token. The labels `evidence` to `close` are
the awaits of `run`, `evaluate` to `record` those of the materialization that `run`
and `resumeWithApproval` share. What the model plans, what verifier and guardian
say, `createdAt` and what the authority decides are inputs. The approval's own
races are `ApprovalRequest`'s, the gateway's `TwoPhaseGateway`'s.

### 3.8 ModelCalls

A request is one stage of a workflow that asks the model: `createBudgetedModelPort`
with its deadline and attempts, the queue of its instance (`queue`, `head`), the
transaction that takes a slot (`slots`), the provider and the release. `orphan` is a
request whose instance is gone while the provider still works on it. `clock` is
shared by all instances; it moves by one and waits for what must happen before its
next tick (an attempt's timeout; at most `Lag` between the reading of the clock for a
lease and the request). A transaction that throws may have been committed all the same:
`ClaimFails` claims nothing, `ClaimUnanswered` leaves a slot leased to nobody until the lease
ends. A release that is lost or not acknowledged is alike.

### 3.9 LearningMemory, DecisionRules and LearnedDecisions

`LearningMemory` is `services/learning-service`: `proposal` has the status of each
proposal, `confirmed` those with a CONFIRMED event, `context`, `record`, `tip` and
`index` what a confirmation writes, in that order, each by a call of its own. `existing`
is the tip that a handler read and decides by.

`DecisionRules` has the functions that turn judgements into a decision, in the order
in which the authority applies them: the guardian's aggregation, its gate, the
scope of the request, and the tightening by what was learned. Results of judges,
scopes and requests are records; the rules are taken over all of them that the
constants `Results`, `Scopes`, `Requests` and `Exposures` name. For TLC these are
small sets, the proofs take any.

`LearnedDecisions` extends both. `Applies` is what the read routes and the authority's
parsers make of a tip (a record that is not ACTIVE is passed over), `MayLoad` what
`loadAdaptiveAuthoritySignals` can hand to the rules in a state of the memory; whether
it differs from the action is open. The documents are taken as read together; no
property depends on it, because the rules keep it whatever was loaded.

## 4. What is checked

A property that must hold for the code has a passing run. A statement of the code
that it does not keep has a run of its own in which TLC finds the behaviour.

| run | instance | question |
|---|---|---|
| `SharedKey` | 2 calls, 2 grants of 2 actions with one key, all answers, revocation of one grant | does the lock discipline `IInv` hold; is a payment made at most once, charged and recorded truly; does every step implement `PaymentOnce`; can every UNKNOWN key be reconciled and does a reconciliation settle all stores |
| `Budget` | 2 calls, a purchase and its remedy in two groups, threshold for one of them, all answers, 1 crash | do payments stay within the threshold |
| `Settlement` | 2 calls, one grant that may expire, a new intent state, fair | is every SUCCESS or UNKNOWN answer recorded |
| `Approval` | 2 calls, 1 request, expiry, new tip, 1 crash, fair | is a decision final and respected, does the log say what the row says, does an unhindered resumption mint |
| `Monitoring` | 2 calls, 1 contract, 1 crash | is a stored contract always coherent, does it stand for the worst report, does the gate stop a mint that begins after a freeze |
| `Resolution` | 2 instances, 2 calls, 1 remedy, 1 attempt allowed, 1 instance recycled; 4 requests from the beginning, or 3 from a case planned with a mandate issued | is a remedy paid for under one issue of its mandate, is nothing resolved unpaid, are payments, claims, proofs and bindings backed by stored rows (`ResolutionInv`) |
| `Outcome` | 2 instances, 2 calls, 1 evidence message with 4 contents and 3 delivery attempts, 2 sets of claims, 2 requests, 1 instance lost, fair | is the state what the requirements add up to, is nothing judged unpaid, does every trigger get its case unless its evaluation was torn and given up |
| `IntentStates` | 2 calls, 2 compilations (one with a bound), 2 verdicts, 2 policies, 5 versions, 5 requests, 1 lost | is a finalized state verified, where do bounds come from, does a successor keep its terms, what does the tip carry |
| `Workflow` | 2 calls, 2 plans, verdicts and decisions of any kind, 1 successor state, 1 lost call, fair | is what reaches the authority the chain of one run, was a token decided on, is a run turned away by its own doing, does an approved workflow end authorized |
| `ModelCalls` | 2 instances, 2 requests with 2 attempts, 1 slot, time to 4, 1 fault (a crash, or a claim or release that is not acknowledged), fair | is the provider's limit kept, are slots lost, does every stage end |
| `Learning` | 2 handlers, 4 proposals, 1 expiry, 1 lost handler; 3 constraints, 2 judges, all small scopes | was what is in force confirmed, what outranks what; do the rules block, ask and narrow under all that the memory can hold |
| `RetryStuck` | finding: 2 calls, 2 plans, 2 times | is a run that is told to retry able to |

### The finding

`RetryFindsWay` fails. When a run has used up its budget after the guardian's verdict,
`run` answers an error with `retryable: true` (`generic-workflow-engine.ts:770`). By
then PLAN, PLAN_VERIFICATION, ACTION and GUARDIAN are stored and WORKFLOW is not. A
rerun with the same key finds an existing artifact (`:506`) and reads `state` of the
WORKFLOW row that is not there; `resumeWithApproval` needs that row too. The key is
stuck until the intent gets another state.

### Bounds

Two calls are enough for every race over one key, request, contract, case or tip:
the stores keep one row for each, a third call meets the row one of the two left,
and a finished call frees its slot for the next, so that any number of calls may
follow one another. Two grants of two actions with one key show how two payments could meet; two grants
of one action have one key too, and are left to the proofs, which allow any number of
both. Two groups are the remedy's. One crash separates any two
steps of one call; a second one would have to hit the call that repairs after the
first, and a call that is never scheduled again does the same. `MaxTip` = 2 is one
new intent state in `Settlement` and `Approval`, `MaxTip` = 1 in `Workflow`, which counts
from 0.

- `Resolution`: two instances are what it takes to hold different copies. Four
  requests are a trigger, its duplicate, a plan and a mandate, or a trigger, a plan, a
  mandate and an execution. So that a second issue and two executions fit, runs also
  begin where a case was planned and its mandate issued (`Issued` in `MCResolution`), as
  after a deployment; three more requests are then an execution, an issue over what it
  left, and another execution, or a trigger on the other instance, an execution and a
  verification there. These are 1.9 million states; a second remedy multiplies them and
  is left to the proof.
- `Outcome`: two claims on a quantity of two tell satisfied, partial, broken and
  conflicting apart. Three delivery attempts, where five are deployed, are one refused
  before the payment, one lost with its instance, and one that makes up for it or fails
  too.
- `IntentStates`: five requests are a finalization, a policy, a supersession and two
  that race with them; versions do not run out within them.
- `ModelCalls`: a lease of 3 and an attempt of at most 1 + `Lag` keep the proportion of
  the code's 90 s and 55 s; a clock up to 4 lets a lease run out and another call take
  the slot. One slot and two calls are enough for a conflict.
- `Learning`: proposals of every kind; stated and learned preferences share a tip.

The faults of the environment are spread over the runs of the gateway (a
revocation in `SharedKey`, a crash in `Budget`, an expiry and a new tip in
`Settlement`), because together they multiply the states. For the safety properties
that are proved, the proofs replace the bounds and have all faults at once.
Symmetry (exchange of alike calls, instances or values) is used only where no
liveness property is checked.

`CHECK_DEADLOCK FALSE` stands where the system may come to rest: when every call
has returned and no fault or request is left, nothing has to happen. `Workflow` and
`RetryStuck` check for deadlock, because a submission may always come.

### Fairness

`FairSpec` of gateway and approval has weak fairness on the steps of a running call
and on nothing else: an `async` function whose instance lives goes on after each
await, the environment owes nothing. A lost call is a `Crash`, which ends it. The
fairness of `WorkflowEngine` and `ModelCalls`, which is part of their `Spec`, is of the
same kind; `ModelCalls` adds that the drain of a queue goes on and that time passes.
`OutcomeContract` adds that the in-process bus goes on while its instance lives, and
weak fairness on the delivery of a message while attempts are left. The subscription
gives up after `max_delivery_attempts = 5`
(`infrastructure/terraform/modules/runtime/main.tf:1218`), into a dead-letter topic that
nothing consumes; `TriggersReachCases` says what is lost with it. `ResumeCompletes`
assumes in its statement that resumptions keep coming: the code has no retry of its own.

### Preconditions that say something about the code

- `UnknownIsReconcilable` and `ReconciliationSettles` are stated for `Undisturbed`
  behaviours. With a crash between `markUnknown` and the stored reservation, or a
  grant revoked or expired before `markPendingReconciliation`, the key is UNKNOWN
  and there is nothing to reconcile. The code has no repair for it and no document
  says otherwise.
- Both are also stated for actions with one grant (`Sole`). With two grants of one
  action the first may end UNKNOWN and be reconciled as not paid, which leaves the
  reservation of the action RESOLVED; when the second then ends UNKNOWN,
  the store refuses a reservation under the hash that was reconciled
  (`two-phase.ts:1131`, `economic-reservation-store.ts:71`), and the key is UNKNOWN with
  nothing to reconcile. What is paid, charged and claimed is right in all of these
  (`AtMostOnceEffect`, `EffectHoldsExposure` and `PaidRecordsAreTrue` know no `Sole`).
- `Budget` sets `StateReadMayFail` to FALSE. The commit route reads the budget of the
  intent for a remedy and goes on without one when the read fails
  (`internal-routes.ts:200`); then the remedy is charged to its own group alone and
  `BudgetRespected` does not hold.
- `ClosedIsFinal`, `LogMatchesRow` and `DenialIsRespected` except requests that two
  writing calls handled at once; see below.
- `WorstReportStands` and `GateHolds` are stated while reports do not overlap. Of two
  reports that read the same row the later put wins: a LOW signal that read ACTIVE
  before a HIGH signal was written puts the contract back from FROZEN to ACTIVE, and
  the HIGH signal is gone from its list. That is not what the comment "Escalation is
  monotonic: once ESCALATED/FROZEN, LOW signals cannot de-escalate."
  (`monitoring-contract.ts:118`) says. `PostureMatchesSignals` holds regardless.
- `TriggersReachCases` excepts an evaluation over HTTP that was cut off, which nobody
  repeats (`cut`), and a message whose evaluation a crash interrupted after the row was
  stored and whose attempts are used up (`torn`, `GivenUp`). In both a BREACHED contract
  may be left without a case. Evidence that arrives before the payment uses up attempts,
  because it is answered with an error.
- `SerialTip` is stated for calls that do not overlap (`stands`, `serial`); the other
  properties of `IntentStates` are not.
- `ExplicitOutranksLearned` allows for the race in which the explicit preference was
  written after the learned one's confirmation had read the tip.

### Seen, and not made a run

Gateway:

- `idempotencyStore.complete` writes over whatever is there: a call that released the
  exposure of a failed attempt and is slow to write FAILED does so after a later call
  has written SUCCESS. `AtMostOnceEffect` and `PaidRecordsAreTrue` hold all the same.
- A FAILED attempt leaves a side-effect record that a later SUCCESS under the same key
  cannot replace (`side-effect-ledger.ts:47`): the payment has no SUCCESS record.
- The reconciliation of a remedy that was not paid releases `exp-inflight-<key>` and
  leaves the root entry IN_FLIGHT (`two-phase.ts:1363`). One that comes after the
  grant's expiry leaves the grant PENDING_RECONCILIATION (`two-phase.ts:1352`).
- A freeze between the mint's gate and the put of its grant is not seen; `GateHolds`
  speaks of reports that were accepted when the mint began.
- A revocation between the gate's last look at the grant and the adapter's call is
  not seen: the effect is outside every transaction. Any check then act has this
  window.
- A token can be issued while the key becomes UNKNOWN, because the open
  reservation is looked for several awaits before the token is stored. Such a
  token does not pay; `ExclusiveInvocation` covers it.
- A prepared action whose UNKNOWN execution was reconciled as not paid can be
  executed again under its old hash when the token was issued before.

Approval:

- Two decisions that read the same PENDING row overwrite one another
  (`approval-routes.ts:314`): an approval turns into a denial after something was
  done under it, or the reverse.
- A re-request supersedes the pending request and is then refused, because its id
  exists (`approval-routes.ts:226`): no request is pending.

Resolution:

- A trigger that is repeated on another instance makes it take the row without the
  counters that belong to it; an execution there pays and then throws
  (`service.ts:281`, `:1092`, `:1417`). The loser of a race between two triggers
  overwrites a case that has progressed with OPEN (`:401`), and an instance with an
  old copy writes it back. The counter of attempts starts again with every hydration.
  `firestore-data-model.md:23`
  says that cases are written in transactions; they are not. Three instances are
  allowed (`max_instance_count`).
- A mandate that is issued again takes the place of a CONSUMED one and is ACTIVE
  (`service.ts:766`, `remediation-mandate.ts:39`), although the pipeline's comments call
  a mandate single-use (`remedy-pipeline.ts:323`) and say that the consumed mandate closes
  the lifecycle permanently (`service.ts:915`). An instance with an old copy accepts a
  consumed mandate too. A further execution is then not stopped by the mandate but by the
  artifacts of the first, which are immutable, and by the key of the gateway, which is
  the remedy's: `OneIssuePays` holds, and nothing is paid twice.
- The other side of it: once an execution has left its artifacts, one under a later issue
  of the mandate cannot succeed (409 from the intent service), also when the first one
  has paid nothing.
- Two remedies of one case may both be paid, by instances with different copies of the
  case.
- The verification of a remedy takes the id of any contract.

Outcome:

- A contract that was CLOSED is reopened by a call that read it before
  (`service.ts:317` against the comment "Terminal: never reopens." at `:633`). A
  SATISFIED contract can be closed while another instance opens a case for it.
- The quantity ordered stands in for a quantity received that nobody claimed
  (`evidence-observations.ts:234`, `predicates.ts:403`).
- A late UNKNOWN or FAILED overwrites the payment status SUCCESS. `aggregateVersion` is
  always 1.

Intent:

- The policy ingress copies the verification of the state before, whose proof summary
  names that state (`internal-routes.ts:252`, `:261`). `WorkflowEngine` has both kinds
  (`summary`), and a run on a copied one goes to supersession first.
- A policy that is set while a supersession is under way is undone by its `setTip`
  (`service.ts:228`); two at once meet under one version and one row is overwritten; a
  new finalization drops the policy; a policy before the first finalization has no
  bound.
- A crash between `setTip` and the artifact leaves a tip that cannot be read with its
  verification (`semantic-supersession.ts:210`, `:284`). A finalization that is
  repeated after the tip moved is a conflict for ever.

Workflow:

- `resumeWithApproval` looks for a WORKFLOW row and not at its state. A second approval
  id changes the idempotency key of the materialization. The loser of two concurrent
  resumptions gets an error of the lifecycle.
- The authority's evaluation conflicts when trust signals change between run and
  resumption, which is why `ResumeCompletes` speaks of resumptions that decide alike.
- A crash between the WORKFLOW row and `createApproval` leaves a workflow without
  approval; an allowed workflow whose materialization failed is never resumed.

Model calls:

- The lease is dated before the transaction that stores it; `Lag` bounds the
  difference. A caller without a deadline waits without bound. The head of the queue
  blocks the entries behind it until its own deadline.

Learning and decisions:

- A financial constraint that the judges call UNCERTAIN does not keep a
  high-consequence action from being CLEAR, one that they leave out does.
- `deniedMerchants`, a scope's currency, expiry and depth are compared on delegation
  and read by no decision; nothing calls the delegation package.
- Two confirmations of one proposal make it supersede itself; one that is lost after
  its row was written cannot be repeated; a confirmation and a rejection overwrite
  one another; the evidence index loses updates; versions of rules repeat. A
  preference or rule that superseded itself, or whose confirmation was lost before it
  moved the tip away from a superseded record, does not apply: `Applies` is false until
  the next confirmation, and the decision is the untightened one. Proposals
  with a target intent are always refused.
- `PROJECT_SPEC.md:1128` and `supersession.ts:15` let an explicit preference stand over
  a learned one; the race of the precondition above is the exception.

## 5. What is proved

The theorems hold for every value of the constants that the named assumptions
(`ConstantsAssumption`, `ApprovalAssumption`, `MonitoringAssumption`,
`ResolutionAssumption`, `OutcomeAssumption`, `StatesAssumption` and `RowsAssumption`,
`ModelCallsAssumption` and `NoneAssumption`, `EngineAssumption`, `LearningAssumption`,
`RulesAssumption`) allow: any number of calls, grants, actions, keys, groups, requests,
instances, remedies and issues of their mandates, plans, states, policies, messages, slots, proposals, judges and
crashes. `FiniteAssumption` says that the gateway has finitely many execution keys: the
amounts that the ledger adds up are those of a finite collection of entries.
The assumption with content is that of `ModelCalls`: a lease outlives an attempt that
was dated at most `Lag` before it (the code's lease is 90 s, its attempts last at most
55 s, which leaves 35 s to `Lag`).

### 5.1 Gateway (`GatewayProofs`)

`AtMostOnceEffect` is not inductive: that a second call cannot pay depends on what
the first one still holds. The idea of the invariant is that **the exposure entry
of a key is a lock**. `reserveIfUnderThreshold` inserts it only when there is
none; from then until the call settles or releases it, the call is the only one
that works under the key (`OneHolder`, `HolderHasEntry`). Before the adapter has
answered nothing was paid under the key (`UnpaidHolders`), afterwards only the
holder can have paid (`HolderPaysAlone`, `PaidCalls`). A call that ends in doubt
hands the lock to the open reservation (`OpenHoldsEntry`), from which exactly one
reconciliation takes it (`ToldTheTruth`: what the operator reported is still true
when `resolve` succeeds). A crash leaves the lock held for ever, which is safe.
`LockInv` has these parts, `IInv` adds the types and `PaidRecordsAreTrue`, which
needs `PaidCalls` and which `ReleasedIsEmpty` completes.

| theorem | statement |
|---|---|
| `TypeInvariant` | `[]TypeOK` |
| `Invariance` | `[]IInv` |
| `AtMostOnce` | `[]AtMostOnceEffect` |
| `EffectsAreCharged` | `[]EffectHoldsExposure` |
| `RecordsAreTrue` | `[]PaidRecordsAreTrue` |
| `InvocationIsExclusive` | `[]ExclusiveInvocation` |
| `Refinement` | the specification implements `PaymentOnce` |
| `DoubtInvariant` | `[]DoubtInv` |
| `DoubtCanBeReconciled` | `[]UnknownIsReconcilable` |
| `ReconciliationIsComplete` | `[]ReconciliationSettles` |
| `LedgerIsWithinLimits` | `[]LedgerWithinLimits` |
| `BudgetInvariant` | `[]BudgetInv`, if the budget can be read |
| `BudgetIsRespected` | `[]BudgetRespected`, if the budget can be read |

The proof that a step keeps `IInv` goes action by action; `QuietForKeepsLock` and its kind
dispose of the steps that do not touch the lock. The refinement is step
simulation: reserve is `Claim`, the adapter's effect is `Pay`, release is
`GiveBack`, commit of the exposure is `Settle`, everything else stutters.

**A key in doubt** (`DoubtInv`, on top of `IInv`). `UnknownIsReconcilable` speaks of
quiet states only. The invariant says for every state who has the key in hand
(`DoubtIsInHand`): an open reservation, the call that is between `markUnknown` and the
stored reservation, or the reconciliation that has resolved it and has not written
the key yet; and likewise for a resolved reservation that is not settled
(`ResolvedIsInHand`). That each of them gets through needs that nothing refuses it: the
grant is there and nobody else consumes it (`GrantsAreThere`, `NotYetConsumed`), the
reservation has not been used (`ReservedOnce`), and behind both that a nonce lets one
call of a grant through (`NoncesAreSingle`). This is where `Sole` is needed: a second
grant of the action has a nonce of its own and shares the reservation.

**The budget** (`BudgetInv`, on top of `IInv`). The code sums amounts over rows; the
model counts `Units`, one for each key and unit of an amount, so that a sum is the
cardinality of a union of disjoint sets, and the lemmas of finite sets take the place
of an induction over rows. `LedgerWithinLimits` is what each reservation compares: it
holds whatever was paid. That payments are within it needs that each of them has its
entry in every group it counts in: in its own group by `EffectHoldsExposure`, and for
a remedy in the group of the intent, where its root entry is a second lock
(`RootHolders`, `PaidRemediesAreCharged`) that a failed attempt gives back only while
it holds it. `RootedAreRemedies` needs `~StateReadMayFail`: when the read of the intent
fails the code goes on without a root reservation (see the preconditions), so
`BudgetInvariant` and `BudgetIsRespected` assume that it does not.

### 5.2 Approval (`ApprovalProofs`)

The routes read a row, compute, and write without a comparison. The invariant
`SerialInv` says that, as long as no two writing calls overlap on a request, they
behave as if they were atomic: overlaps are never overlooked (`SharingIsNoted`),
what a call read before an await is still true after it (`ReadIsFresh`), what was
done under a request was done under an approved one, and stays so
(`DoneUnderApproval`), and the log's denial is the row's (`DenialIsWritten`). The
case that matters is a put: by `SharingIsNoted` the caller is alone, by
`ReadIsFresh` the row is still PENDING, so nothing was done under it. For the log,
`LogKeepsUp` says which event a call between its two writes still owes, and that row
and log agree where nobody owes one, as long as no call was lost.

| theorem | statement |
|---|---|
| `ApprovalTypes` | `[]TypeOK` |
| `SerialInvariance` | `[]SerialInv` |
| `Denial` | `[]DenialIsRespected` |
| `Reopening` | `ClosedNeverReopens`, also for overlapping calls |
| `Finality` | `ClosedIsFinal` |
| `LogMatches` | `[]LogMatchesRow` |

### 5.3 Monitoring (`StoreProofs`)

The shape is that of the approval. `PostureMatchesSignals` needs nothing of the other
calls, because a put stores what the pure functions computed from a coherent row
(`RecordedIsCoherent`, `MarkedIsCoherent`, `CopyIsCoherent`). `WorstReportStands`
needs that a report which overlaps no other one has read the row it replaces
(`OverlapIsNoted`, `CopyIsFresh`), and `GateHolds` that what a mint knew is still
accepted when it reads the row (`KnowledgeLasts`).

| theorem | statement |
|---|---|
| `MonitoringTypes` | `[]TypeOK` |
| `MonitoringInvariance` | `[]MonitorInv` |
| `Posture` | `[]PostureMatchesSignals` |
| `Escalation` | `[]WorstReportStands` |
| `Gate` | `[]GateHolds` |

### 5.4 Resolution (`ResolutionProofs`)

The service may forget, repeat and overwrite; what it cannot do is to get ahead of
the store. `ResolutionInv` says so for each piece of state: what an instance
remembers of a mandate or claim is stored (`CopiesAreStored`), every row, wherever
it is, binds a stored mandate and is not verified before a payment
(`RowsAreSound`), and a payment has a claim and a proof (`PaymentsAreClaimed`). `Sound` must
speak of all places at once, the writes under way included, because any of them may be
the next row.

No row of the resolution service keeps two issues of a mandate apart: each of them may
be ACTIVE, in one memory or another, while an execution is under way. What does are the
artifacts, which never change once stored. `ArtifactsAgree` says that a proof rests on
an action and on an active mandate and that the gateway was asked with exactly those; a
call past an artifact works with the issue and the status in it (`CallIsSound`).
`OneIssuePays` follows: two requests to the gateway for one remedy agree with the same
artifacts.

| theorem | statement |
|---|---|
| `TypeInvariant` | `[]TypeOK` |
| `ResolutionInvariant` | `[]ResolutionInv` |
| `OneIssue` | `[]OneIssuePays` |
| `ResolvedPaid` | `[]ResolvedOnlyPaid` |
| `PaymentsClaimed`, `MandatesExist` | `[]PaymentsAreClaimed`, `[]BoundMandatesExist` |

### 5.5 Model calls (`ModelCallsProofs`)

Whoever may be at the provider holds the slot it was given (`Holds`), also when its
instance is gone: a slot is taken over only when its lease is over, and by
`LeaseOutlives` the request is over by then. Two requests hold different slots
because a slot's row names one lease; the map from requests at the provider to
slots is an injection, and there are `Limit` slots. `Traced` says who a row belongs to:
to a request, or to nobody after a crash or a claim or release that was not
acknowledged (`abandoned`).

| theorem | statement |
|---|---|
| `TypeInvariant` | `[]TypeOK` |
| `ModelCallsInvariant` | `[]ModelCallsInv` |
| `ProviderLimit` | `[]WithinLimit` |
| `PermitHeld` | `[](PermitIsHeld /\ SlotsAreUsed)` |

### 5.6 Learning and decisions (`LearningProofs`)

A handler writes in a fixed order and nothing is deleted, so what a handler has
left behind stays (`CallLeaves`), whatever the others do; `LearningInv` adds that to
the property. The rules of decision keep no state: their theorems are about all
results, scopes and requests, hold whatever the memory holds, and need no induction. The confidence scale
is finite, so that the worst of what was said exists.

| theorem | statement |
|---|---|
| `TypeInvariant`, `LearningInvariant` | `[]TypeOK`, `[]LearningInv` |
| `InForce` | `[]InForceWasConfirmed` |
| `ExplicitOutranks` | `ExplicitOutranksLearned` |
| `Contradicted`, `Unjudged`, `Delegation` | `[]ContradictedIsBlocked`, `[]UnjudgedNeedsApproval`, `[]DelegationNarrows` |
| `DelegationChains` | `ScopeSubset` is transitive |
| `AdaptiveOnlyTightens` | `Adaptive` is never less strict than its baseline |

### 5.7 Workflow (`WorkflowProofs`)

A run decides by what it did itself and stores each result before it goes on, so
the proof needs that the two agree: `RunIsStored` says that the rows of the workflow
are the ones the run at work would write, and they stay so because a row is
never replaced (`Grows`). When the WORKFLOW row is written they are therefore the rows
of one run (`OneRun` in `StateIsSound`), whoever wrote them first. After that every
call carries what was made before its step (`WayIsMade`), and marks are only left
where the evaluation allowed it or the approval was given (`DecidedOn`), which is
final. `RowsAreReached` makes the summary of a state with rows final, and
`OvertakenIfBehind` follows the tip. `StepKeeps` is the frame: what a step must show
about its own call and the states; what the other calls rest on holds by `OthersKept`.

| theorem | statement |
|---|---|
| `WorkflowInvariant` | `[]WorkflowInv` |
| `ChainsAreOneRun` | `[]ChainIsOneRun`, with the types |
| `TokensAreDecidedOn` | `[]TokensAreDecided` |
| `StaleOnlyByOthers` | `[]StaleOnlyIfOvertaken` |

### 5.8 Outcome contracts (`OutcomeProofs`)

Handlers read the contract, go on for several awaits and put their copy back, so any
copy may be the next row. `OutcomeInv` therefore says of every copy what it says of the
row (`Sound`): the state is what the requirements add up to, and it waits for an
outcome only once paid for. A call past its check carries what it checked
(`CallIsSound`): that its move was legal for the state it read, which is all the code
asks. Legal moves into a judged state start from contracts that were paid, which makes
`JudgedAfterPayment` hold whatever is stored last. A trigger is stored before the
bus or the request opens its case. How often a message is delivered makes no
difference to any of this.

| theorem | statement |
|---|---|
| `AggregateIsWorst` | `Aggregate` is BREACHED if and only if a requirement is, SATISFIED if and only if all are |
| `OutcomeInvariant` | `[]OutcomeInv` |
| `StateAggregates` | `[]StateIsAggregate` |
| `JudgedPaid` | `[]JudgedAfterPayment` |
| `CasesRecorded` | `[]CasesAreRecorded` |
| `OnlyVerificationSatisfies` | a SATISFIED contract was paid for and has every requirement satisfied |

### 5.9 Intent states (`StoreProofs`)

`StatesInv` has three layers. Rows and requests are sound for any overlap of calls
(`RowsAreSound`, `RequestIsSound`): a row is under its own id, its bound comes from a
compilation, and a finalization that reaches its last step has written the
verification of exactly what it made. While a policy stands it went through one
request at a time, and what that request has made carries it (`PolicyStands`). While
calls have not overlapped at all, the request under way extends the tip by one
version, whose id has no verification yet, and when the tip has moved the verification
of the new tip is the next thing to be stored (`TipIsServed`).

| theorem | statement |
|---|---|
| `StatesInvariant` | `[]StatesInv` |
| `FinalizedAreVerified` | `[]CompiledIsVerified` |
| `BoundsAreGrounded` | `[]BoundsAreCompiled` |
| `TermsAreKept` | `[]SuccessorsKeepTerms` |
| `TipIsSerial` | `[]SerialTip` |

### 5.10 Only model-checked

The liveness properties `SettlementCompletes`, `ApprovedResumptionMints`,
`TriggersReachCases`, `ResumeCompletes` and `EveryCallEnds`: they rest on fairness and
ENABLED, which are out of the prover's reach.

## 6. Not modelled

- Gateway: the payment-status callback to the outcome contract (the contract's side
  is in `OutcomeContract`), provenance records, stage timings. Nothing on the path reads
  them.
- Authority: the evaluation record's own route, and the staleness checks of a verdict.
- Resolution: child cases, dispute evidence packets, manual notes, the scoring of
  remedies, the artifacts GUARDIAN and WORKFLOW of a remedy.
- Outcome: predicates other than quantity, delivery and payment; the templates of the
  domains, which produce requirements and keep no state.
- Intent: the creation of intents; identifiers and previous states that a caller
  supplies. `CheckTip` reads three documents in one step, which all belong to one
  state.
- Workflow: the domain packs, temporal expiry, ALLOW_WITH_MONITORING (as ALLOW here) and
  the commit, which is `TwoPhaseGateway`'s. `CreateApproval`
  is one step with the supersession of what was pending, and `Decide` takes the
  decision as one step.
- Model calls: the 200 ms between polls, limits that differ between instances, a
  clock that differs between instances.
- Learning: the derivation of suggestions, the routes that list, trust that decays.
- Policy and fidelity algorithms (`intent-core`, `semantic-fidelity`,
  `semantic-readiness`, `preference-core`): functions over texts and values, whose
  results are inputs here. What a definition of them could say of all texts is what
  their tests say of some.
- Evidence and provenance: append-only records behind an insert-if-absent.
- Event bus and cloud runtime: transport, identity, storage plumbing. The models rely
  on one transaction being one step, on delivery at least once from Pub/Sub while attempts are left and at most
  once in process, and on calls that may be lost.
- Agents: prompts and model calls. Their outputs are inputs.
- Web, public API and read models, observability and analytics, benchmarks and
  verifiers: presentation, telemetry that nothing reads back to decide, harnesses
  around the system. They are half of the repository's lines, and nothing in them
  has a state the properties depend on.
- Schemas, protocol and crypto: types and hashing; hashes are taken as injective.
