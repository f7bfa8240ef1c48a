-------------------------- MODULE ApprovalRequest --------------------------
(***************************************************************************)
(* The human approval of a REQUIRE_APPROVAL evaluation, and the workflow   *)
(* that resumes with it:                                                   *)
(*   POST /internal/approvals and /internal/approvals/:id/decide           *)
(*     (services/authority-service/src/approval-routes.ts over             *)
(*      packages/authority/src/approval-request.ts)                        *)
(*   resumeWithApproval (services/agent-runtime, GenericWorkflowEngine),   *)
(*     whose chain reads the approval again when the outcome contract is   *)
(*     made, when the action is prepared and when the grant is minted.     *)
(*                                                                         *)
(* The row of a request is read, a new row is computed, and the row is     *)
(* written by a put that compares nothing; an event is written after it.   *)
(* Calls run on several instances; a step is one store operation with the  *)
(* code up to the next await.  All requests here are for one evaluation.   *)
(***************************************************************************)
EXTENDS Integers, FiniteSets

CONSTANTS
  Proc,       \* concurrent calls, over all service instances
  Request,    \* ids of approval requests for the evaluation
  Nobody,     \* stands for no request in an idle call
  MaxTip,     \* bound on intent state versions
  MaxCrashes  \* bound on calls lost in a crash

ASSUME ApprovalAssumption ==
  /\ Nobody \notin Request
  /\ MaxTip \in Nat
  /\ MaxCrashes \in Nat

VARIABLES
  row,      \* approvals: the status of each request
  events,   \* approvalEvents: the events of each request
  contract, \* requests under which the outcome contract was made
  prepared, \* requests under which the action was prepared
  minted,   \* requests under which a grant was minted
  tip,      \* version of the intent's current state
  expired,  \* the clock is past expiresAt of the evaluation and its requests
  pc,       \* next step of each call
  on,       \* the request each call is about
  read,     \* the status a call read
  decision, \* what the caller decides
  crashes,
  shared    \* requests that two writing calls handled at the same time

stores == <<row, events, contract, prepared, minted>>
world  == <<tip, expired>>
call   == <<pc, on, read, decision>>
vars   == <<stores, world, call, crashes, shared>>

\* The version of the intent state that was evaluated.
Evaluated == 1

Decided == {"APPROVED", "REJECTED"}
Closed == Decided \cup {"EXPIRED", "SUPERSEDED"}
Status == {"NONE", "PENDING"} \cup Closed
EventType == {"REQUESTED"} \cup Closed

CreatePC == {"create_supersede", "create_superseded", "create_insert",
             "create_event"}
DecidePC == {"decide_expire", "decide_expired", "decide_tip", "decide_put",
             "decide_event"}
ResumePC == {"resume_read", "contract_read", "contract_tip", "contract_put",
             "prepare_read", "prepare_tip", "prepare_put",
             "mint_read", "mint_gate", "mint_tip", "mint_put"}
WriterPC == CreatePC \cup DecidePC
PC == {"idle"} \cup WriterPC \cup ResumePC

TypeOK ==
  /\ row \in [Request -> Status]
  /\ events \in [Request -> SUBSET EventType]
  /\ contract \subseteq Request
  /\ prepared \subseteq Request
  /\ minted \subseteq Request
  /\ tip \in Nat
  /\ expired \in BOOLEAN
  /\ pc \in [Proc -> PC]
  /\ on \in [Proc -> Request \cup {Nobody}]
  /\ \A p \in Proc : pc[p] # "idle" => on[p] \in Request
  /\ read \in [Proc -> Status]
  /\ decision \in [Proc -> Decided]
  /\ crashes \in Nat
  /\ shared \subseteq Request

Init ==
  /\ row = [x \in Request |-> "NONE"]
  /\ events = [x \in Request |-> {}]
  /\ contract = {}
  /\ prepared = {}
  /\ minted = {}
  /\ tip = Evaluated
  /\ expired = FALSE
  /\ pc = [p \in Proc |-> "idle"]
  /\ on = [p \in Proc |-> Nobody]
  /\ read = [p \in Proc |-> "NONE"]
  /\ decision = [p \in Proc |-> "REJECTED"]
  /\ crashes = 0
  /\ shared = {}

-----------------------------------------------------------------------------
(* Helpers.                                                                *)

Goto(p, l) == pc' = [pc EXCEPT ![p] = l] /\ UNCHANGED <<on, read, decision>>

\* The call returns (or its instance dies): what it read is gone.
Return(p) ==
  /\ pc' = [pc EXCEPT ![p] = "idle"]
  /\ on' = [on EXCEPT ![p] = Nobody]
  /\ read' = [read EXCEPT ![p] = "NONE"]
  /\ decision' = [decision EXCEPT ![p] = "REJECTED"]

\* A call about request x begins with a read of the row.
Begin(p, x, l, d) ==
  /\ pc[p] = "idle"
  /\ pc' = [pc EXCEPT ![p] = l]
  /\ on' = [on EXCEPT ![p] = x]
  /\ read' = [read EXCEPT ![p] = row[x]]
  /\ decision' = [decision EXCEPT ![p] = d]

PutRow(p, status) == row' = [row EXCEPT ![on[p]] = status]

\* Events are inserted once; the two decisions share one event id.
AddEvent(p, e) ==
  events' = IF e \in Decided /\ events[on[p]] \cap Decided # {}
              THEN events
              ELSE [events EXCEPT ![on[p]] = @ \cup {e}]

\* History: does another writing call handle the request already?
NoteSharing(p, x) ==
  shared' = IF \E q \in Proc \ {p} : pc[q] \in WriterPC /\ on[q] = x
              THEN shared \cup {x} ELSE shared

Current == tip = Evaluated

\* A gate that goes on at label l or refuses.
Gate(p, passes, l) == IF passes THEN Goto(p, l) ELSE Return(p)

-----------------------------------------------------------------------------
(* POST /internal/approvals.                                               *)

\* The evaluation never changes; the prior row decides the next step.
StartCreate(p, x) ==
  /\ Begin(p, x, IF row[x] = "PENDING" THEN "create_supersede"
                                      ELSE "create_insert", "REJECTED")
  /\ NoteSharing(p, x)
  /\ UNCHANGED <<stores, world, crashes>>

CreateSupersede(p) ==
  /\ pc[p] = "create_supersede"
  /\ PutRow(p, "SUPERSEDED")
  /\ Goto(p, "create_superseded")
  /\ UNCHANGED <<events, contract, prepared, minted, world, crashes, shared>>

CreateSuperseded(p) ==
  /\ pc[p] = "create_superseded"
  /\ AddEvent(p, "SUPERSEDED")
  /\ Goto(p, "create_insert")
  /\ UNCHANGED <<row, contract, prepared, minted, world, crashes, shared>>

\* Fault: writes the new request over the old one.
CreateOverwrite(p) ==
  /\ pc[p] = "create_insert"
  /\ PutRow(p, "PENDING")
  /\ Goto(p, "create_event")
  /\ UNCHANGED <<events, contract, prepared, minted, world, crashes, shared>>

\* The new request has the id of the prior one: with a prior row it is refused.
CreateInsert(p) ==
  /\ pc[p] = "create_insert"
  /\ IF row[on[p]] = "NONE"
       THEN PutRow(p, "PENDING") /\ Goto(p, "create_event")
       ELSE Return(p) /\ UNCHANGED row
  /\ UNCHANGED <<events, contract, prepared, minted, world, crashes, shared>>

CreateEvent(p) ==
  /\ pc[p] = "create_event"
  /\ AddEvent(p, "REQUESTED")
  /\ Return(p)
  /\ UNCHANGED <<row, contract, prepared, minted, world, crashes, shared>>

-----------------------------------------------------------------------------
(* POST /internal/approvals/:id/decide.                                    *)

\* The row is read, then the clock: a pending request past its expiry is
\* expired on the way.
StartDecide(p, x, d) ==
  /\ row[x] # "NONE"
  /\ Begin(p, x, IF row[x] = "PENDING" /\ expired THEN "decide_expire"
                                                  ELSE "decide_tip", d)
  /\ NoteSharing(p, x)
  /\ UNCHANGED <<stores, world, crashes>>

DecideExpire(p) ==
  /\ pc[p] = "decide_expire"
  /\ PutRow(p, "EXPIRED")
  /\ Goto(p, "decide_expired")
  /\ UNCHANGED <<events, contract, prepared, minted, world, crashes, shared>>

DecideExpired(p) ==
  /\ pc[p] = "decide_expired"
  /\ AddEvent(p, "EXPIRED")
  /\ Return(p)
  /\ UNCHANGED <<row, contract, prepared, minted, world, crashes, shared>>

\* Fault: only a request that expired or was superseded is refused.
DecideTipAgain(p) ==
  /\ pc[p] = "decide_tip"
  /\ Gate(p, Current /\ read[p] \in {"PENDING"} \cup Decided, "decide_put")
  /\ UNCHANGED <<stores, world, crashes, shared>>

\* decideApproval: on the copy of the row that was read, against a fresh tip.
DecideTip(p) ==
  /\ pc[p] = "decide_tip"
  /\ Gate(p, Current /\ read[p] = "PENDING", "decide_put")
  /\ UNCHANGED <<stores, world, crashes, shared>>

\* Fault: the decision is not looked at.
DecidePutApproved(p) ==
  /\ pc[p] = "decide_put"
  /\ PutRow(p, "APPROVED")
  /\ Goto(p, "decide_event")
  /\ UNCHANGED <<events, contract, prepared, minted, world, crashes, shared>>

DecidePut(p) ==
  /\ pc[p] = "decide_put"
  /\ PutRow(p, decision[p])
  /\ Goto(p, "decide_event")
  /\ UNCHANGED <<events, contract, prepared, minted, world, crashes, shared>>

\* Fault: a denial has no event.
DecideEventApproved(p) ==
  /\ pc[p] = "decide_event"
  /\ IF decision[p] = "APPROVED" THEN AddEvent(p, decision[p])
                                  ELSE UNCHANGED events
  /\ Return(p)
  /\ UNCHANGED <<row, contract, prepared, minted, world, crashes, shared>>

DecideEvent(p) ==
  /\ pc[p] = "decide_event"
  /\ AddEvent(p, decision[p])
  /\ Return(p)
  /\ UNCHANGED <<row, contract, prepared, minted, world, crashes, shared>>

-----------------------------------------------------------------------------
(* resumeWithApproval.                                                     *)

\* The evaluation is asserted again: the intent state must be current and its
\* temporal bound not passed.
StartResume(p, x) ==
  /\ Current /\ ~ expired
  /\ Begin(p, x, "resume_read", "REJECTED")
  /\ UNCHANGED <<stores, world, crashes, shared>>

Approved(p) == row[on[p]] = "APPROVED"

ResumeRead(p) ==
  /\ pc[p] = "resume_read"
  /\ Gate(p, Approved(p), "contract_read")
  /\ UNCHANGED <<stores, world, crashes, shared>>

\* POST /internal/outcomes/contracts.
ContractRead(p) ==
  /\ pc[p] = "contract_read"
  /\ Gate(p, Approved(p) /\ ~ expired, "contract_tip")
  /\ UNCHANGED <<stores, world, crashes, shared>>

ContractTip(p) ==
  /\ pc[p] = "contract_tip"
  /\ Gate(p, Current, "contract_put")
  /\ UNCHANGED <<stores, world, crashes, shared>>

ContractPut(p) ==
  /\ pc[p] = "contract_put"
  /\ contract' = contract \cup {on[p]}
  /\ Goto(p, "prepare_read")
  /\ UNCHANGED <<row, events, prepared, minted, world, crashes, shared>>

\* POST /internal/gateway/prepare-references.
PrepareRead(p) ==
  /\ pc[p] = "prepare_read"
  /\ Gate(p, Approved(p) /\ ~ expired, "prepare_tip")
  /\ UNCHANGED <<stores, world, crashes, shared>>

PrepareTip(p) ==
  /\ pc[p] = "prepare_tip"
  /\ Gate(p, Current, "prepare_put")
  /\ UNCHANGED <<stores, world, crashes, shared>>

PreparePut(p) ==
  /\ pc[p] = "prepare_put"
  /\ prepared' = prepared \cup {on[p]}
  /\ Goto(p, "mint_read")
  /\ UNCHANGED <<row, events, contract, minted, world, crashes, shared>>

\* Fault: bind-and-mint takes the request for a pending one.
MintReadPending(p) ==
  /\ pc[p] = "mint_read"
  /\ Gate(p, row[on[p]] = "PENDING", "mint_gate")
  /\ UNCHANGED <<stores, world, crashes, shared>>

\* POST /internal/authority/bind-and-mint and mintGrantFromEvaluation.
MintRead(p) ==
  /\ pc[p] = "mint_read"
  /\ Gate(p, Approved(p), "mint_gate")
  /\ UNCHANGED <<stores, world, crashes, shared>>

\* The monitoring contract is read (a REQUIRE_APPROVAL workflow has none),
\* then the clock.
MintGate(p) ==
  /\ pc[p] = "mint_gate"
  /\ Gate(p, ~ expired, "mint_tip")
  /\ UNCHANGED <<stores, world, crashes, shared>>

MintTip(p) ==
  /\ pc[p] = "mint_tip"
  /\ Gate(p, Current, "mint_put")
  /\ UNCHANGED <<stores, world, crashes, shared>>

\* The id of the grant is derived from the request: minting again converges.
MintPut(p) ==
  /\ pc[p] = "mint_put"
  /\ minted' = minted \cup {on[p]}
  /\ Return(p)
  /\ UNCHANGED <<row, events, contract, prepared, world, crashes, shared>>

-----------------------------------------------------------------------------
(* The world around the calls.                                             *)

AdvanceTip ==
  /\ tip < MaxTip
  /\ tip' = tip + 1
  /\ UNCHANGED <<stores, expired, call, crashes, shared>>

Expire ==
  /\ ~ expired
  /\ expired' = TRUE
  /\ UNCHANGED <<stores, tip, call, crashes, shared>>

Crash(p) ==
  /\ pc[p] # "idle"
  /\ crashes < MaxCrashes
  /\ crashes' = crashes + 1
  /\ Return(p)
  /\ UNCHANGED <<stores, world, shared>>

-----------------------------------------------------------------------------

BeginCall(p) ==
  \E x \in Request :
    \/ StartCreate(p, x)
    \/ \E d \in Decided : StartDecide(p, x, d)
    \/ StartResume(p, x)

CreateStep(p) == CreateSupersede(p) \/ CreateSuperseded(p) \/ CreateInsert(p)
                   \/ CreateEvent(p)
DecideStep(p) == DecideExpire(p) \/ DecideExpired(p) \/ DecideTip(p)
                   \/ DecidePut(p) \/ DecideEvent(p)
ResumeStep(p) ==
  \/ ResumeRead(p)
  \/ ContractRead(p) \/ ContractTip(p) \/ ContractPut(p)
  \/ PrepareRead(p) \/ PrepareTip(p) \/ PreparePut(p)
  \/ MintRead(p) \/ MintGate(p) \/ MintTip(p) \/ MintPut(p)

Step(p) == CreateStep(p) \/ DecideStep(p) \/ ResumeStep(p)

Next ==
  \/ \E p \in Proc : BeginCall(p) \/ Step(p) \/ Crash(p)
  \/ AdvanceTip
  \/ Expire

Spec == Init /\ [][Next]_vars

\* An async function that is not lost runs on after each await.
FairSpec == Spec /\ \A p \in Proc : WF_vars(Step(p))

-----------------------------------------------------------------------------
(* What is promised.                                                       *)

Quiet == \A p \in Proc : pc[p] = "idle"

\* Whatever calls interleave, a row that was decided, expired or superseded
\* never becomes pending again (putIfAbsent in the create route).
ClosedNeverReopens ==
  [][\A x \in Request : row[x] \in Closed => row'[x] # "PENDING"]_vars

\* A closed request keeps its status for ever, unless two writing calls
\* handled it at the same time: no sequence of creations, decisions, expiries,
\* intent changes and crashes changes a decision
\* (packages/authority/src/approval-request.ts, decided is terminal).
ClosedIsFinal ==
  [][\A x \in Request :
       row[x] \in Closed /\ x \notin shared' => row'[x] = row[x]]_vars

\* The events of a request of that status.
Logged(status) == CASE status = "NONE" -> {}
                    [] status = "PENDING" -> {"REQUESTED"}
                    [] OTHER -> {"REQUESTED", status}

\* Once all calls have ended and none was lost, the event log of a request that
\* no two calls wrote at once says what the row says, and nothing else
\* (docs/archive/wave1-closure-report.md, event coverage).
LogMatchesRow ==
  Quiet /\ crashes = 0 => \A x \in Request \ shared :
    events[x] = Logged(row[x])

\* Nothing is contracted, prepared or minted under a request whose denial is in
\* the log, unless two writing calls handled the request at the same time.
DenialIsRespected ==
  \A x \in Request \ shared :
    "REJECTED" \in events[x] => x \notin contract \cup prepared \cup minted

\* A resumption of an approved request ends with a grant, unless the intent
\* changes, the request expires, an instance dies or two calls wrote the
\* request at once: the three gates on the way agree.
Hindered(x) == expired \/ ~ Current \/ crashes > 0 \/ x \in shared
Resuming(x) == \E p \in Proc : pc[p] = "resume_read" /\ on[p] = x
ApprovedResumptionMints ==
  \A x \in Request :
    Resuming(x) /\ row[x] = "APPROVED" ~> x \in minted \/ Hindered(x)

-----------------------------------------------------------------------------
(* The inductive invariant behind ClosedIsFinal and DenialIsRespected.      *)

\* Two writing calls about one request are never overlooked.
SharingIsNoted ==
  \A p, q \in Proc :
    /\ p # q /\ on[p] = on[q]
    /\ pc[p] \in WriterPC /\ pc[q] \in WriterPC
    => on[p] \in shared

\* What a call read is still true while it is the only one that writes.
ReadIsFresh ==
  \A p \in Proc : on[p] \notin shared =>
    /\ pc[p] = "decide_tip" => row[on[p]] = read[p]
    /\ pc[p] \in {"create_supersede", "decide_expire", "decide_put"}
         => row[on[p]] = "PENDING"
    /\ pc[p] = "decide_event" => row[on[p]] = decision[p]

\* What was done under a request, and what a resumption is about to do, is done
\* under an approved one.
DoneUnderApproval ==
  /\ \A x \in (contract \cup prepared \cup minted) \ shared :
       row[x] = "APPROVED"
  /\ \A p \in Proc :
       pc[p] \in ResumePC \ {"resume_read"} /\ on[p] \notin shared
         => row[on[p]] = "APPROVED"

DenialIsWritten ==
  \A x \in Request \ shared :
    "REJECTED" \in events[x] => row[x] = "REJECTED"

\* A request that one call at a time writes behaves as if calls were atomic:
\* nothing that was read, done or logged about it is out of date.
SerialInv == SharingIsNoted /\ ReadIsFresh /\ DoneUnderApproval
               /\ DenialIsWritten

\* A call at these labels has put the row and not yet written the event of it.
LoggingPC == {"create_event", "create_superseded", "decide_expired", "decide_event"}

\* While no call is lost, the events of a request are one behind its row when a
\* call is between the two writes, and in step with it otherwise.
LogKeepsUp ==
  crashes = 0 =>
    /\ \A x \in Request \ shared :
         (\A p \in Proc : on[p] = x => pc[p] \notin LoggingPC)
           => events[x] = Logged(row[x])
    /\ \A p \in Proc : on[p] \notin shared =>
         /\ pc[p] = "create_event" =>
              row[on[p]] = "PENDING" /\ events[on[p]] = {}
         /\ pc[p] = "create_superseded" =>
              row[on[p]] = "SUPERSEDED" /\ events[on[p]] = {"REQUESTED"}
         /\ pc[p] = "decide_expired" =>
              row[on[p]] = "EXPIRED" /\ events[on[p]] = {"REQUESTED"}
         /\ pc[p] = "decide_event" => events[on[p]] = {"REQUESTED"}

=============================================================================
