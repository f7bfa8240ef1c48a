------------------------- MODULE MonitoringContract -------------------------
(***************************************************************************)
(* The monitoring contract of a workflow that was allowed under monitoring *)
(*   (packages/authority/src/monitoring-contract.ts,                       *)
(*    services/authority-service/src/monitoring-routes.ts,                 *)
(*    packages/cloud-firestore/src/monitoring-store.ts)                    *)
(* and the gate that minting reads (mintGrantFromEvaluation).              *)
(*                                                                         *)
(* A report (a risk signal, a verified failure, an outcome event) reads    *)
(* the row, computes a new row and puts it whole, without a comparison.    *)
(* Outcome events take the same steps as reports of the routes: at risk,   *)
(* partial and conflicted are a MEDIUM signal, breached is a failure; an   *)
(* event is acknowledged whatever became of it, so one that is lost on the *)
(* way is a call that ended in a Crash.  One workflow has one contract,    *)
(* whose id the engine derives from the workflow.                          *)
(***************************************************************************)
EXTENDS Naturals

CONSTANTS
  Proc,       \* concurrent calls, over all service instances
  MaxCrashes  \* bound on calls lost

ASSUME MonitoringAssumption == MaxCrashes \in Nat

VARIABLES
  row,      \* monitoringContracts: state, risk and the kinds of its signals
  minted,   \* grants were minted for the workflow
  pc,       \* next step of each call
  copy,     \* the row a reporting call is about to put
  kind,     \* what a call reports
  approval, \* whether a minting call has a valid approval
  crashes,
  accepted, \* history: the kinds of reports that were written
  knew,     \* history: what was accepted when a minting call began
  shared    \* history: two reports were under way at the same time

call    == <<pc, copy, kind, approval>>
history == <<accepted, knew, shared>>
vars    == <<row, minted, call, crashes, history>>

Severity == {"LOW", "MEDIUM", "HIGH"}
Report == Severity \cup {"FAILURE"}

\* CLOSED is in the table of transitions, but no code closes a contract.
State == {"NONE", "ACTIVE", "ESCALATED", "FROZEN", "RESOLUTION_OPENED"}
Risk == {"HEALTHY", "ELEVATED", "UNACCEPTABLE"}
Row == [state : State, risk : Risk, signals : SUBSET Severity]
NoRow == [state |-> "NONE", risk |-> "HEALTHY", signals |-> {}]
Opened == [state |-> "ACTIVE", risk |-> "HEALTHY", signals |-> {}]

WriterPC == {"signal_put", "failure_put"}
MintPC == {"mint_index", "mint_row", "mint_tip", "mint_put"}
PC == {"idle", "create_insert"} \cup WriterPC \cup MintPC

TypeOK ==
  /\ row \in Row
  /\ minted \in BOOLEAN
  /\ pc \in [Proc -> PC]
  /\ copy \in [Proc -> Row]
  /\ kind \in [Proc -> Report]
  /\ approval \in [Proc -> BOOLEAN]
  /\ crashes \in Nat
  /\ accepted \subseteq Report
  /\ knew \in [Proc -> SUBSET Report]
  /\ shared \in BOOLEAN

Init ==
  /\ row = NoRow
  /\ minted = FALSE
  /\ pc = [p \in Proc |-> "idle"]
  /\ copy = [p \in Proc |-> NoRow]
  /\ kind = [p \in Proc |-> "LOW"]
  /\ approval = [p \in Proc |-> FALSE]
  /\ crashes = 0
  /\ accepted = {}
  /\ knew = [p \in Proc |-> {}]
  /\ shared = FALSE

-----------------------------------------------------------------------------
(* packages/authority/src/monitoring-contract.ts.                          *)

RiskRank(r) == CASE r = "HEALTHY" -> 0 [] r = "ELEVATED" -> 1
                 [] r = "UNACCEPTABLE" -> 2
StateRank(s) == CASE s = "ACTIVE" -> 0 [] s = "ESCALATED" -> 1
                  [] s = "FROZEN" -> 2 [] OTHER -> 3

\* severityTarget.
TargetRisk(k) == CASE k = "HIGH" -> "UNACCEPTABLE" [] k = "MEDIUM" -> "ELEVATED"
                   [] OTHER -> "HEALTHY"
TargetState(k) == CASE k = "HIGH" -> "FROZEN" [] k = "MEDIUM" -> "ESCALATED"
                    [] OTHER -> "ACTIVE"

\* Fault: the state is compared with the risk the contract had.
RecordedByRisk(r, k) ==
  [state   |-> IF RiskRank(TargetRisk(k)) > RiskRank(r.risk)
                    /\ r.state = "ACTIVE"
                 THEN TargetState(k) ELSE r.state,
   risk    |-> IF RiskRank(TargetRisk(k)) > RiskRank(r.risk)
                 THEN TargetRisk(k) ELSE r.risk,
   signals |-> r.signals \cup {k}]

\* recordRiskSignal: neither risk nor state is lowered.
Recorded(r, k) ==
  [state   |-> IF StateRank(TargetState(k)) > StateRank(r.state)
                 THEN TargetState(k) ELSE r.state,
   risk    |-> IF RiskRank(TargetRisk(k)) > RiskRank(r.risk)
                 THEN TargetRisk(k) ELSE r.risk,
   signals |-> r.signals \cup {k}]

\* markVerifiedOutcomeFailure.
MarkedFailed(r) ==
  [r EXCEPT !.state = "RESOLUTION_OPENED", !.risk = "UNACCEPTABLE"]

\* Fault: only a frozen contract blocks.
MayMintUnlessFrozen(r, approved) ==
  r.state \in {"NONE", "ACTIVE", "RESOLUTION_OPENED"}
    \/ (r.state = "ESCALATED" /\ approved)

\* assertPrivilegedActionAllowed, and the use mintGrantFromEvaluation makes of
\* its answer.
MayMint(r, approved) ==
  r.state \in {"NONE", "ACTIVE"} \/ (r.state = "ESCALATED" /\ approved)

-----------------------------------------------------------------------------
(* Calls.                                                                  *)

Goto(p, l) == pc' = [pc EXCEPT ![p] = l] /\ UNCHANGED <<copy, kind, approval>>

\* The call returns (or is lost): what it held is gone.
Return(p) ==
  /\ pc' = [pc EXCEPT ![p] = "idle"]
  /\ copy' = [copy EXCEPT ![p] = NoRow]
  /\ kind' = [kind EXCEPT ![p] = "LOW"]
  /\ approval' = [approval EXCEPT ![p] = FALSE]

\* POST /internal/monitoring: an insert of a fresh contract if there is none.
StartCreate(p) ==
  /\ pc[p] = "idle"
  /\ Goto(p, "create_insert")
  /\ UNCHANGED <<row, minted, crashes, history>>

\* Fault: puts the fresh contract over an existing one.
CreatePut(p) ==
  /\ pc[p] = "create_insert"
  /\ row' = Opened
  /\ Return(p)
  /\ UNCHANGED <<minted, crashes, history>>

CreateInsert(p) ==
  /\ pc[p] = "create_insert"
  /\ row' = IF row.state = "NONE" THEN Opened ELSE row
  /\ Return(p)
  /\ UNCHANGED <<minted, crashes, history>>

\* A report reads the row and computes the next one before its only await.
StartReport(p, k, next, l) ==
  /\ pc[p] = "idle"
  /\ row.state # "NONE"
  /\ pc' = [pc EXCEPT ![p] = l]
  /\ copy' = [copy EXCEPT ![p] = next]
  /\ kind' = [kind EXCEPT ![p] = k]
  /\ shared' = (shared \/ \E q \in Proc \ {p} : pc[q] \in WriterPC)
  /\ UNCHANGED <<row, minted, approval, crashes, accepted, knew>>

\* POST /internal/monitoring/:id/signals: refused once a resolution is open.
StartSignal(p, k) ==
  /\ row.state # "RESOLUTION_OPENED"
  /\ StartReport(p, k, Recorded(row, k), "signal_put")

\* POST /internal/monitoring/:id/outcome-failure: puts also when the resolution
\* is open already.
StartFailure(p) == StartReport(p, "FAILURE", MarkedFailed(row), "failure_put")

\* monitoringStore.put.
PutCopy(p) ==
  /\ row' = copy[p]
  /\ accepted' = accepted \cup {kind[p]}
  /\ Return(p)
  /\ UNCHANGED <<minted, crashes, knew, shared>>

SignalPut(p) == pc[p] = "signal_put" /\ PutCopy(p)
FailurePut(p) == pc[p] = "failure_put" /\ PutCopy(p)

-----------------------------------------------------------------------------
(* mintGrantFromEvaluation, from the gate on.                              *)

StartMint(p, approved) ==
  /\ pc[p] = "idle"
  /\ pc' = [pc EXCEPT ![p] = "mint_index"]
  /\ approval' = [approval EXCEPT ![p] = approved]
  /\ knew' = [knew EXCEPT ![p] = accepted]
  /\ UNCHANGED <<row, minted, copy, kind, crashes, accepted, shared>>

\* getByWorkflowId reads the index: with no contract the gate is open.
MintIndex(p) ==
  /\ pc[p] = "mint_index"
  /\ Goto(p, IF row.state = "NONE" THEN "mint_tip" ELSE "mint_row")
  /\ UNCHANGED <<row, minted, crashes, history>>

MintRow(p) ==
  /\ pc[p] = "mint_row"
  /\ IF MayMint(row, approval[p]) THEN Goto(p, "mint_tip") ELSE Return(p)
  /\ UNCHANGED <<row, minted, crashes, history>>

\* The evaluation, its expiry and the tip may refuse the mint for reasons of
\* their own.
MintTip(p) ==
  /\ pc[p] = "mint_tip"
  /\ Goto(p, "mint_put") \/ Return(p)
  /\ UNCHANGED <<row, minted, crashes, history>>

MintPut(p) ==
  /\ pc[p] = "mint_put"
  /\ minted' = TRUE
  /\ Return(p)
  /\ UNCHANGED <<row, crashes, history>>

\* An instance is lost, or a store error ends the call.
Crash(p) ==
  /\ pc[p] # "idle"
  /\ crashes < MaxCrashes
  /\ crashes' = crashes + 1
  /\ Return(p)
  /\ UNCHANGED <<row, minted, history>>

-----------------------------------------------------------------------------

BeginCall(p) ==
  \/ StartCreate(p)
  \/ \E k \in Severity : StartSignal(p, k)
  \/ StartFailure(p)
  \/ \E approved \in BOOLEAN : StartMint(p, approved)

Step(p) ==
  \/ CreateInsert(p)
  \/ SignalPut(p) \/ FailurePut(p)
  \/ MintIndex(p) \/ MintRow(p) \/ MintTip(p) \/ MintPut(p)

Next == \E p \in Proc : BeginCall(p) \/ Step(p) \/ Crash(p)

Spec == Init /\ [][Next]_vars

-----------------------------------------------------------------------------
(* What is promised.                                                       *)

\* The state that a set of reports calls for: that of the worst one.
Stands(state, reports) ==
  CASE "FAILURE" \in reports -> state = "RESOLUTION_OPENED"
    [] "HIGH" \in reports /\ "FAILURE" \notin reports -> state = "FROZEN"
    [] "MEDIUM" \in reports /\ reports \cap {"HIGH", "FAILURE"} = {}
         -> state = "ESCALATED"
    [] OTHER -> state \in {"NONE", "ACTIVE"}

\* A stored row is consistent in itself, whatever writes were lost: outside a
\* resolution its state and its risk are those of the worst signal it lists
\* (recordRiskSignal, markVerifiedOutcomeFailure).
Coherent(r) ==
  /\ r.state = "NONE" => r.signals = {}
  /\ r.state = "RESOLUTION_OPENED" => r.risk = "UNACCEPTABLE"
  /\ r.state # "RESOLUTION_OPENED" =>
       /\ Stands(r.state, r.signals)
       /\ r.risk = CASE r.state = "FROZEN" -> "UNACCEPTABLE"
                     [] r.state = "ESCALATED" -> "ELEVATED"
                     [] OTHER -> "HEALTHY"
PostureMatchesSignals == Coherent(row)

\* While reports do not overlap, the contract stands for the worst report that
\* was ever accepted, in whatever order the reports came, and lists every
\* signal: no signal, re-creation or repeated failure takes it back. The comment
\* "Escalation is monotonic" (severityTarget) says so of overlapping reports too;
\* there a weaker signal that read the row first does take a stronger one back.
WorstReportStands ==
  ~ shared => Stands(row.state, accepted) /\ accepted \ {"FAILURE"} = row.signals

\* A mint that begins after a HIGH signal or a failure was accepted produces no
\* grant, and after a MEDIUM one only with an approval, while reports do not
\* overlap (the gate in mintGrantFromEvaluation).
GateHolds ==
  \A p \in Proc : pc[p] \in {"mint_tip", "mint_put"} /\ ~ shared =>
    /\ knew[p] \cap {"HIGH", "FAILURE"} = {}
    /\ "MEDIUM" \in knew[p] => approval[p]

-----------------------------------------------------------------------------
(* The inductive invariant behind them.                                    *)

Reporting(p) == pc[p] \in WriterPC

\* Two reports that overlap are never overlooked.
OverlapIsNoted ==
  \A p, q \in Proc : p # q /\ Reporting(p) /\ Reporting(q) => shared

\* What a report is about to put follows from the row that is there.
CopyIsCoherent == \A p \in Proc : Reporting(p) => Coherent(copy[p])
CopyIsFresh ==
  \A p \in Proc : Reporting(p) /\ ~ shared =>
    /\ row.state # "NONE"
    /\ pc[p] = "signal_put" => /\ kind[p] \in Severity
                               /\ row.state # "RESOLUTION_OPENED"
                               /\ copy[p] = Recorded(row, kind[p])
    /\ pc[p] = "failure_put" => /\ kind[p] = "FAILURE"
                                /\ copy[p] = MarkedFailed(row)

\* What a minting call knew is still among the accepted reports.
KnowledgeLasts == \A p \in Proc : pc[p] \in MintPC => knew[p] \subseteq accepted

MonitorInv ==
  /\ OverlapIsNoted
  /\ CopyIsCoherent
  /\ CopyIsFresh
  /\ KnowledgeLasts
  /\ PostureMatchesSignals
  /\ WorstReportStands
  /\ GateHolds
=============================================================================
