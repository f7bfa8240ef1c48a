---------------------------- MODULE StoreProofs ----------------------------
(***************************************************************************)
(* Theorems about the two components whose rows are put without a          *)
(* comparison, for every value of their constants: MonitoringContract, and *)
(* then IntentStates.                                                      *)
(***************************************************************************)
EXTENDS MonitoringContract, IntentStates, TLAPS

-----------------------------------------------------------------------------
(* The pure functions.                                                     *)

\* Reports turn rows into rows.
LEMMA RowsStayRows ==
  ASSUME NEW r \in Row
  PROVE  /\ \A k \in Severity : Recorded(r, k) \in Row
         /\ MarkedFailed(r) \in Row
         /\ Opened \in Row /\ NoRow \in Row
BY DEF Row, State, Risk, Severity, Recorded, MarkedFailed, Opened, NoRow, TargetState, TargetRisk

\* recordRiskSignal keeps state, risk and signals of an open contract in step.
LEMMA RecordedIsCoherent ==
  ASSUME NEW r \in Row, NEW k \in Severity, Coherent(r),
         r.state \in {"ACTIVE", "ESCALATED", "FROZEN"}
  PROVE  Coherent(Recorded(r, k))
<1> DEFINE n == Recorded(r, k)
<1> USE DEF Severity
<1>0. n.signals = r.signals \cup {k}
  BY DEF Recorded
<1>1. n.state \in {"ACTIVE", "ESCALATED", "FROZEN"}
  BY DEF Recorded, TargetState
<1>2. /\ Stands(r.state, r.signals)
      /\ r.risk = CASE r.state = "FROZEN" -> "UNACCEPTABLE"
                    [] r.state = "ESCALATED" -> "ELEVATED"
                    [] OTHER -> "HEALTHY"
  BY DEF Coherent
<1>3. Stands(n.state, n.signals)
  <2>1. CASE k = "LOW"
    BY <1>0, <1>2, <2>1 DEF Stands, Recorded, TargetState, StateRank
  <2>2. CASE k = "MEDIUM"
    BY <1>0, <1>2, <2>2 DEF Stands, Recorded, TargetState, StateRank
  <2>3. CASE k = "HIGH"
    BY <1>0, <1>2, <2>3 DEF Stands, Recorded, TargetState, StateRank
  <2> QED
    BY <2>1, <2>2, <2>3
<1>4. n.risk = CASE n.state = "FROZEN" -> "UNACCEPTABLE"
                 [] n.state = "ESCALATED" -> "ELEVATED"
                 [] OTHER -> "HEALTHY"
  <2>1. CASE r.state = "ACTIVE"
    BY <1>2, <2>1 DEF Recorded, TargetState, TargetRisk, StateRank, RiskRank
  <2>2. CASE r.state = "ESCALATED"
    BY <1>2, <2>2 DEF Recorded, TargetState, TargetRisk, StateRank, RiskRank
  <2>3. CASE r.state = "FROZEN"
    BY <1>2, <2>3 DEF Recorded, TargetState, TargetRisk, StateRank, RiskRank
  <2> QED
    BY <2>1, <2>2, <2>3
<1> QED
  BY <1>1, <1>3, <1>4 DEF Coherent

\* markVerifiedOutcomeFailure does so too.
LEMMA MarkedIsCoherent ==
  ASSUME NEW r \in Row
  PROVE  Coherent(MarkedFailed(r))
BY DEF Coherent, MarkedFailed, Row

-----------------------------------------------------------------------------
(* Types.                                                                  *)

\* What the calls hold has its type.
CallTypes ==
  /\ pc \in [Proc -> PC]
  /\ copy \in [Proc -> Row]
  /\ kind \in [Proc -> Report]
  /\ approval \in [Proc -> BOOLEAN]

\* A call that goes on keeps the types of what it holds.
LEMMA GotoTypes ==
  ASSUME CallTypes, NEW p \in Proc, NEW l \in PC, Goto(p, l)
  PROVE  CallTypes'
BY DEF CallTypes, Goto

\* So does a call that returns.
LEMMA ReturnTypes ==
  ASSUME CallTypes, NEW p \in Proc, Return(p)
  PROVE  CallTypes'
<1>1. "idle" \in PC /\ NoRow \in Row /\ "LOW" \in Report
  BY DEF PC, NoRow, Row, State, Risk, Report, Severity
<1> QED
  BY <1>1 DEF CallTypes, Return

\* So does a report that begins.
LEMMA ReportTypes ==
  ASSUME CallTypes, NEW p \in Proc, NEW k \in Report, NEW n \in Row,
         NEW l \in WriterPC, StartReport(p, k, n, l)
  PROVE  CallTypes'
BY DEF CallTypes, StartReport, PC

\* So does a mint that begins.
LEMMA MintTypes ==
  ASSUME CallTypes, NEW p \in Proc, NEW approved \in BOOLEAN, StartMint(p, approved)
  PROVE  CallTypes'
BY DEF CallTypes, StartMint, PC, MintPC

\* What is stored, counted and remembered has its type.
StoreTypes ==
  /\ row \in Row
  /\ minted \in BOOLEAN
  /\ crashes \in Nat
  /\ accepted \subseteq Report
  /\ knew \in [Proc -> SUBSET Report]
  /\ shared \in BOOLEAN

\* The types are those of the calls and those of the rest.
LEMMA TypeParts ==
  /\ TypeOK <=> CallTypes /\ StoreTypes
  /\ TypeOK' <=> CallTypes' /\ StoreTypes'
BY DEF TypeOK, CallTypes, StoreTypes

\* Every step keeps the types.
LEMMA TypeStep ==
  ASSUME TypeOK, [Next]_vars
  PROVE  TypeOK'
<1>0. CallTypes /\ StoreTypes
  BY TypeParts
<1>r. /\ \A k \in Severity : Recorded(row, k) \in Row
      /\ MarkedFailed(row) \in Row
      /\ Opened \in Row /\ NoRow \in Row
  BY <1>0, RowsStayRows DEF StoreTypes
<1>p. {"create_insert", "mint_index", "mint_row", "mint_tip", "mint_put"} \subseteq PC
  BY DEF PC, MintPC
<1>k. Severity \subseteq Report /\ "FAILURE" \in Report
  BY DEF Report
<1> SUFFICES ASSUME Next
             PROVE  TypeOK'
  BY <1>0 DEF TypeOK, vars, call, history
<1>1. PICK p \in Proc : BeginCall(p) \/ Step(p) \/ Crash(p)
  BY DEF Next
<1>2. CASE StartCreate(p)
  <2>1. CallTypes'
    BY <1>0, <1>2, <1>p, GotoTypes DEF StartCreate
  <2>2. StoreTypes'
    BY <1>0, <1>2 DEF StartCreate, StoreTypes, history
  <2> QED
    BY <2>1, <2>2, TypeParts
<1>3. ASSUME NEW k \in Severity, StartSignal(p, k)
      PROVE  TypeOK'
  <2>1. CallTypes'
    BY <1>0, <1>3, <1>r, <1>k, ReportTypes DEF StartSignal, WriterPC
  <2>2. StoreTypes'
    BY <1>0, <1>3 DEF StartSignal, StartReport, StoreTypes
  <2> QED
    BY <2>1, <2>2, TypeParts
<1>4. CASE StartFailure(p)
  <2>1. CallTypes'
    BY <1>0, <1>4, <1>r, <1>k, ReportTypes DEF StartFailure, WriterPC
  <2>2. StoreTypes'
    BY <1>0, <1>4 DEF StartFailure, StartReport, StoreTypes
  <2> QED
    BY <2>1, <2>2, TypeParts
<1>5. ASSUME NEW approved \in BOOLEAN, StartMint(p, approved)
      PROVE  TypeOK'
  <2>1. CallTypes'
    BY <1>0, <1>5, MintTypes
  <2>2. StoreTypes'
    BY <1>0, <1>5 DEF StartMint, StoreTypes
  <2> QED
    BY <2>1, <2>2, TypeParts
<1>6. CASE CreateInsert(p)
  <2>1. CallTypes'
    BY <1>0, <1>6, ReturnTypes DEF CreateInsert
  <2>2. StoreTypes'
    BY <1>0, <1>6, <1>r DEF CreateInsert, StoreTypes, history
  <2> QED
    BY <2>1, <2>2, TypeParts
<1>7. CASE PutCopy(p)
  <2>1. CallTypes'
    BY <1>0, <1>7, ReturnTypes DEF PutCopy
  <2>2. StoreTypes'
    BY <1>0, <1>7 DEF PutCopy, StoreTypes, CallTypes
  <2> QED
    BY <2>1, <2>2, TypeParts
<1>8. CASE MintIndex(p) \/ MintRow(p) \/ MintTip(p) \/ MintPut(p)
  <2>1. CallTypes'
    BY <1>0, <1>8, <1>p, GotoTypes, ReturnTypes DEF MintIndex, MintRow, MintTip, MintPut
  <2>2. StoreTypes'
    BY <1>0, <1>8 DEF MintIndex, MintRow, MintTip, MintPut, StoreTypes, history
  <2> QED
    BY <2>1, <2>2, TypeParts
<1>9. CASE Crash(p)
  <2>1. CallTypes'
    BY <1>0, <1>9, ReturnTypes DEF Crash
  <2>2. StoreTypes'
    BY <1>0, <1>9 DEF Crash, StoreTypes, history
  <2> QED
    BY <2>1, <2>2, TypeParts
<1> QED
  BY <1>1, <1>2, <1>3, <1>4, <1>5, <1>6, <1>7, <1>8, <1>9 DEF BeginCall, Step, SignalPut, FailurePut

-----------------------------------------------------------------------------
(* The invariant.                                                          *)

\* What the calls other than p hold is left alone.
OthersKeep(p) ==
  \A q \in Proc \ {p} :
    /\ pc'[q] = pc[q]
    /\ copy'[q] = copy[q]
    /\ kind'[q] = kind[q]
    /\ approval'[q] = approval[q]
    /\ knew'[q] = knew[q]

\* A step that neither begins a report nor writes one keeps what the invariant
\* says of reports.
LEMMA QuietKeepsReports ==
  ASSUME MonitorInv, NEW p \in Proc, OthersKeep(p), pc'[p] \notin WriterPC,
         UNCHANGED <<row, accepted, shared>>
  PROVE  /\ OverlapIsNoted' /\ CopyIsCoherent' /\ CopyIsFresh'
         /\ PostureMatchesSignals' /\ WorstReportStands'
<1>1. \A q \in Proc : Reporting(q)' => q # p /\ Reporting(q)
  BY DEF Reporting, OthersKeep
<1>2. OverlapIsNoted'
  BY <1>1 DEF MonitorInv, OverlapIsNoted
<1>3. CopyIsCoherent'
  BY <1>1 DEF MonitorInv, CopyIsCoherent, OthersKeep
<1>4. CopyIsFresh'
  BY <1>1 DEF MonitorInv, CopyIsFresh, OthersKeep
<1>5. PostureMatchesSignals' /\ WorstReportStands'
  BY DEF MonitorInv, PostureMatchesSignals, WorstReportStands
<1> QED
  BY <1>2, <1>3, <1>4, <1>5

\* A step after which p does not mint keeps what it says of mints.
LEMMA UnmintedKeepsGate ==
  ASSUME MonitorInv, NEW p \in Proc, OthersKeep(p), pc'[p] \notin MintPC,
         accepted \subseteq accepted', shared => shared'
  PROVE  KnowledgeLasts' /\ GateHolds'
<1>1. KnowledgeLasts'
  BY DEF MonitorInv, KnowledgeLasts, OthersKeep
<1>2. GateHolds'
  BY DEF MonitorInv, GateHolds, OthersKeep, MintPC
<1> QED
  BY <1>1, <1>2

\* A call that begins to write a coherent row, computed from the row that is
\* there, keeps the invariant.
LEMMA ReportKeepsInv ==
  ASSUME TypeOK, MonitorInv, NEW p \in Proc, NEW k \in Report, NEW n \in Row,
         NEW l \in WriterPC, StartReport(p, k, n, l), Coherent(n),
         l = "signal_put" => /\ k \in Severity
                             /\ row.state # "RESOLUTION_OPENED"
                             /\ n = Recorded(row, k),
         l = "failure_put" => k = "FAILURE" /\ n = MarkedFailed(row)
  PROVE  MonitorInv'
<1> USE DEF StartReport
<1>0. pc'[p] = l /\ copy'[p] = n /\ kind'[p] = k /\ OthersKeep(p)
  BY DEF TypeOK, OthersKeep
<1>1. \A q \in Proc \ {p} : Reporting(q)' => Reporting(q)
  BY <1>0 DEF Reporting, OthersKeep
<1>2. OverlapIsNoted'
  BY <1>1 DEF MonitorInv, OverlapIsNoted, Reporting
<1>3. CopyIsCoherent'
  BY <1>0, <1>1 DEF MonitorInv, CopyIsCoherent, OthersKeep
<1>4. CopyIsFresh'
  BY <1>0, <1>1 DEF MonitorInv, CopyIsFresh, OthersKeep
<1>5. PostureMatchesSignals' /\ WorstReportStands'
  BY DEF MonitorInv, PostureMatchesSignals, WorstReportStands
<1>6. KnowledgeLasts' /\ GateHolds'
  BY <1>0, UnmintedKeepsGate DEF WriterPC, MintPC
<1> QED
  BY <1>2, <1>3, <1>4, <1>5, <1>6 DEF MonitorInv

\* A put keeps the invariant: its caller is alone, or the overlap is noted.
LEMMA PutKeepsInv ==
  ASSUME TypeOK, MonitorInv, NEW p \in Proc, Reporting(p), PutCopy(p)
  PROVE  MonitorInv'
<1> USE DEF PutCopy
<1>0. pc'[p] = "idle" /\ OthersKeep(p)
  BY DEF TypeOK, OthersKeep, Return
<1>1. \A q \in Proc : Reporting(q)' => q # p /\ Reporting(q)
  BY <1>0 DEF Reporting, OthersKeep, WriterPC
<1>2. OverlapIsNoted'
  BY <1>1 DEF MonitorInv, OverlapIsNoted
<1>c. \A q \in Proc : Reporting(q)' => copy'[q] = copy[q]
  BY <1>0, <1>1 DEF OthersKeep
<1>3. CopyIsCoherent'
  BY <1>1, <1>c DEF MonitorInv, CopyIsCoherent
<1>4. CopyIsFresh'
  BY <1>1 DEF MonitorInv, CopyIsFresh, OverlapIsNoted
<1>5. PostureMatchesSignals'
  BY DEF MonitorInv, CopyIsCoherent, PostureMatchesSignals
<1>6. ASSUME ~ shared
      PROVE  Stands(row'.state, accepted') /\ accepted' \ {"FAILURE"} = row'.signals
  <2>0. /\ Stands(row.state, accepted) /\ accepted \ {"FAILURE"} = row.signals
        /\ row \in Row /\ row.state # "NONE" /\ Coherent(row)
        /\ accepted' = accepted \cup {kind[p]} /\ row' = copy[p]
    BY <1>6 DEF MonitorInv, WorstReportStands, PostureMatchesSignals, CopyIsFresh, TypeOK
  <2>1. CASE pc[p] = "signal_put"
    <3>1. /\ kind[p] \in Severity /\ row' = Recorded(row, kind[p])
          /\ row.state \in {"ACTIVE", "ESCALATED", "FROZEN"}
      BY <1>6, <2>0, <2>1 DEF MonitorInv, CopyIsFresh, Row, State
    <3>2. "FAILURE" \notin accepted
      BY <2>0, <3>1 DEF Stands
    <3>3. accepted' \ {"FAILURE"} = row'.signals /\ "FAILURE" \notin accepted'
      BY <2>0, <3>1, <3>2 DEF Recorded, Severity
    <3>4. row'.state # "RESOLUTION_OPENED"
      BY <3>1 DEF Recorded, TargetState
    <3>5. Stands(row'.state, row'.signals)
      BY <2>0, <3>1, <3>4, RecordedIsCoherent DEF Coherent
    <3> QED
      BY <3>3, <3>5 DEF Stands
  <2>2. CASE pc[p] = "failure_put"
    <3>1. kind[p] = "FAILURE" /\ row' = MarkedFailed(row)
      BY <1>6, <2>0, <2>2 DEF MonitorInv, CopyIsFresh
    <3>2. row'.state = "RESOLUTION_OPENED" /\ row'.signals = row.signals
      BY <2>0, <3>1 DEF MarkedFailed, Row
    <3>3. accepted' = accepted \cup {"FAILURE"}
      BY <2>0, <3>1
    <3>4. Stands(row'.state, accepted')
      BY <3>2, <3>3 DEF Stands
    <3>5. accepted' \ {"FAILURE"} = row'.signals
      BY <2>0, <3>2, <3>3
    <3> QED
      BY <3>4, <3>5
  <2> QED
    BY <2>1, <2>2 DEF Reporting, WriterPC
<1>7. WorstReportStands'
  BY <1>6 DEF WorstReportStands
<1>8. KnowledgeLasts' /\ GateHolds'
  BY <1>0, UnmintedKeepsGate DEF MintPC
<1> QED
  BY <1>2, <1>3, <1>4, <1>5, <1>7, <1>8 DEF MonitorInv

\* An insert keeps the invariant: where there was no contract nothing was
\* accepted.
LEMMA InsertKeepsInv ==
  ASSUME TypeOK, MonitorInv, NEW p \in Proc, CreateInsert(p)
  PROVE  MonitorInv'
<1> USE DEF CreateInsert, history
<1>0. pc'[p] = "idle" /\ OthersKeep(p)
  BY DEF TypeOK, OthersKeep, Return
<1>1. KnowledgeLasts' /\ GateHolds'
  BY <1>0, UnmintedKeepsGate DEF MintPC
<1>2. CASE row.state # "NONE"
  BY <1>0, <1>1, <1>2, QuietKeepsReports DEF MonitorInv, WriterPC
<1>3. CASE row.state = "NONE"
  <2>0. row' = Opened
    BY <1>3
  <2>1. \A q \in Proc : Reporting(q)' => q # p /\ Reporting(q)
    BY <1>0 DEF Reporting, OthersKeep, WriterPC
  <2>2. OverlapIsNoted'
    BY <2>1 DEF MonitorInv, OverlapIsNoted
  <2>c. \A q \in Proc : Reporting(q)' => copy'[q] = copy[q]
    BY <1>0, <2>1 DEF OthersKeep
  <2>3. CopyIsCoherent'
    BY <2>1, <2>c DEF MonitorInv, CopyIsCoherent
  <2>4. CopyIsFresh'
    BY <1>3, <2>1 DEF MonitorInv, CopyIsFresh
  <2>5. PostureMatchesSignals'
    BY <2>0 DEF PostureMatchesSignals, Coherent, Stands, Opened
  <2>6. WorstReportStands'
    BY <1>3, <2>0 DEF MonitorInv, PostureMatchesSignals, Coherent, WorstReportStands, Stands, Opened
  <2> QED
    BY <1>1, <2>2, <2>3, <2>4, <2>5, <2>6 DEF MonitorInv
<1> QED
  BY <1>2, <1>3

\* A mint learns of the reports when it begins, and passes the gate only when
\* none of them forbids it.
LEMMA MintKeepsInv ==
  ASSUME TypeOK, MonitorInv, NEW p \in Proc,
         \/ \E approved \in BOOLEAN : StartMint(p, approved)
         \/ MintIndex(p) \/ MintRow(p) \/ MintTip(p) \/ MintPut(p)
  PROVE  MonitorInv'
<1> USE DEF history
<1>0. OthersKeep(p) /\ pc'[p] \notin WriterPC /\ UNCHANGED <<row, accepted, shared>>
  BY DEF StartMint, MintIndex, MintRow, MintTip, MintPut, Goto, Return, OthersKeep, TypeOK, WriterPC
<1>1. /\ OverlapIsNoted' /\ CopyIsCoherent' /\ CopyIsFresh'
      /\ PostureMatchesSignals' /\ WorstReportStands'
  BY <1>0, QuietKeepsReports
<1>2. KnowledgeLasts'
  <2>1. CASE \E approved \in BOOLEAN : StartMint(p, approved)
    BY <1>0, <2>1 DEF MonitorInv, KnowledgeLasts, OthersKeep, StartMint, TypeOK
  <2>2. CASE MintIndex(p) \/ MintRow(p) \/ MintTip(p) \/ MintPut(p)
    <3>1. pc[p] \in MintPC /\ UNCHANGED knew
      BY <2>2 DEF MintIndex, MintRow, MintTip, MintPut, MintPC
    <3> QED
      BY <1>0, <3>1 DEF MonitorInv, KnowledgeLasts, OthersKeep
  <2> QED
    BY <2>1, <2>2
<1>3. SUFFICES ASSUME pc'[p] \in {"mint_tip", "mint_put"}, ~ shared
               PROVE  /\ knew'[p] \cap {"HIGH", "FAILURE"} = {}
                      /\ "MEDIUM" \in knew'[p] => approval'[p]
  BY <1>0, <1>1, <1>2 DEF MonitorInv, GateHolds, OthersKeep
<1>4. Stands(row.state, accepted)
  BY <1>3 DEF MonitorInv, WorstReportStands
<1>5. CASE \E approved \in BOOLEAN : StartMint(p, approved)
  BY <1>3, <1>5 DEF StartMint, TypeOK
<1>6. CASE MintIndex(p)
  <2>1. knew'[p] = knew[p] /\ knew[p] \subseteq accepted
    BY <1>6 DEF MintIndex, MonitorInv, KnowledgeLasts, MintPC
  <2>2. row.state = "NONE"
    BY <1>3, <1>6 DEF MintIndex, Goto, TypeOK
  <2> QED
    BY <1>4, <2>1, <2>2 DEF Stands
<1>7. CASE MintRow(p)
  <2>1. knew'[p] = knew[p] /\ knew[p] \subseteq accepted
    BY <1>7 DEF MintRow, MonitorInv, KnowledgeLasts, MintPC
  <2>2. MayMint(row, approval[p]) /\ approval'[p] = approval[p]
    BY <1>3, <1>7 DEF MintRow, Goto, Return, TypeOK
  <2>3. CASE row.state \in {"NONE", "ACTIVE"}
    BY <1>4, <2>1, <2>3 DEF Stands
  <2>4. CASE row.state = "ESCALATED" /\ approval[p]
    BY <1>4, <2>1, <2>2, <2>4 DEF Stands
  <2> QED
    BY <2>2, <2>3, <2>4 DEF MayMint
<1>8. CASE MintTip(p)
  <2>1. knew'[p] = knew[p] /\ approval'[p] = approval[p] /\ pc[p] = "mint_tip"
    BY <1>3, <1>8 DEF MintTip, Goto, Return, TypeOK
  <2> QED
    BY <1>3, <2>1 DEF MonitorInv, GateHolds
<1>9. CASE MintPut(p)
  BY <1>3, <1>9 DEF MintPut, Return, TypeOK
<1> QED
  BY <1>5, <1>6, <1>7, <1>8, <1>9

\* Every step keeps the invariant.
LEMMA InvStep ==
  ASSUME TypeOK, MonitorInv, [Next]_vars
  PROVE  MonitorInv'
<1> USE DEF history
<1>1. CASE UNCHANGED vars
  BY <1>1 DEF vars, call, MonitorInv, OverlapIsNoted, CopyIsCoherent, CopyIsFresh, KnowledgeLasts, PostureMatchesSignals, WorstReportStands, GateHolds, Reporting
<1>2. CASE Next
  <2>1. PICK p \in Proc : BeginCall(p) \/ Step(p) \/ Crash(p)
    BY <1>2 DEF Next
  <2>2. CASE StartCreate(p) \/ Crash(p)
    <3>1. OthersKeep(p) /\ pc'[p] \in {"create_insert", "idle"}
      BY <2>2 DEF StartCreate, Crash, Goto, Return, OthersKeep, TypeOK
    <3>2. UNCHANGED <<row, accepted, shared>>
      BY <2>2 DEF StartCreate, Crash
    <3> QED
      BY <3>1, <3>2, QuietKeepsReports, UnmintedKeepsGate DEF MonitorInv, WriterPC, MintPC
  <2>3. ASSUME NEW k \in Severity, StartSignal(p, k)
        PROVE  MonitorInv'
    <3>1. row \in Row /\ row.state \in {"ACTIVE", "ESCALATED", "FROZEN"}
      BY <2>3 DEF StartSignal, StartReport, TypeOK, Row, State
    <3>2. Recorded(row, k) \in Row /\ Coherent(Recorded(row, k))
      BY <3>1, RowsStayRows, RecordedIsCoherent DEF MonitorInv, PostureMatchesSignals
    <3> QED
      BY <2>3, <3>2, ReportKeepsInv DEF StartSignal, Report, WriterPC
  <2>4. CASE StartFailure(p)
    <3>1. MarkedFailed(row) \in Row /\ Coherent(MarkedFailed(row))
      BY RowsStayRows, MarkedIsCoherent DEF TypeOK
    <3> QED
      BY <2>4, <3>1, ReportKeepsInv DEF StartFailure, Report, WriterPC
  <2>5. CASE CreateInsert(p)
    BY <2>5, InsertKeepsInv
  <2>6. CASE SignalPut(p) \/ FailurePut(p)
    BY <2>6, PutKeepsInv DEF SignalPut, FailurePut, Reporting, WriterPC
  <2>7. CASE \/ \E approved \in BOOLEAN : StartMint(p, approved)
             \/ MintIndex(p) \/ MintRow(p) \/ MintTip(p) \/ MintPut(p)
    BY <2>7, MintKeepsInv
  <2> QED
    BY <2>1, <2>2, <2>3, <2>4, <2>5, <2>6, <2>7 DEF BeginCall, Step
<1> QED
  BY <1>1, <1>2

\* What holds in the beginning.
LEMMA Beginning ==
  ASSUME Init
  PROVE  TypeOK /\ MonitorInv
<1> USE DEF Init
<1>1. TypeOK
  BY DEF TypeOK, PC, Row, NoRow, State, Risk, Report, Severity
<1>2. \A p \in Proc : pc[p] = "idle" /\ ~ Reporting(p)
  BY DEF Reporting, WriterPC
<1>3. PostureMatchesSignals /\ WorstReportStands
  BY DEF PostureMatchesSignals, WorstReportStands, Coherent, Stands, NoRow
<1>4. OverlapIsNoted /\ CopyIsCoherent /\ CopyIsFresh
  BY <1>2 DEF OverlapIsNoted, CopyIsCoherent, CopyIsFresh
<1>5. KnowledgeLasts /\ GateHolds
  BY <1>2 DEF KnowledgeLasts, GateHolds, MintPC
<1> QED
  BY <1>1, <1>3, <1>4, <1>5 DEF MonitorInv

-----------------------------------------------------------------------------
(* Theorems.                                                               *)

\* Monitoring contracts and the calls about them keep their types.
THEOREM MonitoringTypes == Spec => []TypeOK
<1>1. Init => TypeOK
  BY Beginning
<1>2. TypeOK /\ [Next]_vars => TypeOK'
  BY TypeStep
<1> QED
  BY <1>1, <1>2, PTL DEF Spec

\* As long as reports do not overlap the contract is what the reports make of
\* it, and mints respect what was known when they began (recordRiskSignal,
\* markVerifiedOutcomeFailure, mintGrantFromEvaluation).
THEOREM MonitoringInvariance == Spec => []MonitorInv
<1>1. Init => TypeOK /\ MonitorInv
  BY Beginning
<1>2. TypeOK /\ MonitorInv /\ [Next]_vars => TypeOK' /\ MonitorInv'
  BY TypeStep, InvStep
<1> QED
  BY <1>1, <1>2, PTL DEF Spec

\* A stored row is coherent, also when reports overlap and writes are lost.
THEOREM Posture == Spec => []PostureMatchesSignals
<1>1. MonitorInv => PostureMatchesSignals
  BY DEF MonitorInv
<1> QED
  BY <1>1, MonitoringInvariance, PTL

\* The contract stands for the worst report that was accepted.
THEOREM Escalation == Spec => []WorstReportStands
<1>1. MonitorInv => WorstReportStands
  BY DEF MonitorInv
<1> QED
  BY <1>1, MonitoringInvariance, PTL

\* No mint that begins after a freeze or a failure was accepted gets through.
THEOREM Gate == Spec => []GateHolds
<1>1. MonitorInv => GateHolds
  BY DEF MonitorInv
<1> QED
  BY <1>1, MonitoringInvariance, PTL

-----------------------------------------------------------------------------
(* The states of an intent: what a step of one request leaves to others.   *)

\* What is stored stays stored, and a verification stays as it is.
Kept == /\ \A i \in Id : states[i] # None => states'[i] # None
        /\ \A i \in Id : artifact[i] # None => artifact'[i] = artifact[i]
StepsAlone(c) == \A d \in Call \ {c} : request'[d] = request[d]

\* The verification of a finalization is a document.
LEMMA VerdictIsStored ==
  ASSUME NEW m \in Content
  PROVE  Verdict(m) \in Artifact /\ Verdict(m) # None
<1>1. Verdict(m) \in Artifact
  BY DEF Verdict, Artifact
<1> QED
  BY <1>1, RowsAssumption

\* A bound that a finalized compilation has stays grounded.
LEMMA GroundedStays ==
  ASSUME Kept, NEW b, Grounded(b)
  PROVE  Grounded(b)'
BY DEF Kept, Grounded, Id

\* A request that does not step stays sound.
LEMMA OthersStaySound ==
  ASSUME StatesTypeOK, Kept, NEW c \in Call, StepsAlone(c),
         \A d \in Call : RequestIsSound(d), RequestIsSound(c)'
  PROVE  \A d \in Call : RequestIsSound(d)'
<1> SUFFICES ASSUME NEW d \in Call, d # c
             PROVE  RequestIsSound(d)'
  OBVIOUS
<1>1. request'[d] = request[d] /\ RequestIsSound(d)
  BY DEF StepsAlone
<1>2. request[d] \in Calls
  BY DEF StatesTypeOK
<1>3. FinalizationIsSound(d) => FinalizationIsSound(d)'
  <2> SUFFICES ASSUME FinalizationIsSound(d)
               PROVE  FinalizationIsSound(d)'
    OBVIOUS
  <2>1. request[d].id \in Id
    BY DEF FinalizationIsSound, Id
  <2>2. request[d].pc = "install" => artifact[request[d].id] # None
    BY <1>2, VerdictIsStored DEF FinalizationIsSound, Calls
  <2> QED
    BY <1>1, <2>1, <2>2 DEF FinalizationIsSound, Kept
<1>4. SupersessionIsSound(d) => SupersessionIsSound(d)'
  BY <1>1 DEF SupersessionIsSound
<1>5. Grounded(request[d].made.bound) => Grounded(request[d].made.bound)'
  BY <1>1, GroundedStays
<1>6. Busy(d) /\ request[d].made # None => request[d].made.id \in Id
  BY <1>2 DEF Calls, Content
<1>7. Busy(d) /\ request[d].made # None /\ states[request[d].made.id] # None
        => states'[request[d].made.id] # None
  BY <1>6 DEF Kept
<1> QED
  BY <1>1, <1>3, <1>4, <1>5, <1>7 DEF RequestIsSound, Busy

-----------------------------------------------------------------------------
(* What a step has to show when no other request is under way.             *)

\* A step of a request that was under way keeps PolicyStands if it keeps what
\* concerns the request itself.
LEMMA PolicyStandsOn ==
  ASSUME PolicyStands, NEW c \in Call, Busy(c), StepsAlone(c), stands' = stands,
         stands # None /\ Alone /\ StandsThrough(c)
           => IF Busy(c)' THEN StandsThrough(c)' ELSE TipStands'
  PROVE  PolicyStands'
<1> SUFFICES ASSUME stands # None
             PROVE  Alone' /\ (Quiet' => TipStands') /\ \A d \in Call : Busy(d)' => StandsThrough(d)'
  BY DEF PolicyStands
<1>1. Alone /\ StandsThrough(c)
  BY DEF PolicyStands
<1>2. \A d \in Call \ {c} : ~Busy(d) /\ ~Busy(d)'
  BY <1>1 DEF Alone, StepsAlone, Busy
<1>3. IF Busy(c)' THEN StandsThrough(c)' ELSE TipStands'
  BY <1>1
<1>4. Alone'
  BY <1>2 DEF Alone
<1>5. Quiet' => TipStands'
  BY <1>3 DEF Quiet, Busy
<1> QED
  BY <1>2, <1>3, <1>4, <1>5

\* TipIsServed likewise.
LEMMA TipIsServedOn ==
  ASSUME TipIsServed, NEW c \in Call, Busy(c), StepsAlone(c), serial' = serial,
         serial /\ Alone /\ SerialThrough(c)
           => /\ (\A n \in 1..MaxVersion : n > TipVersion => artifact[n] = None)'
              /\ (Finalized /\ request[c].pc # "bind" => Readable(tip))'
              /\ Busy(c)' => SerialThrough(c)'
  PROVE  TipIsServed'
<1> SUFFICES ASSUME serial
             PROVE  (/\ Alone
                     /\ \A n \in 1..MaxVersion : n > TipVersion => artifact[n] = None
                     /\ Finalized /\ (\A d \in Call : request[d].pc # "bind") => Readable(tip)
                     /\ \A d \in Call : Busy(d) => SerialThrough(d))'
  BY DEF TipIsServed
<1>1. Alone /\ SerialThrough(c)
  BY DEF TipIsServed
<1>2. \A d \in Call \ {c} : ~Busy(d) /\ ~Busy(d)'
  BY <1>1 DEF Alone, StepsAlone, Busy
<1>3. Alone'
  BY <1>2 DEF Alone
<1> QED
  BY <1>1, <1>2, <1>3

\* A request that arrives leaves the stores alone: it keeps the invariant if it
\* is sound itself, and in step with the tip when it is the only one.
LEMMA BeginKeeps ==
  ASSUME StatesInv, NEW c \in Call, NEW begun \in Calls, NEW p \in Policy \cup {None},
         Begin(c, begun, p), UNCHANGED stores, begun.pc \notin {"idle", "bind"},
         RequestIsSound(c)', Quiet /\ p # None => StandsThrough(c)',
         Quiet /\ serial => SerialThrough(c)'
  PROVE  StatesInv'
<1> USE DEF StatesInv
<1>0. StatesTypeOK
  OBVIOUS
<1>1. /\ request' = [request EXCEPT ![c] = begun] /\ request'[c] = begun
      /\ StepsAlone(c) /\ request[c].pc = "idle" /\ Busy(c)'
      /\ UNCHANGED <<states, tip, artifact>>
  BY <1>0 DEF StatesTypeOK, Begin, StepsAlone, stores, Busy
<1>2. StatesTypeOK'
  <2>1. serial' \in BOOLEAN
    BY DEF Begin
  <2>2. stands' \in Policy \cup {None}
    BY DEF Begin
  <2>3. arrived' \in 0..MaxRequests /\ lost' \in 0..MaxLost
    BY <1>0, StatesAssumption DEF Begin, StatesTypeOK
  <2> QED
    BY <1>0, <1>1, <2>1, <2>2, <2>3 DEF StatesTypeOK
<1>3. RowsAreSound'
  BY <1>1 DEF RowsAreSound, Readable, Grounded, Finalized
<1>4. SuccessorsKeepTerms'
  BY <1>1 DEF SuccessorsKeepTerms
<1>5. \A d \in Call : RequestIsSound(d)'
  BY <1>0, <1>1, OthersStaySound DEF Kept
<1>6. Quiet => \A d \in Call \ {c} : ~Busy(d)'
  BY <1>1 DEF Quiet, StepsAlone, Busy
<1>7. Quiet => Alone'
  BY <1>6 DEF Alone
<1>8. ~Quiet'
  BY <1>1 DEF Quiet, Busy
<1>9. PolicyStands'
  <2> SUFFICES ASSUME stands' # None
               PROVE  Alone' /\ \A d \in Call : Busy(d)' => StandsThrough(d)'
    BY <1>8 DEF PolicyStands
  <2>1. Quiet /\ p # None
    BY DEF Begin
  <2> QED
    BY <1>6, <1>7, <2>1
<1>10. TipIsServed'
  <2> SUFFICES ASSUME serial'
               PROVE  TipIsServed'
    BY DEF TipIsServed
  <2>1. serial /\ Quiet
    BY DEF Begin
  <2>2. \A d \in Call : request[d].pc # "bind"
    BY <2>1 DEF Quiet
  <2>3. /\ \A n \in 1..MaxVersion : n > TipVersion => artifact[n] = None
        /\ Finalized => Readable(tip)
    BY <2>1, <2>2 DEF TipIsServed
  <2>4. /\ (\A n \in 1..MaxVersion : n > TipVersion => artifact[n] = None)'
        /\ (Finalized => Readable(tip))'
    BY <1>1, <2>3 DEF TipVersion, Tip, Finalized, Readable
  <2> QED
    BY <1>6, <1>7, <2>1, <2>4 DEF TipIsServed
<1> QED
  BY <1>2, <1>3, <1>4, <1>5, <1>9, <1>10

\* The idle request and the request as it continues.
LEMMA IdleIsCall == Idle \in Calls
BY DEF Idle, Calls, Stage, Kind

LEMMA Continues ==
  ASSUME StatesTypeOK, NEW c \in Call, NEW next \in Calls, Continue(c, next)
  PROVE  /\ request' \in [Call -> Calls] /\ request'[c] = next /\ StepsAlone(c)
         /\ UNCHANGED <<arrived, lost, stands, serial>>
BY DEF StatesTypeOK, Continue, StepsAlone

\* The version that comes next follows that of the tip.
LEMMA VersionFollows ==
  ASSUME StatesTypeOK, RowsAreSound
  PROVE  /\ TipVersion \in 0..MaxVersion
         /\ NextVersion = TipVersion + 1
         /\ tip # None => tip \in Id /\ Tip = states[tip] /\ Tip \in Content /\ Tip # None
         /\ tip = None => Tip = None
<1>1. tip # None => tip \in Id /\ Tip = states[tip] /\ Tip \in Content /\ Tip # None
  BY DEF StatesTypeOK, RowsAreSound, Tip
<1>2. tip = None => Tip = None
  BY DEF Tip
<1> QED
  BY <1>1, <1>2, StatesAssumption DEF TipVersion, NextVersion, Content

-----------------------------------------------------------------------------
(* The requests that arrive.                                               *)

LEMMA FinalizeKeeps ==
  ASSUME StatesInv, NEW c \in Call, NEW k \in Compilation, Finalize(c, k)
  PROVE  StatesInv'
<1> USE DEF StatesInv
<1> DEFINE begun == [Idle EXCEPT !.pc = "build", !.kind = "finalize", !.id = k,
                                 !.seen = states[k]]
<1>1. /\ begun \in Calls /\ begun.pc = "build" /\ begun.kind = "finalize" /\ begun.id = k
  BY IdleIsCall DEF Idle, Calls, Stage, Kind, Id, StatesTypeOK
<1>2. Begin(c, begun, stands) /\ UNCHANGED stores /\ stands \in Policy \cup {None}
  BY DEF Finalize, StatesTypeOK
<1>3. request'[c] = begun /\ UNCHANGED <<states, tip, artifact>>
  BY <1>2 DEF Begin, StatesTypeOK, stores
<1> HIDE DEF begun
<1>4. RequestIsSound(c)'
  BY <1>1, <1>3 DEF RequestIsSound, FinalizationIsSound
<1>5. Quiet /\ stands # None => StandsThrough(c)'
  <2> SUFFICES ASSUME Quiet, stands # None
               PROVE  StandsThrough(c)'
    OBVIOUS
  <2>1. TipStands /\ stands' = stands
    BY <1>2 DEF PolicyStands, Begin
  <2> QED
    BY <1>1, <1>3, <2>1 DEF StandsThrough, TipStands, Tip
<1>6. SerialThrough(c)'
  BY <1>1, <1>3 DEF SerialThrough
<1> QED
  BY <1>1, <1>2, <1>4, <1>5, <1>6, BeginKeeps

LEMMA SetPolicyKeeps ==
  ASSUME StatesInv, NEW c \in Call, NEW p \in Policy, SetPolicy(c, p)
  PROVE  StatesInv'
<1> USE DEF StatesInv
<1> DEFINE begun == [Idle EXCEPT !.pc = "read", !.kind = "policy", !.policy = p]
<1>1. begun \in Calls /\ begun.pc = "read" /\ begun.kind = "policy" /\ begun.policy = p
  BY IdleIsCall DEF Idle, Calls, Stage, Kind
<1>2. Begin(c, begun, p) /\ UNCHANGED stores
  BY DEF SetPolicy
<1>3. request'[c] = begun /\ UNCHANGED <<states, tip, artifact>>
  BY <1>2 DEF Begin, StatesTypeOK, stores
<1> HIDE DEF begun
<1>4. RequestIsSound(c)'
  BY <1>1, <1>3 DEF RequestIsSound
<1>5. Quiet => StandsThrough(c)'
  <2> SUFFICES ASSUME Quiet
               PROVE  StandsThrough(c)'
    OBVIOUS
  <2>1. stands' = p
    BY <1>2 DEF Begin
  <2> QED
    BY <1>1, <1>3, <2>1 DEF StandsThrough
<1>6. SerialThrough(c)'
  BY <1>1, <1>3 DEF SerialThrough
<1> QED
  BY <1>1, <1>2, <1>4, <1>5, <1>6, BeginKeeps

LEMMA EvidenceCoversKeeps ==
  ASSUME StatesInv, NEW c \in Call, NEW v \in Verification, EvidenceCovers(c, v)
  PROVE  StatesInv'
<1> USE DEF StatesInv
<1> DEFINE begun == [Idle EXCEPT !.pc = "check", !.kind = "supersede", !.id = v,
                                 !.seen = Tip, !.prior = artifact[tip]]
<1>0. /\ tip # None /\ tip \in Id /\ Tip = states[tip] /\ Tip \in Content /\ Tip # None
      /\ artifact[v] = None /\ states[v] = None
  BY VersionFollows DEF EvidenceCovers
<1>1. /\ begun \in Calls /\ begun.pc = "check" /\ begun.kind = "supersede"
      /\ begun.id = v /\ begun.seen = Tip
  BY <1>0, IdleIsCall DEF Idle, Calls, Stage, Kind, Id, StatesTypeOK
<1>2. Begin(c, begun, stands) /\ UNCHANGED stores /\ stands \in Policy \cup {None}
  BY DEF EvidenceCovers, StatesTypeOK
<1>3. request'[c] = begun /\ UNCHANGED <<states, tip, artifact>>
  BY <1>2 DEF Begin, StatesTypeOK, stores
<1> HIDE DEF begun
<1>4. RequestIsSound(c)'
  BY <1>0, <1>1, <1>3 DEF RequestIsSound, SupersessionIsSound
<1>5. Quiet /\ stands # None => StandsThrough(c)'
  <2> SUFFICES ASSUME Quiet, stands # None
               PROVE  StandsThrough(c)'
    OBVIOUS
  <2>1. TipStands /\ stands' = stands
    BY <1>2 DEF PolicyStands, Begin
  <2> QED
    BY <1>1, <1>3, <2>1 DEF StandsThrough, TipStands, Tip
<1>6. SerialThrough(c)'
  BY <1>0, <1>1, <1>3 DEF SerialThrough, Tip
<1> QED
  BY <1>1, <1>2, <1>4, <1>5, <1>6, BeginKeeps

-----------------------------------------------------------------------------
(* The steps of a request under way.                                       *)

\* The step leaves the stores alone.
LEMMA ReadingKeeps ==
  ASSUME StatesInv, NEW c \in Call, NEW next \in Calls, Busy(c), Continue(c, next),
         UNCHANGED stores, RequestIsSound(c)',
         request[c].pc # "bind" /\ next.pc # "bind",
         stands # None /\ StandsThrough(c) /\ Busy(c)' => StandsThrough(c)',
         stands # None /\ StandsThrough(c) /\ ~Busy(c)' => TipStands,
         serial /\ SerialThrough(c) /\ Busy(c)' => SerialThrough(c)'
  PROVE  StatesInv'
<1> USE DEF StatesInv
<1>1. /\ request' \in [Call -> Calls] /\ request'[c] = next /\ StepsAlone(c)
      /\ UNCHANGED <<arrived, lost, stands, serial>>
      /\ UNCHANGED <<states, tip, artifact>>
  BY Continues DEF stores
<1>2. StatesTypeOK'
  BY <1>1 DEF StatesTypeOK
<1>3. RowsAreSound'
  BY <1>1 DEF RowsAreSound, Readable, Grounded, Finalized
<1>4. SuccessorsKeepTerms'
  BY <1>1 DEF SuccessorsKeepTerms
<1>5. \A d \in Call : RequestIsSound(d)'
  BY <1>1, OthersStaySound DEF Kept
<1>6. PolicyStands'
  <2>1. TipStands => TipStands'
    BY <1>1 DEF TipStands, Tip
  <2> QED
    BY <1>1, <2>1, PolicyStandsOn
<1>7. TipIsServed'
  <2> SUFFICES ASSUME serial, Alone, SerialThrough(c)
               PROVE  /\ (\A n \in 1..MaxVersion : n > TipVersion => artifact[n] = None)'
                      /\ (Finalized => Readable(tip))'
                      /\ Busy(c)' => SerialThrough(c)'
    BY <1>1, TipIsServedOn
  <2>1. \A d \in Call : request[d].pc # "bind"
    BY DEF Alone, Busy
  <2>2. /\ \A n \in 1..MaxVersion : n > TipVersion => artifact[n] = None
        /\ Finalized => Readable(tip)
    BY <2>1 DEF TipIsServed
  <2>3. /\ (\A n \in 1..MaxVersion : n > TipVersion => artifact[n] = None)'
        /\ (Finalized => Readable(tip))'
    BY <1>1, <2>2 DEF TipVersion, Tip, Finalized, Readable
  <2> QED
    BY <2>3
<1> QED
  BY <1>2, <1>3, <1>4, <1>5, <1>6, <1>7

LEMMA BuildKeeps ==
  ASSUME StatesInv, NEW c \in Call, Build(c)
  PROVE  StatesInv'
<1> USE DEF StatesInv
<1> DEFINE r == request[c]
           built == [id |-> r.id, version |-> NextVersion, policy |-> None,
                     previous |-> tip, bound |-> BoundOf[r.id]]
           next == [r EXCEPT !.pc = "verify", !.made = IF r.seen = None THEN built ELSE r.seen]
<1>0. r \in Calls /\ r.pc = "build" /\ Busy(c) /\ RequestIsSound(c)
  BY DEF Build, StatesTypeOK, Busy
<1>1. r.kind = "finalize" /\ r.id \in Compilation
  BY <1>0 DEF RequestIsSound, FinalizationIsSound, Busy, Calls, Kind
<1>2. r.seen = None => built \in Content /\ built # None
  <2>1. r.seen = None => NextVersion <= MaxVersion
    BY DEF Build
  <2>2. r.seen = None => NextVersion \in 1..MaxVersion
    BY <2>1, VersionFollows, StatesAssumption
  <2>3. BoundOf[r.id] \in Bound \cup {None} /\ tip \in Id \cup {None} /\ r.id \in Id
    BY <1>1, StatesAssumption DEF StatesTypeOK, Id
  <2> QED
    BY <2>2, <2>3, RowsAssumption DEF Content
<1>3. /\ next \in Calls /\ next.pc = "verify" /\ next.kind = "finalize" /\ next.id = r.id
      /\ next.seen = r.seen /\ next.made # None
      /\ next.seen = None => /\ next.made.id = r.id /\ next.made.bound = BoundOf[r.id]
                             /\ next.made.version = NextVersion
  BY <1>0, <1>1, <1>2 DEF Calls, Stage
<1>4. Continue(c, next) /\ UNCHANGED stores
  BY DEF Build
<1> HIDE DEF next
<1>5. request'[c] = next /\ UNCHANGED <<states, tip, artifact, stands>>
  BY <1>3, <1>4, Continues DEF stores
<1>6. RequestIsSound(c)'
  BY <1>1, <1>3, <1>5 DEF RequestIsSound, FinalizationIsSound
<1>7. StandsThrough(c) => StandsThrough(c)'
  BY <1>1, <1>3, <1>5 DEF StandsThrough, TipStands, Tip
<1>8. SerialThrough(c)'
  <2>1. NextVersion = TipVersion + 1 /\ TipVersion' = TipVersion
    BY <1>5, VersionFollows DEF TipVersion, Tip
  <2> QED
    BY <1>3, <1>5, <2>1 DEF SerialThrough
<1> QED
  BY <1>0, <1>3, <1>4, <1>5, <1>6, <1>7, <1>8, ReadingKeeps DEF Busy

LEMMA CheckTipKeeps ==
  ASSUME StatesInv, NEW c \in Call, CheckTip(c)
  PROVE  StatesInv'
<1> USE DEF StatesInv
<1> DEFINE r == request[c]
<1>0. r \in Calls /\ r.pc = "check" /\ Busy(c) /\ RequestIsSound(c) /\ UNCHANGED stores
  BY DEF CheckTip, StatesTypeOK, Busy
<1>1. r.kind = "supersede" /\ SupersessionIsSound(c)
  BY <1>0 DEF RequestIsSound, FinalizationIsSound, Calls, Kind
<1>2. r.seen \in Content
  BY <1>0, <1>1 DEF SupersessionIsSound, Calls
<1>3. CASE Continue(c, Idle)
  <2>1. request'[c] = Idle /\ UNCHANGED <<states, tip, artifact, stands>>
    BY <1>0, <1>3, IdleIsCall, Continues DEF stores
  <2>2. ~Busy(c)' /\ RequestIsSound(c)'
    BY <2>1 DEF Busy, RequestIsSound, Idle
  <2>3. StandsThrough(c) => TipStands
    BY <1>1 DEF StandsThrough
  <2> QED
    BY <1>0, <1>3, <2>2, <2>3, IdleIsCall, ReadingKeeps DEF Idle
<1>4. CASE Continue(c, [r EXCEPT !.pc = "read", !.policy = r.seen.policy])
  <2> DEFINE next == [r EXCEPT !.pc = "read", !.policy = r.seen.policy]
  <2>1. /\ next \in Calls /\ next.pc = "read" /\ next.kind = "supersede" /\ next.id = r.id
        /\ next.seen = r.seen /\ next.policy = r.seen.policy
    BY <1>0, <1>1, <1>2 DEF Calls, Stage, Content
  <2>2. Continue(c, next)
    BY <1>4
  <2> HIDE DEF next
  <2>3. request'[c] = next /\ UNCHANGED <<states, tip, artifact, stands>>
    BY <1>0, <2>1, <2>2, Continues DEF stores
  <2>4. RequestIsSound(c)'
    BY <1>1, <2>1, <2>3 DEF RequestIsSound, SupersessionIsSound
  <2>5. StandsThrough(c) => StandsThrough(c)'
    BY <1>1, <2>1, <2>3 DEF StandsThrough, TipStands, Tip
  <2>6. SerialThrough(c) => SerialThrough(c)'
    BY <1>0, <1>1, <2>1, <2>3 DEF SerialThrough, Tip
  <2>7. Busy(c)'
    BY <2>1, <2>3 DEF Busy
  <2> QED
    BY <1>0, <2>1, <2>2, <2>4, <2>5, <2>6, <2>7, ReadingKeeps
<1> QED
  BY <1>3, <1>4 DEF CheckTip, End

LEMMA ReadTipKeeps ==
  ASSUME StatesInv, NEW c \in Call, ReadTip(c)
  PROVE  StatesInv'
<1> USE DEF StatesInv
<1> DEFINE r == request[c]
           made == [id |-> IF r.kind = "supersede" THEN r.id ELSE NextVersion,
                    version |-> NextVersion,
                    previous |-> IF r.kind = "supersede" THEN r.seen.id ELSE tip,
                    policy |-> r.policy,
                    bound |-> IF tip = None THEN None ELSE Tip.bound]
           next == [r EXCEPT !.pc = "put", !.made = made]
<1>0. /\ r \in Calls /\ r.pc = "read" /\ Busy(c) /\ RequestIsSound(c) /\ UNCHANGED stores
      /\ NextVersion <= MaxVersion /\ Continue(c, next)
  BY DEF ReadTip, StatesTypeOK, Busy
<1>1. r.kind \in {"policy", "supersede"} /\ (r.kind = "supersede" => SupersessionIsSound(c))
  BY <1>0 DEF RequestIsSound, FinalizationIsSound, Calls, Kind
<1>2. NextVersion \in 1..MaxVersion
  BY <1>0, VersionFollows, StatesAssumption
<1>3. made \in Content
  <2>1. made.id \in Id
    BY <1>1, <1>2 DEF SupersessionIsSound, Id
  <2>2. made.previous \in Id \cup {None}
    BY <1>0, <1>1 DEF SupersessionIsSound, Calls, Content, StatesTypeOK
  <2>3. made.bound \in Bound \cup {None} /\ made.policy \in Policy \cup {None}
    BY <1>0, VersionFollows DEF Calls, Content
  <2> QED
    BY <1>2, <2>1, <2>2, <2>3 DEF Content
<1>4. Grounded(made.bound)
  BY VersionFollows DEF RowsAreSound, Grounded
<1>5. made.id = IF r.kind = "supersede" THEN r.id ELSE NextVersion
  OBVIOUS
<1>6. /\ made.version = NextVersion /\ made.policy = r.policy
      /\ r.kind = "policy" => made.previous = tip
      /\ tip # None => made.bound = Tip.bound
  BY <1>1
<1>7. /\ next \in Calls /\ next.pc = "put" /\ next.kind = r.kind /\ next.id = r.id
      /\ next.seen = r.seen /\ next.policy = r.policy /\ next.made = made
  BY <1>0, <1>3 DEF Calls, Stage
<1>8. made # None
  BY <1>3, RowsAssumption
<1> HIDE DEF next, made
<1>9. request'[c] = next /\ UNCHANGED <<states, tip, artifact, stands>>
  BY <1>0, <1>7, Continues DEF stores
<1>10. RequestIsSound(c)'
  <2>1. Grounded(request[c].made.bound)'
    BY <1>4, <1>7, <1>9 DEF Grounded
  <2> QED
    BY <1>0, <1>1, <1>2, <1>5, <1>6, <1>7, <1>8, <1>9, <2>1 DEF RequestIsSound, SupersessionIsSound
<1>11. StandsThrough(c) => StandsThrough(c)'
  BY <1>1, <1>0, <1>6, <1>7, <1>9 DEF StandsThrough, TipStands, Tip
<1>12. SerialThrough(c) => SerialThrough(c)'
  <2>1. NextVersion = TipVersion + 1 /\ TipVersion' = TipVersion
    BY <1>9, VersionFollows DEF TipVersion, Tip
  <2> QED
    BY <1>0, <1>1, <1>6, <1>7, <1>9, <2>1 DEF SerialThrough, Tip
<1>13. Busy(c)'
  BY <1>7, <1>9 DEF Busy
<1> QED
  BY <1>0, <1>7, <1>10, <1>11, <1>12, <1>13, ReadingKeeps

\* putIfAbsent changes one document, and only from nothing.
LEMMA PutIfAbsentStores ==
  ASSUME StatesTypeOK, NEW i \in Id, NEW entry \in Artifact, PutIfAbsent(i, entry)
  PROVE  /\ artifact' \in [Id -> Artifact \cup {None}]
         /\ \A j \in Id \ {i} : artifact'[j] = artifact[j]
         /\ artifact'[i] = IF artifact[i] = None THEN entry ELSE artifact[i]
BY DEF StatesTypeOK, PutIfAbsent

LEMMA VerifyKeeps ==
  ASSUME StatesInv, NEW c \in Call, VerifyFinalized(c)
  PROVE  StatesInv'
<1> USE DEF StatesInv
<1> DEFINE r == request[c]
           k == r.id
           entry == Verdict(r.made)
           on == [r EXCEPT !.pc = "install"]
<1>0. /\ r \in Calls /\ r.pc = "verify" /\ Busy(c) /\ RequestIsSound(c)
      /\ UNCHANGED <<states, tip>>
  BY DEF VerifyFinalized, StatesTypeOK, Busy
<1>1. /\ r.kind = "finalize" /\ FinalizationIsSound(c)
      /\ k \in Compilation /\ k \in Id /\ r.made \in Content /\ r.made # None
      /\ k \notin 1..MaxVersion /\ k \notin Verification
  BY <1>0, StatesAssumption DEF RequestIsSound, FinalizationIsSound, Calls, Kind, Id
<1>2. entry \in Artifact /\ entry # None
  BY <1>1, VerdictIsStored
<1>3. /\ artifact' \in [Id -> Artifact \cup {None}]
      /\ \A j \in Id \ {k} : artifact'[j] = artifact[j]
      /\ artifact'[k] = IF artifact[k] = None THEN entry ELSE artifact[k]
  BY <1>1, <1>2, PutIfAbsentStores DEF VerifyFinalized
<1>4. /\ on \in Calls /\ on.pc = "install" /\ on.kind = "finalize" /\ on.id = k
      /\ on.seen = r.seen /\ on.made = r.made
  BY <1>0, <1>1 DEF Calls, Stage
<1>5. \/ Continue(c, on) /\ artifact'[k] = entry
      \/ Continue(c, Idle)
  BY <1>3 DEF VerifyFinalized, Stored, End
<1> HIDE DEF on
<1>6. /\ request' \in [Call -> Calls] /\ StepsAlone(c)
      /\ UNCHANGED <<arrived, lost, stands, serial>>
      /\ \/ request'[c] = on /\ artifact'[k] = entry
         \/ request'[c] = Idle
  BY <1>4, <1>5, IdleIsCall, Continues
<1>7. StatesTypeOK'
  BY <1>0, <1>3, <1>6 DEF StatesTypeOK
<1>8. RowsAreSound'
  <2>1. ASSUME NEW j \in Compilation, states[j] # None
        PROVE  Readable(j)'
    <3>1. Readable(j) /\ j \in Id
      BY <2>1 DEF RowsAreSound, Id
    <3>2. artifact'[j] = artifact[j]
      BY <1>3, <3>1 DEF Readable
    <3> QED
      BY <1>0, <3>1, <3>2 DEF Readable
  <2> QED
    BY <1>0, <2>1 DEF RowsAreSound, Grounded, Finalized
<1>9. SuccessorsKeepTerms'
  BY <1>1, <1>3 DEF SuccessorsKeepTerms, Id
<1>10. \A d \in Call : RequestIsSound(d)'
  <2>1. RequestIsSound(c)'
    <3>1. CASE request'[c] = on /\ artifact'[k] = entry
      <4>1. FinalizationIsSound(c)'
        BY <1>0, <1>1, <1>4, <3>1 DEF FinalizationIsSound
      <4> QED
        BY <1>4, <3>1, <4>1 DEF RequestIsSound
    <3>2. CASE request'[c] = Idle
      BY <3>2 DEF RequestIsSound, Busy, Idle
    <3> QED
      BY <1>6, <3>1, <3>2
  <2> QED
    BY <1>0, <1>3, <1>6, <2>1, OthersStaySound DEF Kept
<1>11. PolicyStands'
  <2>1. StandsThrough(c) => TipStands'
    BY <1>0, <1>1, <1>6 DEF StandsThrough, TipStands, Tip
  <2>2. TipStands' /\ Busy(c)' => StandsThrough(c)'
    BY <1>4, <1>6 DEF StandsThrough, TipStands, Tip, Busy, Idle
  <2> QED
    BY <1>0, <1>6, <2>1, <2>2, PolicyStandsOn
<1>12. TipIsServed'
  <2> SUFFICES ASSUME serial, Alone, SerialThrough(c)
               PROVE  /\ (\A n \in 1..MaxVersion : n > TipVersion => artifact[n] = None)'
                      /\ (Finalized => Readable(tip))'
                      /\ Busy(c)' => SerialThrough(c)'
    BY <1>0, <1>6, TipIsServedOn
  <2>1. \A d \in Call : request[d].pc # "bind"
    BY <1>0 DEF Alone, Busy
  <2>2. /\ \A n \in 1..MaxVersion : n > TipVersion => artifact[n] = None
        /\ Finalized => Readable(tip)
    BY <2>1 DEF TipIsServed
  <2>3. TipVersion' = TipVersion /\ (Finalized <=> Finalized')
    BY <1>0 DEF TipVersion, Tip, Finalized
  <2>4. (\A n \in 1..MaxVersion : n > TipVersion => artifact[n] = None)'
    BY <1>1, <1>3, <2>2, <2>3 DEF Id
  <2>5. (Finalized => Readable(tip))'
    <3> SUFFICES ASSUME Finalized
                 PROVE  Readable(tip)'
      BY <2>3
    <3>1. Readable(tip) /\ tip \in Id
      BY <2>2, VersionFollows DEF RowsAreSound
    <3> QED
      BY <1>0, <1>3, <3>1 DEF Readable
  <2>6. Busy(c)' => SerialThrough(c)'
    BY <1>0, <1>1, <1>4, <1>6, <2>3 DEF SerialThrough, Busy, Idle
  <2> QED
    BY <2>4, <2>5, <2>6
<1> QED
  BY <1>7, <1>8, <1>9, <1>10, <1>11, <1>12

LEMMA InstallKeeps ==
  ASSUME StatesInv, NEW c \in Call, Install(c)
  PROVE  StatesInv'
<1> USE DEF StatesInv
<1> DEFINE r == request[c]
           k == r.id
<1>0. /\ r \in Calls /\ r.pc = "install" /\ Busy(c) /\ RequestIsSound(c)
      /\ UNCHANGED <<artifact, arrived, lost, serial>>
      /\ request' = [request EXCEPT ![c] = Idle]
  BY DEF Install, StatesTypeOK, Busy
<1>1. /\ r.kind = "finalize" /\ FinalizationIsSound(c)
      /\ k \in Compilation /\ k \in Id /\ r.made \in Content /\ r.made # None
      /\ k \notin 1..MaxVersion /\ k # None /\ artifact[k] = Verdict(r.made)
  BY <1>0, StatesAssumption DEF RequestIsSound, FinalizationIsSound, Calls, Kind, Id
<1>2. request' \in [Call -> Calls] /\ request'[c] = Idle /\ StepsAlone(c)
  BY <1>0, IdleIsCall DEF StatesTypeOK, StepsAlone
<1>3. ~Busy(c)' /\ RequestIsSound(c)'
  BY <1>2 DEF Busy, RequestIsSound, Idle
<1>4. CASE UNCHANGED <<states, tip, stands>>
  <2>1. Continue(c, Idle) /\ UNCHANGED stores
    BY <1>0, <1>4 DEF Continue, stores
  <2>2. StandsThrough(c) => TipStands
    BY <1>1 DEF StandsThrough
  <2> QED
    BY <1>0, <1>3, <2>1, <2>2, IdleIsCall, ReadingKeeps DEF Idle
<1>5. CASE /\ r.seen = None /\ states[k] = None
           /\ states' = [states EXCEPT ![k] = r.made] /\ tip' = k /\ stands' = None
  <2>0. /\ states'[k] = r.made /\ \A i \in Id \ {k} : states'[i] = states[i]
        /\ states' \in [Id -> Content \cup {None}]
    BY <1>1, <1>5 DEF StatesTypeOK
  <2>1. StatesTypeOK'
    BY <1>0, <1>1, <1>2, <1>5, <2>0 DEF StatesTypeOK
  <2>2. r.made.id = k /\ r.made.bound = BoundOf[k]
    BY <1>0, <1>1, <1>5 DEF FinalizationIsSound
  <2>3. Kept
    BY <1>0, <1>1, <2>0 DEF Kept
  <2>4. artifact'[k] # None /\ artifact'[k].of = states'[k]
    <3>1. Verdict(r.made) # None /\ Verdict(r.made).of = r.made
      BY <1>1, VerdictIsStored DEF Verdict
    <3> QED
      BY <1>0, <1>1, <2>0, <3>1
  <2>5. RowsAreSound'
    <3>1. \A j \in Id : states'[j] # None => Grounded(states[j].bound)'
      <4> SUFFICES ASSUME NEW j \in Id, states'[j] # None, states'[j].bound # None
                   PROVE  \E m \in Compilation : states'[m] # None /\ BoundOf[m] = states'[j].bound
        BY DEF Grounded
      <4>1. CASE j = k
        BY <1>1, <2>0, <2>2, <4>1
      <4>2. CASE j # k
        <5>1. Grounded(states[j].bound) /\ states'[j] = states[j]
          BY <2>0, <4>2 DEF RowsAreSound
        <5> QED
          BY <2>3, <5>1 DEF Grounded, Kept, Id
      <4> QED
        BY <4>1, <4>2
    <3>2. \A j \in Id : states'[j] # None =>
            states'[j].id = j /\ (j \in 1..MaxVersion => states'[j].version = j)
      BY <1>1, <2>0, <2>2 DEF RowsAreSound
    <3>3. ASSUME NEW j \in Compilation, states'[j] # None
          PROVE  Readable(j)'
      <4>1. CASE j = k
        BY <2>4, <4>1 DEF Readable
      <4>2. CASE j # k
        BY <1>0, <2>0, <3>3, <4>2 DEF RowsAreSound, Readable, Id
      <4> QED
        BY <4>1, <4>2
    <3> QED
      BY <1>1, <1>5, <2>0, <3>1, <3>2, <3>3 DEF RowsAreSound
  <2>6. SuccessorsKeepTerms'
    BY <1>0 DEF SuccessorsKeepTerms
  <2>7. \A d \in Call : RequestIsSound(d)'
    BY <1>2, <1>3, <2>3, OthersStaySound
  <2>8. PolicyStands'
    BY <1>5 DEF PolicyStands
  <2>9. TipIsServed'
    <3> SUFFICES ASSUME serial, Alone, SerialThrough(c)
                 PROVE  /\ (\A n \in 1..MaxVersion : n > TipVersion => artifact[n] = None)'
                        /\ (Finalized => Readable(tip))'
                        /\ Busy(c)' => SerialThrough(c)'
      BY <1>0, <1>2, TipIsServedOn
    <3>1. r.made.version = TipVersion + 1
      BY <1>0, <1>1, <1>5 DEF SerialThrough
    <3>2. TipVersion' = r.made.version
      BY <1>1, <1>5, <2>0 DEF TipVersion, Tip
    <3>3. TipVersion' > TipVersion /\ TipVersion' \in Nat /\ TipVersion \in Nat
      BY <3>1, <3>2, VersionFollows, StatesAssumption
    <3>4. \A n \in 1..MaxVersion : n > TipVersion => artifact[n] = None
      BY DEF TipIsServed
    <3>5. Readable(tip)'
      BY <1>5, <2>4 DEF Readable
    <3> QED
      BY <1>0, <1>3, <3>3, <3>4, <3>5
  <2> QED
    BY <2>1, <2>5, <2>6, <2>7, <2>8, <2>9
<1> QED
  BY <1>4, <1>5 DEF Install

LEMMA PutStateKeeps ==
  ASSUME StatesInv, NEW c \in Call, PutState(c)
  PROVE  StatesInv'
<1> USE DEF StatesInv
<1> DEFINE r == request[c]
           i == r.made.id
           next == [r EXCEPT !.pc = "move"]
<1>0. /\ r \in Calls /\ r.pc = "put" /\ Busy(c) /\ RequestIsSound(c)
      /\ UNCHANGED <<tip, artifact>> /\ Continue(c, next)
      /\ states' = [states EXCEPT ![i] = r.made]
  BY DEF PutState, StatesTypeOK, Busy
<1>1. r.kind \in {"policy", "supersede"} /\ (r.kind = "supersede" => SupersessionIsSound(c))
  BY <1>0 DEF RequestIsSound, FinalizationIsSound, Calls, Kind
<1>2. r.made # None /\ r.made \in Content /\ Grounded(r.made.bound)
  BY <1>0, <1>1 DEF RequestIsSound, Calls
<1>3. /\ r.kind = "policy" => i \in 1..MaxVersion /\ r.made.version = i
      /\ r.kind = "supersede" => i = r.id /\ i \in Verification
      /\ i \in Id /\ i \notin Compilation
      /\ i \in 1..MaxVersion => r.made.version = i
  BY <1>0, <1>1, StatesAssumption DEF RequestIsSound, SupersessionIsSound, Id
<1>4. /\ next \in Calls /\ next.pc = "move" /\ next.kind = r.kind /\ next.id = r.id
      /\ next.seen = r.seen /\ next.policy = r.policy /\ next.made = r.made
  BY <1>0 DEF Calls, Stage
<1> HIDE DEF next
<1>5. /\ request' \in [Call -> Calls] /\ request'[c] = next /\ StepsAlone(c)
      /\ UNCHANGED <<arrived, lost, stands, serial>>
  BY <1>0, <1>4, Continues
<1>6. /\ states'[i] = r.made /\ \A j \in Id \ {i} : states'[j] = states[j]
      /\ states' \in [Id -> Content \cup {None}]
  BY <1>0, <1>2, <1>3 DEF StatesTypeOK
<1>7. StatesTypeOK'
  BY <1>0, <1>5, <1>6 DEF StatesTypeOK
<1>8. Kept /\ (Finalized <=> Finalized') /\ \A k \in Compilation : states'[k] = states[k]
  BY <1>0, <1>2, <1>3, <1>6 DEF Kept, Finalized, Id
<1>9. RowsAreSound'
  <2>1. \A j \in Id : states'[j] # None => Grounded(states[j].bound)'
    BY <1>2, <1>6, <1>8 DEF RowsAreSound, Grounded
  <2>2. \A j \in Id : states'[j] # None =>
          states'[j].id = j /\ (j \in 1..MaxVersion => states'[j].version = j)
    BY <1>3, <1>6 DEF RowsAreSound
  <2>3. \A k \in Compilation : states'[k] # None => Readable(k)'
    BY <1>0, <1>8 DEF RowsAreSound, Readable
  <2>4. tip' # None => states'[tip'] # None
    BY <1>0, <1>8, VersionFollows DEF RowsAreSound, Kept
  <2> QED
    BY <1>0, <1>8, <2>1, <2>2, <2>3, <2>4 DEF RowsAreSound
<1>10. SuccessorsKeepTerms'
  BY <1>0 DEF SuccessorsKeepTerms
<1>11. \A d \in Call : RequestIsSound(d)'
  <2>1. Grounded(request[c].made.bound)'
    BY <1>2, <1>4, <1>5, <1>8 DEF Grounded
  <2>2. RequestIsSound(c)'
    BY <1>0, <1>1, <1>2, <1>3, <1>4, <1>5, <1>6, <2>1 DEF RequestIsSound, SupersessionIsSound
  <2> QED
    BY <1>5, <1>8, <2>2, OthersStaySound
<1>12. PolicyStands'
  <2> SUFFICES ASSUME stands # None, StandsThrough(c)
               PROVE  StandsThrough(c)'
    BY <1>0, <1>4, <1>5, PolicyStandsOn DEF Busy
  <2>1. r.kind = "supersede" => TipStands'
    <3> SUFFICES ASSUME r.kind = "supersede"
                 PROVE  TipStands'
      OBVIOUS
    <3>1. TipStands /\ r.made.policy = stands
      BY <1>0, <1>1 DEF StandsThrough, SupersessionIsSound
    <3> QED
      BY <1>0, <1>5, <1>6, <3>1, VersionFollows DEF TipStands, Tip
  <2> QED
    BY <1>0, <1>1, <1>4, <1>5, <1>6, <2>1 DEF StandsThrough
<1>13. TipIsServed'
  <2> SUFFICES ASSUME serial, Alone, SerialThrough(c)
               PROVE  /\ (\A n \in 1..MaxVersion : n > TipVersion => artifact[n] = None)'
                      /\ (Finalized => Readable(tip))'
                      /\ SerialThrough(c)'
    BY <1>0, <1>5, TipIsServedOn
  <2>1. \A d \in Call : request[d].pc # "bind"
    BY <1>0 DEF Alone, Busy
  <2>2. /\ \A n \in 1..MaxVersion : n > TipVersion => artifact[n] = None
        /\ Finalized => Readable(tip)
    BY <2>1 DEF TipIsServed
  <2>3. r.made.version = TipVersion + 1
    BY <1>0, <1>1 DEF SerialThrough
  <2>4. tip # i
    <3>1. CASE r.kind = "policy"
      <4>1. tip \in 1..MaxVersion => TipVersion = tip
        BY VersionFollows, StatesAssumption DEF RowsAreSound, TipVersion
      <4> QED
        BY <1>3, <2>3, <3>1, <4>1, StatesAssumption
    <3>2. CASE r.kind = "supersede"
      BY <1>0, <1>3, <3>2 DEF SerialThrough
    <3> QED
      BY <1>1, <3>1, <3>2
  <2>5. Tip' = Tip /\ TipVersion' = TipVersion
    BY <1>0, <1>6, <2>4, VersionFollows DEF Tip, TipVersion
  <2>6. (\A n \in 1..MaxVersion : n > TipVersion => artifact[n] = None)'
    BY <1>0, <2>2, <2>5
  <2>7. (Finalized => Readable(tip))'
    BY <1>0, <1>6, <1>8, <2>2, <2>4, VersionFollows DEF RowsAreSound, Readable
  <2>8. SerialThrough(c)'
    BY <1>0, <1>1, <1>4, <1>5, <1>6, <2>5 DEF SerialThrough
  <2> QED
    BY <2>6, <2>7, <2>8
<1> QED
  BY <1>7, <1>9, <1>10, <1>11, <1>12, <1>13

LEMMA SetTipKeeps ==
  ASSUME StatesInv, NEW c \in Call, SetTip(c)
  PROVE  StatesInv'
<1> USE DEF StatesInv
<1> DEFINE r == request[c]
           i == r.made.id
           next == [r EXCEPT !.pc = "bind"]
<1>0. /\ r \in Calls /\ r.pc = "move" /\ Busy(c) /\ RequestIsSound(c)
      /\ UNCHANGED <<states, artifact>> /\ Continue(c, next) /\ tip' = i
  BY DEF SetTip, StatesTypeOK, Busy
<1>1. r.kind \in {"policy", "supersede"} /\ (r.kind = "supersede" => SupersessionIsSound(c))
  BY <1>0 DEF RequestIsSound, FinalizationIsSound, Calls, Kind
<1>2. r.made # None /\ r.made \in Content /\ i \in Id /\ i # None /\ states[i] # None
  <2>1. r.made # None /\ r.made \in Content /\ states[i] # None
    BY <1>0, <1>1 DEF RequestIsSound, Calls
  <2> QED
    BY <2>1, StatesAssumption DEF Content, Id
<1>3. /\ next \in Calls /\ next.pc = "bind" /\ next.kind = r.kind /\ next.id = r.id
      /\ next.seen = r.seen /\ next.policy = r.policy /\ next.made = r.made
  BY <1>0 DEF Calls, Stage
<1> HIDE DEF next
<1>4. /\ request' \in [Call -> Calls] /\ request'[c] = next /\ StepsAlone(c)
      /\ UNCHANGED <<arrived, lost, stands, serial>>
  BY <1>0, <1>3, Continues
<1>5. StatesTypeOK'
  BY <1>0, <1>2, <1>4 DEF StatesTypeOK
<1>6. RowsAreSound'
  BY <1>0, <1>2 DEF RowsAreSound, Readable, Grounded
<1>7. SuccessorsKeepTerms'
  BY <1>0 DEF SuccessorsKeepTerms
<1>8. \A d \in Call : RequestIsSound(d)'
  <2>1. Grounded(request[c].made.bound) => Grounded(request[c].made.bound)'
    BY <1>0, <1>3, <1>4 DEF Grounded
  <2>2. RequestIsSound(c)'
    BY <1>0, <1>1, <1>3, <1>4, <2>1 DEF RequestIsSound, SupersessionIsSound
  <2> QED
    BY <1>0, <1>4, <2>2, OthersStaySound DEF Kept
<1>9. PolicyStands'
  <2> SUFFICES ASSUME stands # None, StandsThrough(c)
               PROVE  StandsThrough(c)'
    BY <1>0, <1>3, <1>4, PolicyStandsOn DEF Busy
  <2>1. states[i] = r.made /\ tip' = i /\ Tip' = r.made
    BY <1>0, <1>1, <1>2 DEF StandsThrough, Tip
  <2>2. r.kind = "supersede" => r.made.policy = stands /\ r.seen.policy = stands
    BY <1>0, <1>1 DEF StandsThrough, SupersessionIsSound
  <2> QED
    BY <1>0, <1>1, <1>2, <1>3, <1>4, <2>1, <2>2 DEF StandsThrough, TipStands
<1>10. TipIsServed'
  <2> SUFFICES ASSUME serial, Alone, SerialThrough(c)
               PROVE  /\ (\A n \in 1..MaxVersion : n > TipVersion => artifact[n] = None)'
                      /\ SerialThrough(c)'
    BY <1>0, <1>3, <1>4, TipIsServedOn
  <2>1. \A d \in Call : request[d].pc # "bind"
    BY <1>0 DEF Alone, Busy
  <2>2. /\ \A n \in 1..MaxVersion : n > TipVersion => artifact[n] = None
        /\ Finalized => Readable(tip)
    BY <2>1 DEF TipIsServed
  <2>3. r.made.version = TipVersion + 1 /\ states[i] = r.made
    BY <1>0, <1>1 DEF SerialThrough
  <2>4. TipVersion' = r.made.version /\ TipVersion \in Nat /\ TipVersion' \in Nat /\ TipVersion' > TipVersion
    BY <1>0, <1>2, <2>3, VersionFollows, StatesAssumption DEF TipVersion, Tip
  <2>5. artifact[i] = None
    <3>1. CASE r.kind = "policy"
      <4>1. i \in 1..MaxVersion /\ r.made.version = i
        BY <1>0, <3>1 DEF RequestIsSound
      <4> QED
        BY <2>2, <2>3, <2>4, <4>1
    <3>2. CASE r.kind = "supersede"
      BY <1>0, <1>1, <3>2 DEF SerialThrough, SupersessionIsSound
    <3> QED
      BY <1>1, <3>1, <3>2
  <2>6. r.kind = "policy" /\ Finalized => r.made.previous # None /\ artifact[r.made.previous] # None
    BY <1>0, <2>2 DEF SerialThrough, RowsAreSound, Readable
  <2>7. Finalized <=> Finalized'
    BY <1>0 DEF Finalized
  <2>8. r.kind = "supersede" => artifact[r.id] = None /\ r.made.bound = r.seen.bound
    BY <1>0 DEF SerialThrough
  <2>9. SerialThrough(c)'
    BY <1>0, <1>1, <1>3, <1>4, <2>3, <2>5, <2>6, <2>7, <2>8 DEF SerialThrough
  <2>10. (\A n \in 1..MaxVersion : n > TipVersion => artifact[n] = None)'
    BY <1>0, <2>2, <2>4, StatesAssumption
  <2> QED
    BY <2>9, <2>10
<1> QED
  BY <1>5, <1>6, <1>7, <1>8, <1>9, <1>10

\* The last step of a policy and of a supersession: what it has to show when it
\* stores at most one verification, of the state it made.
LEMMA BindingKeeps ==
  ASSUME StatesInv, NEW c \in Call, request[c].pc = "bind", UNCHANGED <<states, tip>>,
         Continue(c, Idle), artifact' \in [Id -> Artifact \cup {None}],
         NEW i \in Id \ Compilation,
         \A j \in Id \ {i} : artifact'[j] = artifact[j],
         artifact[i] # None => artifact'[i] = artifact[i],
         SuccessorsKeepTerms',
         stands # None /\ StandsThrough(c) => TipStands,
         serial /\ SerialThrough(c) =>
           /\ \A n \in 1..MaxVersion : n > TipVersion => n # i
           /\ Finalized => Readable(tip)'
  PROVE  StatesInv'
<1> USE DEF StatesInv
<1>1. /\ request' \in [Call -> Calls] /\ request'[c] = Idle /\ StepsAlone(c)
      /\ UNCHANGED <<arrived, lost, stands, serial>> /\ Busy(c)
  BY IdleIsCall, Continues DEF Busy
<1>2. ~Busy(c)' /\ RequestIsSound(c)'
  BY <1>1 DEF Busy, RequestIsSound, Idle
<1>3. StatesTypeOK'
  BY <1>1 DEF StatesTypeOK
<1>4. RowsAreSound'
  <2>1. \A k \in Compilation : states'[k] # None => Readable(k)'
    BY DEF RowsAreSound, Readable, Id
  <2> QED
    BY <2>1 DEF RowsAreSound, Grounded, Finalized
<1>5. \A d \in Call : RequestIsSound(d)'
  <2>1. Kept
    BY DEF Kept
  <2> QED
    BY <1>1, <1>2, <2>1, OthersStaySound
<1>6. PolicyStands'
  <2>1. TipStands => TipStands'
    BY <1>1 DEF TipStands, Tip
  <2> QED
    BY <1>1, <1>2, <2>1, PolicyStandsOn
<1>7. TipIsServed'
  <2> SUFFICES ASSUME serial, Alone, SerialThrough(c)
               PROVE  /\ (\A n \in 1..MaxVersion : n > TipVersion => artifact[n] = None)'
                      /\ (Finalized => Readable(tip))'
                      /\ Busy(c)' => SerialThrough(c)'
    BY <1>1, TipIsServedOn
  <2>1. TipVersion' = TipVersion /\ (Finalized' <=> Finalized)
    BY DEF TipVersion, Tip, Finalized
  <2>2. \A n \in 1..MaxVersion : n > TipVersion => artifact[n] = None
    BY DEF TipIsServed
  <2>3. \A n \in 1..MaxVersion : n > TipVersion => artifact'[n] = artifact[n]
    BY DEF Id
  <2> QED
    BY <1>2, <2>1, <2>2, <2>3
<1> QED
  BY <1>3, <1>4, <1>5, <1>6, <1>7

LEMMA RebindKeeps ==
  ASSUME StatesInv, NEW c \in Call, RebindVerification(c)
  PROVE  StatesInv'
<1> USE DEF StatesInv
<1> DEFINE r == request[c]
           s == r.made
           entry == [artifact[s.previous] EXCEPT !.of = s]
<1>0. /\ r \in Calls /\ r.pc = "bind" /\ r.kind = "policy" /\ RequestIsSound(c) /\ Busy(c)
      /\ UNCHANGED <<states, tip>> /\ Continue(c, Idle)
  BY DEF RebindVerification, StatesTypeOK, Busy, End
<1>1. s # None /\ s \in Content /\ s.id \in 1..MaxVersion /\ s.version = s.id
  BY <1>0 DEF RequestIsSound, Calls
<1>2. s.id \in Id \ Compilation /\ s.id \notin Verification /\ s.id # None
  BY <1>1, StatesAssumption DEF Id
<1>3. /\ artifact' \in [Id -> Artifact \cup {None}]
      /\ \A j \in Id \ {s.id} : artifact'[j] = artifact[j]
      /\ artifact[s.id] # None => artifact'[s.id] = artifact[s.id]
      /\ s.previous # None /\ artifact[s.previous] # None /\ artifact[s.id] = None
           => artifact'[s.id] # None /\ artifact'[s.id].of = s
  <2>1. CASE s.previous # None /\ artifact[s.previous] # None
    <3>1. artifact[s.previous] \in Artifact
      BY <1>1, <2>1 DEF Content, StatesTypeOK
    <3>2. entry \in Artifact /\ entry.of = s
      BY <1>1, <3>1 DEF Artifact
    <3>3. PutIfAbsent(s.id, entry) /\ entry # None
      BY <2>1, <3>2, RowsAssumption DEF RebindVerification
    <3> HIDE DEF entry
    <3> QED
      BY <1>2, <3>2, <3>3, PutIfAbsentStores
  <2>2. CASE ~(s.previous # None /\ artifact[s.previous] # None)
    BY <2>2 DEF RebindVerification, StatesTypeOK
  <2> QED
    BY <2>1, <2>2
<1>4. SuccessorsKeepTerms'
  BY <1>2, <1>3 DEF SuccessorsKeepTerms, Id
<1>5. stands # None /\ StandsThrough(c) => TipStands
  BY <1>0, <1>2 DEF StandsThrough, TipStands, Tip
<1>6. ASSUME serial, SerialThrough(c)
      PROVE  /\ \A n \in 1..MaxVersion : n > TipVersion => n # s.id
             /\ Finalized => Readable(tip)'
  <2>1. /\ tip = s.id /\ states[tip] = s /\ artifact[tip] = None
        /\ Finalized => s.previous # None /\ artifact[s.previous] # None
    BY <1>0, <1>6 DEF SerialThrough
  <2>2. TipVersion = s.id
    BY <1>1, <1>2, <2>1 DEF TipVersion, Tip
  <2>3. Finalized => Readable(tip)'
    BY <1>0, <1>3, <2>1 DEF Readable
  <2> QED
    BY <1>1, <2>2, <2>3, StatesAssumption
<1> HIDE DEF entry
<1> QED
  BY <1>0, <1>2, <1>3, <1>4, <1>5, <1>6, BindingKeeps

LEMMA BindSuccessorKeeps ==
  ASSUME StatesInv, NEW c \in Call, BindSuccessor(c)
  PROVE  StatesInv'
<1> USE DEF StatesInv
<1> DEFINE r == request[c]
           s == r.made
           entry == [of |-> s, over |-> r.seen, summary |-> s]
<1>0. /\ r \in Calls /\ r.pc = "bind" /\ r.kind = "supersede" /\ RequestIsSound(c) /\ Busy(c)
      /\ UNCHANGED <<states, tip>> /\ Continue(c, Idle)
  BY DEF BindSuccessor, StatesTypeOK, Busy, End
<1>1. /\ s # None /\ s \in Content /\ SupersessionIsSound(c)
      /\ r.seen \in Content /\ s.policy = r.seen.policy
      /\ s.id = r.id /\ r.id \in Verification
  BY <1>0 DEF RequestIsSound, SupersessionIsSound, Calls
<1>2. s.id \in Id \ Compilation /\ s.id \notin 1..MaxVersion
  BY <1>1, StatesAssumption DEF Id
<1>3. entry \in Artifact /\ entry # None /\ entry.of = s /\ entry.over = r.seen
  BY <1>1, RowsAssumption DEF Artifact
<1>4. IF s.bound = r.seen.bound THEN PutIfAbsent(s.id, entry) ELSE UNCHANGED artifact
  BY <1>0 DEF BindSuccessor
<1> HIDE DEF entry
<1>5. /\ artifact' \in [Id -> Artifact \cup {None}]
      /\ \A j \in Id \ {s.id} : artifact'[j] = artifact[j]
      /\ artifact[s.id] # None => artifact'[s.id] = artifact[s.id]
      /\ artifact[s.id] = None =>
           artifact'[s.id] = IF s.bound = r.seen.bound THEN entry ELSE None
  <2>1. CASE s.bound = r.seen.bound
    BY <1>2, <1>3, <1>4, <2>1, PutIfAbsentStores
  <2>2. CASE s.bound # r.seen.bound
    BY <1>4, <2>2 DEF StatesTypeOK
  <2> QED
    BY <2>1, <2>2
<1>6. SuccessorsKeepTerms'
  <2> SUFFICES ASSUME NEW v \in Verification, artifact'[v] # None
               PROVE  /\ artifact'[v].of.policy = artifact'[v].over.policy
                      /\ artifact'[v].of.bound = artifact'[v].over.bound
    BY DEF SuccessorsKeepTerms
  <2>1. CASE artifact'[v] = artifact[v]
    BY <2>1 DEF SuccessorsKeepTerms
  <2>2. CASE v = s.id /\ artifact[v] = None
    <3>1. s.bound = r.seen.bound /\ artifact'[v] = entry
      BY <1>5, <2>2
    <3> QED
      BY <1>1, <1>3, <3>1
  <2> QED
    BY <1>5, <2>1, <2>2 DEF Id
<1>7. stands # None /\ StandsThrough(c) => TipStands
  BY <1>0 DEF StandsThrough
<1>8. ASSUME serial, SerialThrough(c)
      PROVE  /\ \A n \in 1..MaxVersion : n > TipVersion => n # s.id
             /\ Finalized => Readable(tip)'
  <2>1. tip = s.id /\ states[tip] = s /\ artifact[tip] = None /\ s.bound = r.seen.bound
    BY <1>0, <1>8 DEF SerialThrough
  <2>2. Readable(tip)'
    BY <1>0, <1>3, <1>5, <2>1 DEF Readable
  <2> QED
    BY <1>2, <2>2
<1> QED
  BY <1>0, <1>2, <1>5, <1>6, <1>7, <1>8, BindingKeeps

LEMMA LoseKeeps ==
  ASSUME StatesInv, NEW c \in Call, Lose(c)
  PROVE  StatesInv'
<1> USE DEF StatesInv
<1>1. /\ request' \in [Call -> Calls] /\ request'[c] = Idle /\ StepsAlone(c)
      /\ serial' = FALSE /\ stands' = None
      /\ UNCHANGED <<states, tip, artifact, arrived>>
  BY IdleIsCall DEF Lose, StatesTypeOK, StepsAlone
<1>2. StatesTypeOK'
  <2>1. lost' \in 0..MaxLost
    BY StatesAssumption DEF Lose, StatesTypeOK
  <2> QED
    BY <1>1, <2>1 DEF StatesTypeOK
<1>3. RowsAreSound'
  BY <1>1 DEF RowsAreSound, Readable, Grounded, Finalized
<1>4. SuccessorsKeepTerms'
  BY <1>1 DEF SuccessorsKeepTerms
<1>5. \A d \in Call : RequestIsSound(d)'
  <2>1. RequestIsSound(c)'
    BY <1>1 DEF RequestIsSound, Busy, Idle
  <2> QED
    BY <1>1, <2>1, OthersStaySound DEF Kept
<1>6. PolicyStands' /\ TipIsServed'
  BY <1>1 DEF PolicyStands, TipIsServed
<1> QED
  BY <1>2, <1>3, <1>4, <1>5, <1>6

-----------------------------------------------------------------------------
(* The specification.                                                      *)

LEMMA StatesStart == StatesInit => StatesInv
<1> SUFFICES ASSUME StatesInit
             PROVE  StatesInv
  OBVIOUS
<1> USE DEF StatesInit
<1>1. StatesTypeOK
  BY IdleIsCall, StatesAssumption DEF StatesTypeOK
<1>2. RowsAreSound
  BY DEF RowsAreSound, Finalized, Id
<1>3. SuccessorsKeepTerms
  BY DEF SuccessorsKeepTerms, Id
<1>4. \A c \in Call : ~Busy(c)
  BY DEF Busy, Idle
<1>5. \A c \in Call : RequestIsSound(c)
  BY <1>4 DEF RequestIsSound
<1>6. PolicyStands
  BY DEF PolicyStands
<1>7. TipIsServed
  BY <1>4 DEF TipIsServed, Alone, Finalized, Id
<1> QED
  BY <1>1, <1>2, <1>3, <1>5, <1>6, <1>7 DEF StatesInv

LEMMA StatesStep == StatesInv /\ [StatesNext]_statesVars => StatesInv'
<1> SUFFICES ASSUME StatesInv, [StatesNext]_statesVars
             PROVE  StatesInv'
  OBVIOUS
<1>1. ASSUME NEW c \in Call, NEW k \in Compilation, Finalize(c, k)
      PROVE  StatesInv'
  BY <1>1, FinalizeKeeps
<1>2. ASSUME NEW c \in Call, NEW p \in Policy, SetPolicy(c, p)
      PROVE  StatesInv'
  BY <1>2, SetPolicyKeeps
<1>3. ASSUME NEW c \in Call, NEW v \in Verification, EvidenceCovers(c, v)
      PROVE  StatesInv'
  BY <1>3, EvidenceCoversKeeps
<1>4. ASSUME NEW c \in Call, Build(c) \/ VerifyFinalized(c) \/ Install(c)
      PROVE  StatesInv'
  BY <1>4, BuildKeeps, VerifyKeeps, InstallKeeps
<1>5. ASSUME NEW c \in Call, CheckTip(c) \/ ReadTip(c) \/ PutState(c) \/ SetTip(c)
      PROVE  StatesInv'
  BY <1>5, CheckTipKeeps, ReadTipKeeps, PutStateKeeps, SetTipKeeps
<1>6. ASSUME NEW c \in Call, RebindVerification(c) \/ BindSuccessor(c) \/ Lose(c)
      PROVE  StatesInv'
  BY <1>6, RebindKeeps, BindSuccessorKeeps, LoseKeeps
<1>7. CASE UNCHANGED statesVars
  <2> USE <1>7 DEF statesVars, StatesInv
  <2>1. StatesTypeOK' /\ RowsAreSound' /\ SuccessorsKeepTerms'
    BY DEF StatesTypeOK, RowsAreSound, SuccessorsKeepTerms, Readable, Grounded, Finalized
  <2>2. \A d \in Call : RequestIsSound(d)'
    <3> SUFFICES ASSUME NEW d \in Call
                 PROVE  RequestIsSound(d)'
      OBVIOUS
    <3>1. RequestIsSound(d)
      OBVIOUS
    <3> QED
      BY <3>1 DEF RequestIsSound, FinalizationIsSound, SupersessionIsSound, Busy, Grounded
  <2>3. PolicyStands'
    BY DEF PolicyStands, Alone, Busy, Quiet, TipStands, Tip, StandsThrough
  <2>4. TipIsServed'
    BY DEF TipIsServed, Alone, Busy, Finalized, Readable, TipVersion, Tip, SerialThrough
  <2> QED
    BY <2>1, <2>2, <2>3, <2>4
<1> QED
  BY <1>1, <1>2, <1>3, <1>4, <1>5, <1>6, <1>7 DEF StatesNext

\* The invariant of the states of an intent, for every set of requests that
\* interleave and get lost.
THEOREM StatesInvariant == StatesSpec => []StatesInv
<1>1. StatesInit => StatesInv
  BY StatesStart
<1>2. StatesInv /\ [StatesNext]_statesVars => StatesInv'
  BY StatesStep
<1> QED
  BY <1>1, <1>2, PTL DEF StatesSpec

\* A reader that finds a finalized state finds its verification, which binds it
\* (IntentService.finalizeVerifiedCompilation).
THEOREM FinalizedAreVerified == StatesSpec => []CompiledIsVerified
<1>1. StatesInv => CompiledIsVerified
  BY DEF StatesInv, RowsAreSound, CompiledIsVerified
<1> QED
  BY <1>1, StatesInvariant, PTL

\* No policy and no supersession invents an execution bound
\* (IntentService.createIntentState).
THEOREM BoundsAreGrounded == StatesSpec => []BoundsAreCompiled
<1>1. StatesInv => BoundsAreCompiled
  BY DEF StatesInv, RowsAreSound, Grounded, BoundsAreCompiled
<1> QED
  BY <1>1, StatesInvariant, PTL

\* A successor that has its verification keeps the terms of the state that the
\* verdict was given on (supersedeSemanticVerification).
THEOREM TermsAreKept == StatesSpec => []SuccessorsKeepTerms
<1>1. StatesInv => SuccessorsKeepTerms
  BY DEF StatesInv
<1> QED
  BY <1>1, StatesInvariant, PTL

\* Without overlap the tip carries the policy that was set last, and can be
\* read with its verification (the policy ingress and the supersession).
THEOREM TipIsSerial == StatesSpec => []SerialTip
<1>1. StatesInv => SerialTip
  <2> SUFFICES ASSUME StatesInv, Quiet
               PROVE  /\ stands # None => tip # None /\ Tip.policy = stands
                      /\ serial /\ (\E k \in Compilation : states[k] # None) => Readable(tip)
    BY DEF SerialTip
  <2>1. stands # None => TipStands
    BY DEF StatesInv, PolicyStands
  <2>2. serial /\ Finalized => Readable(tip)
    BY DEF StatesInv, TipIsServed, Quiet
  <2> QED
    BY <2>1, <2>2 DEF TipStands, Finalized
<1> QED
  BY <1>1, StatesInvariant, PTL
=============================================================================
