--------------------------- MODULE ApprovalProofs ---------------------------
(***************************************************************************)
(* Theorems about ApprovalRequest, for every value of its constants.       *)
(***************************************************************************)
EXTENDS ApprovalRequest, TLAPS

-----------------------------------------------------------------------------
(* Types.                                                                  *)

\* What the calls hold has its type.
CallTypes ==
  /\ pc \in [Proc -> PC]
  /\ on \in [Proc -> Request \cup {Nobody}]
  /\ \A p \in Proc : pc[p] # "idle" => on[p] \in Request
  /\ read \in [Proc -> Status]
  /\ decision \in [Proc -> Decided]

\* A call that goes on keeps the types of what it holds.
LEMMA GotoTypes ==
  ASSUME CallTypes, NEW p \in Proc, NEW l \in PC, pc[p] # "idle", Goto(p, l)
  PROVE  CallTypes'
BY DEF CallTypes, Goto

\* So does a call that returns.
LEMMA ReturnTypes ==
  ASSUME CallTypes, NEW p \in Proc, Return(p)
  PROVE  CallTypes'
<1>1. "idle" \in PC /\ "NONE" \in Status /\ "REJECTED" \in Decided
  BY DEF PC, Status, Decided
<1> QED
  BY <1>1 DEF CallTypes, Return

\* So does a call that begins.
LEMMA BeginTypes ==
  ASSUME CallTypes, row \in [Request -> Status], NEW p \in Proc,
         NEW x \in Request, NEW l \in PC, NEW d \in Decided, Begin(p, x, l, d)
  PROVE  CallTypes'
BY DEF CallTypes, Begin

\* A step of a running call goes on or returns.
LEMMA StepShape ==
  ASSUME NEW p \in Proc, Step(p)
  PROVE  pc[p] # "idle" /\ (Return(p) \/ \E l \in PC : Goto(p, l))
<1> USE DEF PC, WriterPC, CreatePC, DecidePC, ResumePC
<1>1. CASE CreateStep(p)
  BY <1>1 DEF CreateStep, CreateSupersede, CreateSuperseded, CreateInsert, CreateEvent
<1>2. CASE DecideStep(p)
  BY <1>2 DEF DecideStep, DecideExpire, DecideExpired, DecideTip, DecidePut, DecideEvent, Gate
<1>3. CASE ResumeStep(p)
  BY <1>3 DEF ResumeStep, ResumeRead, ContractRead, ContractTip, ContractPut, PrepareRead, PrepareTip, PreparePut, MintRead, MintGate, MintTip, MintPut, Gate
<1> QED
  BY <1>1, <1>2, <1>3 DEF Step

\* So a step keeps the types of what the calls hold.
LEMMA StepCallTypes ==
  ASSUME CallTypes, NEW p \in Proc, Step(p)
  PROVE  CallTypes'
BY StepShape, GotoTypes, ReturnTypes

\* What is stored has its type.
StoreTypes ==
  /\ row \in [Request -> Status]
  /\ events \in [Request -> SUBSET EventType]
  /\ contract \subseteq Request
  /\ prepared \subseteq Request
  /\ minted \subseteq Request
  /\ tip \in Nat
  /\ expired \in BOOLEAN
  /\ crashes \in Nat
  /\ shared \subseteq Request

\* The types are those of the calls and those of the rest.
LEMMA TypeParts ==
  /\ TypeOK <=> CallTypes /\ StoreTypes
  /\ TypeOK' <=> CallTypes' /\ StoreTypes'
BY DEF TypeOK, CallTypes, StoreTypes

\* A step of a call about a request keeps the types of the stores.
LEMMA StepStoreTypes ==
  ASSUME CallTypes, StoreTypes, NEW p \in Proc, Step(p)
  PROVE  StoreTypes'
<1> USE DEF StoreTypes, world, stores
<1>1. on[p] \in Request /\ decision[p] \in Decided
  BY StepShape DEF CallTypes
<1>2. Decided \subseteq Status /\ Decided \subseteq EventType
  BY DEF Decided, Status, EventType, Closed
<1>3. ASSUME NEW e \in EventType, AddEvent(p, e)
      PROVE  events' \in [Request -> SUBSET EventType]
  BY <1>1, <1>3 DEF AddEvent
<1>4. ASSUME NEW s \in Status, PutRow(p, s)
      PROVE  row' \in [Request -> Status]
  BY <1>1, <1>4 DEF PutRow
<1>5. {"PENDING", "SUPERSEDED", "EXPIRED"} \subseteq Status
      /\ {"REQUESTED", "SUPERSEDED", "EXPIRED"} \subseteq EventType
  BY DEF Status, EventType, Closed
<1>6. CASE CreateStep(p)
  BY <1>3, <1>4, <1>5, <1>6 DEF CreateStep, CreateSupersede, CreateSuperseded, CreateInsert, CreateEvent
<1>7. CASE DecideStep(p)
  BY <1>1, <1>2, <1>3, <1>4, <1>5, <1>7 DEF DecideStep, DecideExpire, DecideExpired, DecideTip, DecidePut, DecideEvent
<1>8. CASE ResumeStep(p)
  BY <1>1, <1>8 DEF ResumeStep, ResumeRead, ContractRead, ContractTip, ContractPut, PrepareRead, PrepareTip, PreparePut, MintRead, MintGate, MintTip, MintPut
<1> QED
  BY <1>6, <1>7, <1>8 DEF Step

\* A call begins with well-typed values.
LEMMA BeginCallTypes ==
  ASSUME TypeOK, NEW p \in Proc, BeginCall(p)
  PROVE  TypeOK'
<1> USE DEF PC, WriterPC, CreatePC, DecidePC, ResumePC
<1>1. CallTypes /\ StoreTypes /\ row \in [Request -> Status]
  BY TypeParts DEF StoreTypes
<1>2. PICK x \in Request : \/ StartCreate(p, x)
                           \/ \E d \in Decided : StartDecide(p, x, d)
                           \/ StartResume(p, x)
  BY DEF BeginCall
<1>3. "REJECTED" \in Decided
  BY DEF Decided
<1>4. CASE StartCreate(p, x)
  <2>1. CallTypes'
    BY <1>1, <1>3, <1>4, BeginTypes DEF StartCreate
  <2>2. StoreTypes'
    BY <1>1, <1>4 DEF StartCreate, NoteSharing, StoreTypes, stores, world
  <2> QED
    BY <2>1, <2>2, TypeParts
<1>5. CASE \E d \in Decided : StartDecide(p, x, d)
  <2>1. CallTypes'
    BY <1>1, <1>5, BeginTypes DEF StartDecide
  <2>2. StoreTypes'
    BY <1>1, <1>5 DEF StartDecide, NoteSharing, StoreTypes, stores, world
  <2> QED
    BY <2>1, <2>2, TypeParts
<1>6. CASE StartResume(p, x)
  <2>1. CallTypes'
    BY <1>1, <1>3, <1>6, BeginTypes DEF StartResume
  <2>2. StoreTypes'
    BY <1>1, <1>6 DEF StartResume, StoreTypes, stores, world
  <2> QED
    BY <2>1, <2>2, TypeParts
<1> QED
  BY <1>2, <1>4, <1>5, <1>6

\* Every step keeps the types.
LEMMA TypeStep ==
  ASSUME TypeOK, [Next]_vars
  PROVE  TypeOK'
<1>0. CallTypes /\ StoreTypes
  BY TypeParts
<1>1. CASE \E p \in Proc : BeginCall(p)
  BY <1>1, BeginCallTypes
<1>2. CASE \E p \in Proc : Step(p)
  BY <1>0, <1>2, StepCallTypes, StepStoreTypes, TypeParts
<1>3. CASE \E p \in Proc : Crash(p)
  <2>1. PICK p \in Proc : Crash(p)
    BY <1>3
  <2>2. CallTypes'
    BY <1>0, <2>1, ReturnTypes DEF Crash
  <2>3. StoreTypes'
    BY <1>0, <2>1 DEF Crash, StoreTypes, stores, world
  <2> QED
    BY <2>2, <2>3, TypeParts
<1>4. CASE AdvanceTip
  BY <1>4 DEF TypeOK, AdvanceTip, stores, call
<1>5. CASE Expire
  <2>1. CallTypes'
    BY <1>0, <1>5 DEF Expire, CallTypes, call
  <2>2. StoreTypes'
    BY <1>0, <1>5 DEF Expire, StoreTypes, stores
  <2> QED
    BY <2>1, <2>2, TypeParts
<1>6. CASE UNCHANGED vars
  BY <1>6 DEF TypeOK, vars, stores, world, call
<1> QED
  BY <1>1, <1>2, <1>3, <1>4, <1>5, <1>6 DEF Next

\* The first state is well typed.
LEMMA InitTypes == Init => TypeOK
<1> SUFFICES ASSUME Init PROVE TypeOK
  OBVIOUS
<1>1. CallTypes
  BY DEF Init, CallTypes, PC, Status, Decided
<1>2. StoreTypes
  BY DEF Init, StoreTypes, Status, Evaluated
<1> QED
  BY <1>1, <1>2, TypeParts

\* TypeOK: in every state of every behaviour the stores and the calls hold
\* values of their types (the records of approval-request.ts).
THEOREM ApprovalTypes == Spec => []TypeOK
<1>1. TypeOK /\ [Next]_vars => TypeOK'
  BY TypeStep
<1> QED
  BY InitTypes, <1>1, PTL DEF Spec

-----------------------------------------------------------------------------
(* One call at a time writes as if it were atomic.                         *)

\* A call that goes on leaves SharingIsNoted true when nobody becomes a writer.
LEMMA GotoSharing ==
  ASSUME TypeOK, SharingIsNoted, NEW p \in Proc, NEW l \in PC, Goto(p, l),
         pc[p] \in WriterPC \/ l \notin WriterPC, UNCHANGED shared
  PROVE  SharingIsNoted'
BY DEF TypeOK, SharingIsNoted, Goto

\* So does a call that returns.
LEMMA ReturnSharing ==
  ASSUME TypeOK, SharingIsNoted, NEW p \in Proc, Return(p), UNCHANGED shared
  PROVE  SharingIsNoted'
<1>1. "idle" \notin WriterPC
  BY DEF WriterPC, CreatePC, DecidePC
<1> QED
  BY <1>1 DEF TypeOK, SharingIsNoted, Return

\* A step of a running call leaves SharingIsNoted true.
LEMMA StepSharing ==
  ASSUME TypeOK, SharingIsNoted, NEW p \in Proc, Step(p)
  PROVE  SharingIsNoted'
<1> USE DEF PC, WriterPC, CreatePC, DecidePC, ResumePC
<1>0. UNCHANGED shared
  BY DEF Step, CreateStep, CreateSupersede, CreateSuperseded, CreateInsert,
         CreateEvent, DecideStep, DecideExpire, DecideExpired, DecideTip,
         DecidePut, DecideEvent, ResumeStep, ResumeRead, ContractRead,
         ContractTip, ContractPut, PrepareRead, PrepareTip, PreparePut,
         MintRead, MintGate, MintTip, MintPut
<1>1. \/ Return(p)
      \/ \E l \in PC : Goto(p, l) /\ (pc[p] \in WriterPC \/ l \notin WriterPC)
  <2>1. CASE pc[p] \in WriterPC
    BY <2>1, StepShape
  <2>2. CASE ResumeStep(p)
    BY <2>2 DEF ResumeStep, ResumeRead, ContractRead, ContractTip,
         ContractPut, PrepareRead, PrepareTip, PreparePut, MintRead, MintGate,
         MintTip, MintPut, Gate
  <2>3. CreateStep(p) \/ DecideStep(p) => pc[p] \in WriterPC
    BY DEF CreateStep, CreateSupersede, CreateSuperseded, CreateInsert,
         CreateEvent, DecideStep, DecideExpire, DecideExpired, DecideTip,
         DecidePut, DecideEvent
  <2> QED
    BY <2>1, <2>2, <2>3 DEF Step
<1> QED
  BY <1>0, <1>1, GotoSharing, ReturnSharing

\* The other writing calls about the request of p, if nobody shared it.
LEMMA OnlyWriter ==
  ASSUME SharingIsNoted, NEW p \in Proc, NEW q \in Proc, q # p,
         on[q] = on[p], pc[p] \in WriterPC, on[p] \notin shared
  PROVE  pc[q] \notin WriterPC
BY DEF SharingIsNoted

\* A step of POST /internal/approvals keeps the rest of SerialInv.
LEMMA CreateStepSerial ==
  ASSUME TypeOK, SerialInv, NEW p \in Proc, CreateStep(p)
  PROVE  ReadIsFresh' /\ DoneUnderApproval' /\ DenialIsWritten'
<1> USE DEF SerialInv, WriterPC, CreatePC, DecidePC, ResumePC, Decided
<1>0. /\ pc[p] \in CreatePC /\ on[p] \in Request
      /\ \A q \in Proc \ {p} : on[q] = on[p] /\ on[p] \notin shared
                                => pc[q] \notin WriterPC
  BY OnlyWriter DEF TypeOK, CreateStep, CreateSupersede, CreateSuperseded, CreateInsert, CreateEvent
<1>1. CASE CreateSupersede(p)
  BY <1>0, <1>1 DEF TypeOK, CreateSupersede, PutRow, Goto, ReadIsFresh, DoneUnderApproval, DenialIsWritten
<1>2. CASE CreateSuperseded(p)
  BY <1>0, <1>2 DEF TypeOK, CreateSuperseded, AddEvent, Goto, ReadIsFresh, DoneUnderApproval, DenialIsWritten
<1>3. CASE CreateInsert(p)
  BY <1>0, <1>3 DEF TypeOK, CreateInsert, PutRow, Goto, Return, ReadIsFresh, DoneUnderApproval, DenialIsWritten
<1>4. CASE CreateEvent(p)
  BY <1>0, <1>4 DEF TypeOK, CreateEvent, AddEvent, Return, ReadIsFresh, DoneUnderApproval, DenialIsWritten
<1> QED
  BY <1>1, <1>2, <1>3, <1>4 DEF CreateStep

\* So does a step of POST /internal/approvals/:id/decide.
LEMMA DecideStepSerial ==
  ASSUME TypeOK, SerialInv, NEW p \in Proc, DecideStep(p)
  PROVE  ReadIsFresh' /\ DoneUnderApproval' /\ DenialIsWritten'
<1> USE DEF SerialInv, WriterPC, CreatePC, DecidePC, ResumePC, Decided
<1>0. /\ pc[p] \in DecidePC /\ on[p] \in Request
      /\ \A q \in Proc \ {p} : on[q] = on[p] /\ on[p] \notin shared
                                => pc[q] \notin WriterPC
  BY OnlyWriter DEF TypeOK, DecideStep, DecideExpire, DecideExpired, DecideTip, DecidePut, DecideEvent
<1>1. CASE DecideExpire(p)
  BY <1>0, <1>1 DEF TypeOK, DecideExpire, PutRow, Goto, ReadIsFresh, DoneUnderApproval, DenialIsWritten
<1>2. CASE DecideExpired(p)
  BY <1>0, <1>2 DEF TypeOK, DecideExpired, AddEvent, Return, ReadIsFresh, DoneUnderApproval, DenialIsWritten
<1>3. CASE DecideTip(p)
  BY <1>0, <1>3 DEF TypeOK, DecideTip, Gate, Goto, Return, stores, ReadIsFresh, DoneUnderApproval, DenialIsWritten
<1>4. CASE DecidePut(p)
  BY <1>0, <1>4 DEF TypeOK, DecidePut, PutRow, Goto, ReadIsFresh, DoneUnderApproval, DenialIsWritten
<1>5. CASE DecideEvent(p)
  BY <1>0, <1>5 DEF TypeOK, DecideEvent, AddEvent, Return, ReadIsFresh, DoneUnderApproval, DenialIsWritten
<1> QED
  BY <1>1, <1>2, <1>3, <1>4, <1>5 DEF DecideStep

\* So does a step of resumeWithApproval and the chain behind it.
LEMMA ResumeStepSerial ==
  ASSUME TypeOK, SerialInv, NEW p \in Proc, ResumeStep(p)
  PROVE  ReadIsFresh' /\ DoneUnderApproval' /\ DenialIsWritten'
<1> USE DEF SerialInv, WriterPC, CreatePC, DecidePC, ResumePC
<1>0. /\ pc[p] \in ResumePC /\ on[p] \in Request /\ UNCHANGED <<row, events, shared>>
  BY DEF TypeOK, ResumeStep, ResumeRead, ContractRead, ContractTip,
         ContractPut, PrepareRead, PrepareTip, PreparePut, MintRead, MintGate,
         MintTip, MintPut, stores
<1>1. DenialIsWritten'
  BY <1>0 DEF DenialIsWritten
<1>2. ReadIsFresh'
  <2>1. CASE Return(p)
    BY <1>0, <2>1 DEF TypeOK, Return, ReadIsFresh
  <2>2. CASE \E l \in ResumePC : Goto(p, l)
    BY <1>0, <2>2 DEF TypeOK, Goto, ReadIsFresh
  <2> QED
    BY <2>1, <2>2 DEF ResumeStep, ResumeRead, ContractRead, ContractTip,
         ContractPut, PrepareRead, PrepareTip, PreparePut, MintRead, MintGate,
         MintTip, MintPut, Gate
<1>3. CASE ResumeRead(p)
  BY <1>0, <1>1, <1>2, <1>3 DEF TypeOK, ResumeRead, Gate, Goto, Return, Approved, stores, DoneUnderApproval
<1>4. CASE ContractRead(p) \/ ContractTip(p)
  BY <1>0, <1>1, <1>2, <1>4 DEF TypeOK, ContractRead, ContractTip, Gate, Goto, Return, stores, DoneUnderApproval
<1>5. CASE PrepareRead(p) \/ PrepareTip(p)
  BY <1>0, <1>1, <1>2, <1>5 DEF TypeOK, PrepareRead, PrepareTip, Gate, Goto, Return, stores, DoneUnderApproval
<1>6. CASE MintRead(p) \/ MintGate(p) \/ MintTip(p)
  BY <1>0, <1>1, <1>2, <1>6 DEF TypeOK, MintRead, MintGate, MintTip, Gate, Goto, Return, stores, DoneUnderApproval
<1>7. CASE ContractPut(p)
  BY <1>0, <1>1, <1>2, <1>7 DEF TypeOK, ContractPut, Goto, DoneUnderApproval
<1>8. CASE PreparePut(p)
  BY <1>0, <1>1, <1>2, <1>8 DEF TypeOK, PreparePut, Goto, DoneUnderApproval
<1>9. CASE MintPut(p)
  BY <1>0, <1>1, <1>2, <1>9 DEF TypeOK, MintPut, Return, DoneUnderApproval
<1> QED
  BY <1>3, <1>4, <1>5, <1>6, <1>7, <1>8, <1>9 DEF ResumeStep

\* A call that begins reads the row: what it read is true, and if another call
\* is writing, that is noted.
LEMMA BeginCallSerial ==
  ASSUME TypeOK, SerialInv, NEW p \in Proc, BeginCall(p)
  PROVE  SerialInv'
<1> USE DEF SerialInv, WriterPC, CreatePC, DecidePC, ResumePC
<1>1. PICK x \in Request : \/ StartCreate(p, x)
                           \/ \E d \in Decided : StartDecide(p, x, d)
                           \/ StartResume(p, x)
  BY DEF BeginCall
<1>2. CASE StartCreate(p, x)
  <2>1. SharingIsNoted'
    BY <1>2 DEF TypeOK, StartCreate, Begin, NoteSharing, SharingIsNoted
  <2>2. ReadIsFresh'
    BY <1>2 DEF TypeOK, StartCreate, Begin, NoteSharing, stores, ReadIsFresh
  <2>3. DoneUnderApproval' /\ DenialIsWritten'
    BY <1>2 DEF TypeOK, StartCreate, Begin, NoteSharing, stores, DoneUnderApproval, DenialIsWritten
  <2> QED
    BY <2>1, <2>2, <2>3
<1>3. CASE \E d \in Decided : StartDecide(p, x, d)
  <2>1. SharingIsNoted'
    BY <1>3 DEF TypeOK, StartDecide, Begin, NoteSharing, SharingIsNoted
  <2>2. ReadIsFresh'
    BY <1>3 DEF TypeOK, StartDecide, Begin, NoteSharing, stores, ReadIsFresh
  <2>3. DoneUnderApproval' /\ DenialIsWritten'
    BY <1>3 DEF TypeOK, StartDecide, Begin, NoteSharing, stores, DoneUnderApproval, DenialIsWritten
  <2> QED
    BY <2>1, <2>2, <2>3
<1>4. CASE StartResume(p, x)
  <2>1. SharingIsNoted'
    BY <1>4 DEF TypeOK, StartResume, Begin, SharingIsNoted
  <2>2. ReadIsFresh'
    BY <1>4 DEF TypeOK, StartResume, Begin, stores, ReadIsFresh
  <2>3. DoneUnderApproval' /\ DenialIsWritten'
    BY <1>4 DEF TypeOK, StartResume, Begin, stores, DoneUnderApproval, DenialIsWritten
  <2> QED
    BY <2>1, <2>2, <2>3
<1> QED
  BY <1>1, <1>2, <1>3, <1>4

\* Every step keeps SerialInv.
LEMMA SerialStep ==
  ASSUME TypeOK, SerialInv, [Next]_vars
  PROVE  SerialInv'
<1>1. CASE \E p \in Proc : BeginCall(p)
  BY <1>1, BeginCallSerial
<1>2. CASE \E p \in Proc : Step(p)
  BY <1>2, StepSharing, CreateStepSerial, DecideStepSerial, ResumeStepSerial
     DEF Step, SerialInv
<1>3. CASE \E p \in Proc : Crash(p)
  <2>1. PICK p \in Proc : Crash(p)
    BY <1>3
  <2>2. SharingIsNoted'
    BY <2>1, ReturnSharing DEF Crash, SerialInv
  <2>3. ReadIsFresh' /\ DoneUnderApproval' /\ DenialIsWritten'
    BY <2>1 DEF TypeOK, Crash, Return, stores, SerialInv, ReadIsFresh,
         DoneUnderApproval, DenialIsWritten, ResumePC
  <2> QED
    BY <2>2, <2>3 DEF SerialInv
<1>4. CASE AdvanceTip \/ Expire \/ UNCHANGED vars
  BY <1>4 DEF AdvanceTip, Expire, vars, stores, world, call, SerialInv,
       SharingIsNoted, ReadIsFresh, DoneUnderApproval, DenialIsWritten
<1> QED
  BY <1>1, <1>2, <1>3, <1>4 DEF Next

\* At the start there is nothing to be wrong about.
LEMMA InitSerial == Init => SerialInv
BY DEF Init, SerialInv, SharingIsNoted, ReadIsFresh, DoneUnderApproval,
       DenialIsWritten, WriterPC, CreatePC, DecidePC, ResumePC

\* SerialInv: what a call read, did or logged about a request that no two
\* calls write at once is not out of date (the routes of approval-routes.ts
\* read, compute and put without a comparison).
THEOREM SerialInvariance == Spec => []SerialInv
<1>1. TypeOK /\ SerialInv /\ [Next]_vars => TypeOK' /\ SerialInv'
  BY TypeStep, SerialStep
<1> QED
  BY InitTypes, InitSerial, <1>1, PTL DEF Spec

-----------------------------------------------------------------------------
(* What follows from it.                                                   *)

\* DenialIsRespected: nothing is contracted, prepared or minted under a
\* request whose denial was logged, unless two calls wrote it at once.
THEOREM Denial == Spec => []DenialIsRespected
<1>1. SerialInv => DenialIsRespected
  BY DEF SerialInv, DoneUnderApproval, DenialIsWritten, DenialIsRespected
<1> QED
  BY SerialInvariance, <1>1, PTL

\* Which calls may change the row, and from what.
LEMMA RowStep ==
  ASSUME TypeOK, SerialInv, [Next]_vars, NEW x \in Request, row[x] \in Closed
  PROVE  /\ row'[x] # "PENDING"
         /\ x \notin shared' => row'[x] = row[x]
<1> USE DEF Closed, Decided
<1>1. ASSUME NEW p \in Proc, CreateSupersede(p) \/ DecideExpire(p) \/ DecidePut(p)
      PROVE  /\ row'[x] # "PENDING"
             /\ x \notin shared' => row'[x] = row[x]
  <2>1. /\ on[p] \in Request /\ decision[p] \in Decided /\ UNCHANGED shared
        /\ pc[p] \in {"create_supersede", "decide_expire", "decide_put"}
    BY <1>1 DEF TypeOK, CreateSupersede, DecideExpire, DecidePut
  <2>2. \/ row' = [row EXCEPT ![on[p]] = "SUPERSEDED"]
        \/ row' = [row EXCEPT ![on[p]] = "EXPIRED"]
        \/ row' = [row EXCEPT ![on[p]] = decision[p]]
    BY <1>1 DEF CreateSupersede, DecideExpire, DecidePut, PutRow
  <2>3. on[p] \notin shared => row[on[p]] = "PENDING"
    BY <2>1 DEF SerialInv, ReadIsFresh
  <2> QED
    BY <2>1, <2>2, <2>3 DEF TypeOK
<1>2. ASSUME NEW p \in Proc, CreateInsert(p)
      PROVE  row'[x] = row[x]
  BY <1>2 DEF TypeOK, CreateInsert, PutRow
<1>3. CASE /\ ~ \E p \in Proc : CreateSupersede(p) \/ DecideExpire(p)
                              \/ DecidePut(p) \/ CreateInsert(p)
  <2>1. UNCHANGED row
    <3>1. ASSUME NEW p \in Proc, BeginCall(p) \/ Crash(p)
          PROVE  UNCHANGED row
      BY <3>1 DEF BeginCall, StartCreate, StartDecide, StartResume, Crash, stores
    <3>2. ASSUME NEW p \in Proc, Step(p)
          PROVE  UNCHANGED row
      BY <1>3, <3>2 DEF Step, CreateStep, CreateSuperseded, CreateEvent,
           DecideStep, DecideExpired, DecideTip, DecideEvent, ResumeStep,
           ResumeRead, ContractRead, ContractTip, ContractPut, PrepareRead,
           PrepareTip, PreparePut, MintRead, MintGate, MintTip, MintPut, stores
    <3>3. CASE AdvanceTip \/ Expire \/ UNCHANGED vars
      BY <3>3 DEF AdvanceTip, Expire, vars, stores
    <3> QED
      BY <3>1, <3>2, <3>3 DEF Next
  <2> QED
    BY <2>1
<1> QED
  BY <1>1, <1>2, <1>3

\* ClosedNeverReopens: no step of any call makes a request pending again that
\* was decided, expired or superseded (putIfAbsent in approval-routes.ts).
THEOREM Reopening == Spec => ClosedNeverReopens
<1>1. TypeOK /\ SerialInv /\ [Next]_vars =>
        [\A x \in Request : row[x] \in Closed => row'[x] # "PENDING"]_vars
  BY RowStep
<1> QED
  BY ApprovalTypes, SerialInvariance, <1>1, PTL DEF Spec, ClosedNeverReopens

\* ClosedIsFinal: the status of a closed request changes only when two calls
\* wrote the request at once.
THEOREM Finality == Spec => ClosedIsFinal
<1>1. TypeOK /\ SerialInv /\ [Next]_vars =>
        [\A x \in Request :
           row[x] \in Closed /\ x \notin shared' => row'[x] = row[x]]_vars
  BY RowStep
<1> QED
  BY ApprovalTypes, SerialInvariance, <1>1, PTL DEF Spec, ClosedIsFinal

-----------------------------------------------------------------------------
(* The event log.                                                          *)

\* A call that writes about a request that nobody shares finds its events in
\* step with the row, unless it is itself between the two writes.
LEMMA WriterFindsLog ==
  ASSUME TypeOK, SerialInv, LogKeepsUp, crashes = 0, NEW p \in Proc,
         pc[p] \in WriterPC \ LoggingPC, on[p] \notin shared
  PROVE  events[on[p]] = Logged(row[on[p]])
<1>1. \A q \in Proc \ {p} : on[q] = on[p] => pc[q] \notin WriterPC
  BY OnlyWriter DEF SerialInv
<1>2. LoggingPC \subseteq WriterPC
  BY DEF LoggingPC, WriterPC, CreatePC, DecidePC
<1>3. on[p] \in Request
  BY DEF TypeOK, WriterPC, CreatePC, DecidePC
<1> QED
  BY <1>1, <1>2, <1>3 DEF LogKeepsUp

\* A step of POST /internal/approvals puts the row, or the event that was due.
LEMMA CreateStepLogs ==
  ASSUME TypeOK, SerialInv, LogKeepsUp, NEW p \in Proc, CreateStep(p)
  PROVE  LogKeepsUp'
<1> USE DEF LoggingPC
<1>0. /\ pc[p] \in CreatePC /\ on[p] \in Request /\ UNCHANGED <<crashes, shared>>
      /\ pc[p] \in WriterPC
      /\ \A q \in Proc \ {p} : on[q] = on[p] /\ on[p] \notin shared
                                => pc[q] \notin LoggingPC
  BY OnlyWriter DEF TypeOK, CreateStep, CreateSupersede, CreateSuperseded,
     CreateInsert, CreateEvent, WriterPC, CreatePC, DecidePC, SerialInv
<1>1. CASE CreateSupersede(p)
  <2>1. crashes = 0 /\ on[p] \notin shared => events[on[p]] = {"REQUESTED"}
    BY <1>0, <1>1, WriterFindsLog DEF CreateSupersede, SerialInv, ReadIsFresh, Logged
  <2> QED
    BY <1>0, <1>1, <2>1 DEF TypeOK, CreateSupersede, PutRow, Goto, LogKeepsUp
<1>2. CASE CreateSuperseded(p)
  <2>1. Logged("SUPERSEDED") = {"REQUESTED", "SUPERSEDED"}
    BY DEF Logged
  <2> QED
    BY <1>0, <1>2, <2>1 DEF TypeOK, CreateSuperseded, AddEvent, Decided, Goto, LogKeepsUp
<1>3. CASE CreateInsert(p)
  <2>1. crashes = 0 /\ on[p] \notin shared /\ row[on[p]] = "NONE" => events[on[p]] = {}
    BY <1>0, <1>3, WriterFindsLog DEF CreateInsert, Logged
  <2>2. crashes = 0 /\ on[p] \notin shared => events[on[p]] = Logged(row[on[p]])
    BY <1>0, <1>3, WriterFindsLog DEF CreateInsert
  <2>3. CASE row[on[p]] = "NONE"
    BY <1>0, <1>3, <2>1, <2>3 DEF TypeOK, CreateInsert, PutRow, Goto, LogKeepsUp
  <2>4. CASE row[on[p]] # "NONE"
    BY <1>0, <1>3, <2>2, <2>4 DEF TypeOK, CreateInsert, Return, LogKeepsUp
  <2> QED
    BY <2>3, <2>4
<1>4. CASE CreateEvent(p)
  <2>1. Logged("PENDING") = {"REQUESTED"}
    BY DEF Logged
  <2> QED
    BY <1>0, <1>4, <2>1 DEF TypeOK, CreateEvent, AddEvent, Decided, Return, LogKeepsUp
<1> QED
  BY <1>1, <1>2, <1>3, <1>4 DEF CreateStep

\* So does a step of POST /internal/approvals/:id/decide.
LEMMA DecideStepLogs ==
  ASSUME TypeOK, SerialInv, LogKeepsUp, NEW p \in Proc, DecideStep(p)
  PROVE  LogKeepsUp'
<1> USE DEF LoggingPC
<1>0. /\ pc[p] \in DecidePC /\ on[p] \in Request /\ UNCHANGED <<crashes, shared>>
      /\ pc[p] \in WriterPC
      /\ \A q \in Proc \ {p} : on[q] = on[p] /\ on[p] \notin shared
                                => pc[q] \notin LoggingPC
  BY OnlyWriter DEF TypeOK, DecideStep, DecideExpire, DecideExpired, DecideTip,
     DecidePut, DecideEvent, WriterPC, CreatePC, DecidePC, SerialInv
<1>1. CASE DecideExpire(p)
  <2>1. crashes = 0 /\ on[p] \notin shared => events[on[p]] = {"REQUESTED"}
    BY <1>0, <1>1, WriterFindsLog DEF DecideExpire, SerialInv, ReadIsFresh, Logged
  <2> QED
    BY <1>0, <1>1, <2>1 DEF TypeOK, DecideExpire, PutRow, Goto, LogKeepsUp
<1>2. CASE DecideExpired(p)
  <2>1. Logged("EXPIRED") = {"REQUESTED", "EXPIRED"}
    BY DEF Logged
  <2> QED
    BY <1>0, <1>2, <2>1 DEF TypeOK, DecideExpired, AddEvent, Decided, Return, LogKeepsUp
<1>3. CASE DecideTip(p)
  <2>1. crashes = 0 /\ on[p] \notin shared => events[on[p]] = Logged(row[on[p]])
    BY <1>0, <1>3, WriterFindsLog DEF DecideTip
  <2> QED
    BY <1>0, <1>3, <2>1 DEF TypeOK, DecideTip, Gate, Goto, Return, stores, LogKeepsUp
<1>4. CASE DecidePut(p)
  <2>1. crashes = 0 /\ on[p] \notin shared => events[on[p]] = {"REQUESTED"}
    BY <1>0, <1>4, WriterFindsLog DEF DecidePut, SerialInv, ReadIsFresh, Logged
  <2> QED
    BY <1>0, <1>4, <2>1 DEF TypeOK, DecidePut, PutRow, Goto, LogKeepsUp
<1>5. CASE DecideEvent(p)
  <2>1. decision[p] \in Decided /\ (on[p] \notin shared => row[on[p]] = decision[p])
    BY <1>5 DEF TypeOK, DecideEvent, SerialInv, ReadIsFresh
  <2>2. Logged(decision[p]) = {"REQUESTED", decision[p]}
    BY <2>1 DEF Logged, Decided
  <2> QED
    BY <1>0, <1>5, <2>1, <2>2 DEF TypeOK, DecideEvent, AddEvent, Decided, Return, LogKeepsUp
<1> QED
  BY <1>1, <1>2, <1>3, <1>4, <1>5 DEF DecideStep

\* A resumption writes neither.
LEMMA ResumeStepLogs ==
  ASSUME TypeOK, LogKeepsUp, NEW p \in Proc, ResumeStep(p)
  PROVE  LogKeepsUp'
<1> USE DEF LoggingPC, ResumePC
<1>0. /\ pc[p] \in ResumePC /\ UNCHANGED <<row, events, shared, crashes>>
  BY DEF ResumeStep, ResumeRead, ContractRead, ContractTip, ContractPut, PrepareRead,
         PrepareTip, PreparePut, MintRead, MintGate, MintTip, MintPut, stores
<1>1. CASE Return(p)
  BY <1>0, <1>1 DEF TypeOK, Return, LogKeepsUp
<1>2. CASE \E l \in ResumePC : Goto(p, l)
  BY <1>0, <1>2 DEF TypeOK, Goto, LogKeepsUp
<1> QED
  BY <1>1, <1>2 DEF ResumeStep, ResumeRead, ContractRead, ContractTip, ContractPut,
     PrepareRead, PrepareTip, PreparePut, MintRead, MintGate, MintTip, MintPut, Gate

\* Every step keeps LogKeepsUp.
LEMMA LogStep ==
  ASSUME TypeOK, SerialInv, LogKeepsUp, [Next]_vars
  PROVE  LogKeepsUp'
<1>1. CASE \E p \in Proc : BeginCall(p)
  <2>0. PICK p \in Proc : BeginCall(p)
    BY <1>1
  <2>1. PICK x \in Request : \/ StartCreate(p, x)
                             \/ \E d \in Decided : StartDecide(p, x, d)
                             \/ StartResume(p, x)
    BY <2>0 DEF BeginCall
  <2>2. /\ pc[p] = "idle" /\ UNCHANGED <<row, events, crashes>> /\ shared \subseteq shared'
        /\ on' = [on EXCEPT ![p] = x]
        /\ \E l \in PC \ LoggingPC : pc' = [pc EXCEPT ![p] = l]
    BY <2>1 DEF StartCreate, StartDecide, StartResume, Begin, NoteSharing, stores,
       PC, WriterPC, CreatePC, DecidePC, ResumePC, LoggingPC
  <2> QED
    BY <2>2 DEF TypeOK, LogKeepsUp, LoggingPC
<1>2. CASE \E p \in Proc : Step(p)
  BY <1>2, CreateStepLogs, DecideStepLogs, ResumeStepLogs DEF Step
<1>3. CASE \E p \in Proc : Crash(p)
  BY <1>3 DEF TypeOK, Crash, LogKeepsUp
<1>4. CASE AdvanceTip \/ Expire \/ UNCHANGED vars
  BY <1>4 DEF AdvanceTip, Expire, vars, stores, world, call, LogKeepsUp
<1> QED
  BY <1>1, <1>2, <1>3, <1>4 DEF Next

\* LogMatchesRow: once all calls have ended and none was lost, the event log of
\* a request that no two calls wrote at once says what its row says
\* (the event writes of approval-routes.ts).
THEOREM LogMatches == Spec => []LogMatchesRow
<1>1. Init => LogKeepsUp
  BY DEF Init, LogKeepsUp, LoggingPC, Logged
<1>2. TypeOK /\ SerialInv /\ LogKeepsUp /\ [Next]_vars => LogKeepsUp'
  BY LogStep
<1>3. LogKeepsUp => LogMatchesRow
  BY DEF LogKeepsUp, LogMatchesRow, Quiet, LoggingPC
<1> QED
  BY ApprovalTypes, SerialInvariance, <1>1, <1>2, <1>3, PTL DEF Spec
=============================================================================
