--------------------------- MODULE WorkflowProofs ---------------------------
(***************************************************************************)
(* Theorems about WorkflowEngine, for any numbers of calls, plans, times,  *)
(* states and lost calls.                                                  *)
(***************************************************************************)
EXTENDS WorkflowEngine, TLAPS

-----------------------------------------------------------------------------
(* Types.                                                                  *)

\* Rows are functions on the kinds.
Typed == TypeOK /\ artifact = [w \in State |-> [k \in Kind |-> artifact[w][k]]]

PCs == {"idle"} \cup RunPC \cup ChainPC

\* The types of the variables that steps change one at a time.
CallsTyped == call \in [Call -> Calls]
ArtifactTyped ==
  /\ artifact = [w \in State |-> [k \in Kind |-> artifact[w][k]]]
  /\ \A w \in State : \A k \in Kind : artifact[w][k] \in Content[k] \cup {None}

\* Idle calls, and those that end, have their type.
LEMMA EndedTypes ==
  /\ Idle \in Calls
  /\ \A a \in Answer, w \in State : Ended(a, w) \in Calls
<1>1. 0 \in State
  BY EngineAssumption DEF State
<1>2. Idle \in Calls
  BY <1>1 DEF Idle, Calls, Answer
<1>3. \A a \in Answer, w \in State : [Idle EXCEPT !.answer = a, !.state = w] \in Calls
  BY <1>2 DEF Calls
<1> QED
  BY <1>2, <1>3 DEF Ended

\* A call that ends.
LEMMA EndTypes ==
  ASSUME CallsTyped, NEW c \in Call, End(c)
  PROVE  /\ CallsTyped' /\ call'[c] = Idle
         /\ \A d \in Call \ {c} : call'[d] = call[d]
BY EndedTypes DEF CallsTyped, End

\* A call that goes on.
LEMMA GotoTypes ==
  ASSUME CallsTyped, NEW c \in Call, NEW p \in PCs, Goto(c, p)
  PROVE  /\ CallsTyped' /\ call'[c] = [call[c] EXCEPT !.pc = p]
         /\ \A d \in Call \ {c} : call'[d] = call[d]
BY DEF CallsTyped, Calls, Goto, PCs

\* A row that is put, or stays.
Appended(c, k, content) ==
  \/ Rows(c)[k] = None /\ Put(c, k, content)
  \/ UNCHANGED artifact

LEMMA AppendedTypes ==
  ASSUME ArtifactTyped, CallsTyped, NEW c \in Call, NEW k \in Kind, NEW x \in Content[k],
         Appended(c, k, x)
  PROVE  /\ ArtifactTyped'
         /\ \A w \in State, l \in Kind : w # W(c) \/ l # k => artifact'[w][l] = artifact[w][l]
         /\ \/ artifact'[W(c)][k] = artifact[W(c)][k]
            \/ artifact[W(c)][k] = None /\ artifact'[W(c)][k] = x
<1>1. W(c) \in State
  BY DEF CallsTyped, Calls, W
<1>2. CASE UNCHANGED artifact
  BY <1>2 DEF ArtifactTyped
<1>3. CASE Rows(c)[k] = None /\ Put(c, k, x)
  <2>1. artifact' = [w \in State |-> [l \in Kind |->
                       IF w = W(c) /\ l = k THEN x ELSE artifact[w][l]]]
    BY <1>1, <1>3 DEF ArtifactTyped, Put
  <2>2. \A w \in State, l \in Kind :
          artifact'[w][l] = IF w = W(c) /\ l = k THEN x ELSE artifact[w][l]
    BY <2>1
  <2>3. (artifact = [w \in State |-> [l \in Kind |-> artifact[w][l]]])'
    BY <2>1, <2>2
  <2> QED
    BY <1>1, <1>3, <2>2, <2>3 DEF ArtifactTyped, Rows
<1> QED
  BY <1>2, <1>3 DEF Appended

\* Nothing is taken back: a row, an evaluation and an approval stay as they are,
\* a workflow keeps its marks, and a reached state its summary.
Grows ==
  /\ tip <= tip'
  /\ \A w \in State : w <= tip => summary'[w] = summary[w]
  /\ \A w \in State, k \in Kind : artifact[w][k] # None => artifact'[w][k] = artifact[w][k]
  /\ \A w \in State : evaluation[w] # None => evaluation'[w] = evaluation[w]
  /\ \A w \in State : approval[w] = "APPROVED" => approval'[w] = "APPROVED"
  /\ \A w \in State : marks[w] \subseteq marks'[w]

\* What a step of c does to the calls: the others are at most overtaken.
CallsOf(c) ==
  /\ CallsTyped'
  /\ \A d \in Call \ {c} :
       \/ call'[d] = call[d]
       \/ call[d].pc # "idle" /\ call'[d] = [call[d] EXCEPT !.overtaken = TRUE]

TypeStep(c) == Typed' /\ Grows /\ CallsOf(c)

\* Calls that are overtaken keep their type.
LEMMA OvertakeTypes ==
  ASSUME CallsTyped, NEW c
  PROVE  /\ Overtake(call, c) \in [Call -> Calls]
         /\ \A d \in Call :
              Overtake(call, c)[d] = IF d # c /\ Active(d)
                                       THEN [call[d] EXCEPT !.overtaken = TRUE] ELSE call[d]
BY DEF CallsTyped, Calls, Overtake, Active

\* A step that leaves the stores alone.
LEMMA StoresKept ==
  ASSUME Typed, UNCHANGED <<world, owners>>, crashes' \in 0..MaxCrashes, CallsTyped'
  PROVE  Typed' /\ Grows
<1>1. Typed'
  BY DEF Typed, TypeOK, world, owners, CallsTyped
<1>2. tip \in Nat
  BY EngineAssumption DEF Typed, TypeOK, State
<1> QED
  BY <1>1, <1>2 DEF Grows, world, owners

\* A step that appends at most a row.
LEMMA RowsKept ==
  ASSUME Typed, NEW c \in Call, NEW k \in Kind, NEW x \in Content[k], Appended(c, k, x),
         CallsTyped', UNCHANGED <<world, evaluation, approval, marks, crashes>>
  PROVE  Typed' /\ Grows
<1>1. ArtifactTyped /\ CallsTyped
  BY DEF Typed, TypeOK, ArtifactTyped, CallsTyped
<1>2. ArtifactTyped'
      /\ \A w \in State, l \in Kind : artifact[w][l] # None => artifact'[w][l] = artifact[w][l]
  BY <1>1, AppendedTypes
<1>3. Typed'
  BY <1>2 DEF Typed, TypeOK, ArtifactTyped, CallsTyped, world
<1>4. tip \in Nat
  BY EngineAssumption DEF Typed, TypeOK, State
<1> QED
  BY <1>2, <1>3, <1>4 DEF Grows, world

-----------------------------------------------------------------------------
(* Every step keeps the types, and only adds.                              *)

LEMMA TypeInit == Init => Typed
<1> SUFFICES ASSUME Init PROVE Typed
  OBVIOUS
<1>1. 0 \in State /\ 0 \in 0..MaxCrashes
  BY EngineAssumption DEF State
<1>2. tip \in State /\ summary \in [State -> {"none", "own", "copied"}]
  BY <1>1 DEF Init
<1>3. ArtifactTyped
  BY DEF Init, NoRows, ArtifactTyped
<1>4. call \in [Call -> Calls]
  BY EndedTypes DEF Init
<1>5. /\ evaluation \in [State -> Decision \cup {None}]
      /\ approval \in [State -> Status \cup {None}]
      /\ marks \in [State -> SUBSET Mark]
      /\ crashes \in 0..MaxCrashes
  BY <1>1 DEF Init
<1> QED
  BY <1>2, <1>3, <1>4, <1>5 DEF Typed, TypeOK, ArtifactTyped

\* The tip moves on, and the states up to it keep their summary.
LEMMA TipMoves ==
  ASSUME Typed, tip < MaxTip, tip' = tip + 1, NEW x \in {"none", "own", "copied"},
         summary' = [summary EXCEPT ![tip + 1] = x],
         CallsTyped', UNCHANGED <<owners, crashes>>
  PROVE  Typed' /\ Grows
<1>1. tip \in Nat /\ tip + 1 \in State /\ tip <= tip'
  BY EngineAssumption DEF Typed, TypeOK, State
<1>2. summary' \in [State -> {"none", "own", "copied"}]
  BY <1>1 DEF Typed, TypeOK
<1>3. \A w \in State : w <= tip => summary'[w] = summary[w]
  BY <1>1 DEF Typed, TypeOK, State
<1>4. Typed'
  BY <1>1, <1>2 DEF Typed, TypeOK, owners, CallsTyped
<1> QED
  BY <1>1, <1>3, <1>4 DEF Grows, owners

LEMMA SetPolicyTypes ==
  ASSUME Typed, SetPolicy
  PROVE  TypeStep(None)
<1>1. CallsTyped
  BY DEF Typed, TypeOK, CallsTyped
<1>2. CallsOf(None)
  BY <1>1, OvertakeTypes DEF SetPolicy, CallsOf, Active, CallsTyped
<1>3. PICK x \in {"none", "own", "copied"} : summary' = [summary EXCEPT ![tip + 1] = x]
  BY DEF SetPolicy
<1>4. Typed' /\ Grows
  BY <1>2, <1>3, TipMoves DEF SetPolicy, CallsOf
<1> QED
  BY <1>2, <1>4 DEF TypeStep

LEMMA DecideTypes ==
  ASSUME Typed, NEW w \in State, NEW d \in {"APPROVED", "REJECTED"}, Decide(w, d)
  PROVE  TypeStep(None)
<1>1. CallsOf(None)
  BY DEF Decide, CallsOf, Typed, TypeOK, CallsTyped
<1>2. approval' \in [State -> Status \cup {None}]
  BY DEF Decide, Typed, TypeOK, Status
<1>3. Typed'
  BY <1>2 DEF Decide, Typed, TypeOK, world
<1>4. \A v \in State : approval[v] = "APPROVED" => approval'[v] = "APPROVED"
  BY DEF Decide, Typed, TypeOK
<1>5. tip \in Nat
  BY EngineAssumption DEF Typed, TypeOK, State
<1> QED
  BY <1>1, <1>3, <1>4, <1>5 DEF TypeStep, Grows, Decide, world

\* A call changes alone.
Alone(c) == \A d \in Call \ {c} : call'[d] = call[d]

\* The steps that only move the call.
LEMMA MoveTypes ==
  ASSUME Typed, NEW c \in Call, CallsTyped', Alone(c),
         UNCHANGED <<world, owners>>, crashes' \in 0..MaxCrashes
  PROVE  TypeStep(c)
BY StoresKept DEF TypeStep, CallsOf, Alone

LEMMA SubmitTypes ==
  ASSUME Typed, NEW c \in Call, NEW evidence \in BOOLEAN, Submit(c, evidence)
  PROVE  TypeStep(c)
<1>1. CallsTyped /\ tip \in State
  BY DEF Typed, TypeOK, CallsTyped
<1>2. \A p \in PCs : [Idle EXCEPT !.pc = p, !.state = tip] \in Calls
  BY <1>1, EndedTypes DEF Calls, PCs
<1>3. CallsTyped' /\ Alone(c)
  BY <1>1, <1>2 DEF Submit, CallsTyped, Alone, PCs, RunPC
<1> QED
  BY <1>3, MoveTypes DEF Submit, Typed, TypeOK

LEMMA ResumeTypes ==
  ASSUME Typed, NEW c \in Call, NEW w \in State, Resume(c, w)
  PROVE  TypeStep(c)
<1>1. [Idle EXCEPT !.pc = "evaluate", !.state = w, !.resumes = TRUE] \in Calls
  BY EndedTypes DEF Calls, ChainPC
<1>2. CallsTyped' /\ Alone(c)
  BY <1>1 DEF Resume, CallsTyped, Alone, Typed, TypeOK
<1> QED
  BY <1>2, MoveTypes DEF Resume, Typed, TypeOK

\* Steps that go on, end, or answer, and leave the stores alone.
LEMMA QuietTypes ==
  ASSUME Typed, NEW c \in Call, UNCHANGED <<world, owners>>, crashes' \in 0..MaxCrashes,
         \/ \E p \in PCs : Goto(c, p)
         \/ End(c)
         \/ \E a \in Answer, w \in State : call' = [call EXCEPT ![c] = Ended(a, w)]
  PROVE  TypeStep(c)
<1>1. CallsTyped
  BY DEF Typed, TypeOK, CallsTyped
<1>2. CASE \E p \in PCs : Goto(c, p)
  BY <1>1, <1>2, GotoTypes, MoveTypes DEF Alone
<1>3. CASE End(c)
  BY <1>1, <1>3, EndTypes, MoveTypes DEF Alone
<1>4. CASE \E a \in Answer, w \in State : call' = [call EXCEPT ![c] = Ended(a, w)]
  <2>1. CallsTyped' /\ Alone(c)
    BY <1>1, <1>4, EndedTypes DEF CallsTyped, Alone
  <2> QED
    BY <2>1, MoveTypes
<1> QED
  BY <1>2, <1>3, <1>4

\* An append with what follows it.
LEMMA AppendTypes ==
  ASSUME Typed, NEW c \in Call, NEW k \in Kind, NEW x \in Content[k], Appended(c, k, x),
         CallsTyped', Alone(c), UNCHANGED <<world, evaluation, approval, marks, crashes>>
  PROVE  TypeStep(c)
BY RowsKept DEF TypeStep, CallsOf, Alone

LEMMA MakePlanTypes ==
  ASSUME Typed, NEW c \in Call, NEW p \in Plan, NEW t \in Stamp, MakePlan(c, p, t)
  PROVE  TypeStep(c) /\ Appended(c, "PLAN", p)
<1>1. CallsTyped /\ p \in Content["PLAN"] /\ "PLAN" \in Kind
  BY DEF Typed, TypeOK, CallsTyped, Content, Kind
<1>2. Appended(c, "PLAN", p)
  BY DEF MakePlan, Append, Appended
<1>3. CASE End(c)
  BY <1>1, <1>2, <1>3, EndTypes, AppendTypes DEF Alone, MakePlan
<1>4. CASE call' = [call EXCEPT ![c].pc = "check", ![c].plan = p, ![c].stamp = t]
  <2>1. [call[c] EXCEPT !.pc = "check", !.plan = p, !.stamp = t] \in Calls
    BY <1>1 DEF CallsTyped, Calls, RunPC
  <2>2. call' = [call EXCEPT ![c] = [call[c] EXCEPT !.pc = "check", !.plan = p, !.stamp = t]]
    BY <1>1, <1>4 DEF CallsTyped
  <2>3. CallsTyped' /\ Alone(c)
    BY <1>1, <2>1, <2>2 DEF CallsTyped, Alone
  <2> QED
    BY <1>1, <1>2, <2>3, AppendTypes DEF MakePlan
<1> QED
  BY <1>3, <1>4 DEF MakePlan, Append

LEMMA VerifyPlanTypes ==
  ASSUME Typed, NEW c \in Call, NEW ok \in BOOLEAN, VerifyPlan(c, ok), call[c].plan \in Plan
  PROVE  TypeStep(c) /\ Appended(c, "PLAN_VERIFICATION", [plan |-> call[c].plan, ok |-> ok])
<1> DEFINE x == [plan |-> call[c].plan, ok |-> ok]
<1>1. CallsTyped /\ x \in Content["PLAN_VERIFICATION"] /\ "PLAN_VERIFICATION" \in Kind
  BY DEF Typed, TypeOK, CallsTyped, Content, Kind, Checked
<1>2. Appended(c, "PLAN_VERIFICATION", x)
  BY DEF VerifyPlan, Append, Appended
<1>3. CASE End(c)
  BY <1>1, <1>2, <1>3, EndTypes, AppendTypes DEF Alone, VerifyPlan
<1>4. CASE call' = [call EXCEPT ![c].pc = "act", ![c].ok = ok]
  <2>1. [call[c] EXCEPT !.pc = "act", !.ok = ok] \in Calls
    BY <1>1 DEF CallsTyped, Calls, RunPC
  <2>2. call' = [call EXCEPT ![c] = [call[c] EXCEPT !.pc = "act", !.ok = ok]]
    BY <1>1, <1>4 DEF CallsTyped
  <2>3. CallsTyped' /\ Alone(c)
    BY <1>1, <2>1, <2>2 DEF CallsTyped, Alone
  <2> QED
    BY <1>1, <1>2, <2>3, AppendTypes DEF VerifyPlan
<1> QED
  BY <1>2, <1>3, <1>4 DEF VerifyPlan, Append

LEMMA ProposeTypes ==
  ASSUME Typed, NEW c \in Call, Propose(c), call[c].plan \in Plan, call[c].stamp \in Stamp
  PROVE  TypeStep(c) /\ Appended(c, "ACTION", ActionOf(c))
<1>1. CallsTyped /\ ActionOf(c) \in Content["ACTION"] /\ "ACTION" \in Kind
  BY DEF Typed, TypeOK, CallsTyped, Content, Kind, ActionOf, Action
<1>2. Appended(c, "ACTION", ActionOf(c))
  BY DEF Propose, Append, Appended
<1>3. CallsTyped' /\ Alone(c)
  <2>1. "guard" \in PCs
    BY DEF PCs, RunPC
  <2> QED
    BY <1>1, <2>1, EndTypes, GotoTypes DEF Propose, Append, Alone
<1> QED
  BY <1>1, <1>2, <1>3, AppendTypes DEF Propose

LEMMA GuardTypes ==
  ASSUME Typed, NEW c \in Call, NEW ok \in BOOLEAN, Guard(c, ok),
         call[c].plan \in Plan, call[c].stamp \in Stamp
  PROVE  TypeStep(c) /\ Appended(c, "GUARDIAN", [action |-> ActionOf(c), ok |-> ok])
<1> DEFINE x == [action |-> ActionOf(c), ok |-> ok]
<1>1. CallsTyped /\ x \in Content["GUARDIAN"] /\ "GUARDIAN" \in Kind
  BY DEF Typed, TypeOK, CallsTyped, Content, Kind, ActionOf, Action, Judged
<1>2. Appended(c, "GUARDIAN", x)
  BY DEF Guard, Append, Appended
<1>3. CASE End(c)
  BY <1>1, <1>2, <1>3, EndTypes, AppendTypes DEF Alone, Guard
<1>4. CASE call' = [call EXCEPT ![c].pc = "close", ![c].judged = ok]
  <2>1. [call[c] EXCEPT !.pc = "close", !.judged = ok] \in Calls
    BY <1>1 DEF CallsTyped, Calls, RunPC
  <2>2. call' = [call EXCEPT ![c] = [call[c] EXCEPT !.pc = "close", !.judged = ok]]
    BY <1>1, <1>4 DEF CallsTyped
  <2>3. CallsTyped' /\ Alone(c)
    BY <1>1, <2>1, <2>2 DEF CallsTyped, Alone
  <2> QED
    BY <1>1, <1>2, <2>3, AppendTypes DEF Guard
<1> QED
  BY <1>2, <1>3, <1>4 DEF Guard, Append

\* The call that a run hands over to the authority.
HandedOver(c) ==
  call' = [call EXCEPT ![c] = [Idle EXCEPT !.pc = "evaluate", !.state = W(c),
                                           !.overtaken = call[c].overtaken]]

LEMMA CloseTypes ==
  ASSUME Typed, NEW c \in Call, NEW fits \in BOOLEAN, Close(c, fits)
  PROVE  /\ TypeStep(c)
         /\ \/ Eligible(c, fits) /\ Appended(c, "WORKFLOW", "AUTHORITY_EVALUATION")
            \/ Appended(c, "WORKFLOW", "BLOCKED") /\ End(c)
<1>1. /\ CallsTyped /\ "WORKFLOW" \in Kind
      /\ \A x \in {"AUTHORITY_EVALUATION", "BLOCKED"} : x \in Content["WORKFLOW"]
  BY DEF Typed, TypeOK, CallsTyped, Content, Kind
<1>2. \/ Eligible(c, fits) /\ Appended(c, "WORKFLOW", "AUTHORITY_EVALUATION")
      \/ Appended(c, "WORKFLOW", "BLOCKED") /\ End(c)
  BY DEF Close, Append, Appended
<1>3. CASE End(c)
  BY <1>1, <1>2, <1>3, EndTypes, AppendTypes DEF Alone, Close
<1>4. CASE HandedOver(c)
  <2>1. [Idle EXCEPT !.pc = "evaluate", !.state = W(c), !.overtaken = call[c].overtaken] \in Calls
    BY <1>1, EndedTypes DEF CallsTyped, Calls, ChainPC, W
  <2>2. CallsTyped' /\ Alone(c)
    BY <1>1, <1>4, <2>1 DEF CallsTyped, Alone, HandedOver
  <2> QED
    BY <1>1, <1>2, <2>2, AppendTypes DEF Close
<1> QED
  BY <1>2, <1>3, <1>4 DEF Close, Append, HandedOver

LEMMA SupersedeTypes ==
  ASSUME Typed, NEW c \in Call, Supersede(c)
  PROVE  TypeStep(c)
<1>1. CallsTyped /\ "lookup" \in PCs
  BY DEF Typed, TypeOK, CallsTyped, PCs, RunPC
<1>2. CASE tip = W(c) /\ tip < MaxTip /\ summary[tip] = "none"
  <2>1. call' = [Overtake(call, c) EXCEPT ![c].pc = "reread"]
    BY <1>2 DEF Supersede
  <2>2. /\ Overtake(call, c) \in [Call -> Calls]
        /\ \A d \in Call : Overtake(call, c)[d] =
             IF d # c /\ Active(d) THEN [call[d] EXCEPT !.overtaken = TRUE] ELSE call[d]
    BY <1>1, OvertakeTypes
  <2>3. CallsTyped'
    BY <2>1, <2>2 DEF CallsTyped, Calls, RunPC
  <2>4. \A d \in Call \ {c} : call'[d] = Overtake(call, c)[d]
    BY <2>1, <2>2
  <2>5. CallsOf(c)
    BY <2>2, <2>3, <2>4 DEF CallsOf, Active
  <2>6. Typed' /\ Grows
    BY <1>2, <2>3, TipMoves DEF Supersede
  <2> QED
    BY <2>5, <2>6 DEF TypeStep
<1>3. CASE ~(tip = W(c) /\ tip < MaxTip /\ summary[tip] = "none")
  BY <1>1, <1>3, QuietTypes DEF Supersede, world, Typed, TypeOK
<1> QED
  BY <1>2, <1>3

LEMMA RereadTypes ==
  ASSUME Typed, NEW c \in Call, NEW named \in BOOLEAN, Reread(c, named)
  PROVE  TypeStep(c)
<1>1. CallsTyped /\ tip \in State
  BY DEF Typed, TypeOK, CallsTyped
<1>2. CASE tip # W(c) /\ named
  BY <1>1, <1>2, QuietTypes DEF Reread, Answer, Typed, TypeOK
<1>3. CASE ~(tip # W(c) /\ named)
  <2>1. [call[c] EXCEPT !.pc = "lookup", !.state = tip, !.overtaken = FALSE] \in Calls
    BY <1>1 DEF CallsTyped, Calls, RunPC
  <2>2. call' = [call EXCEPT ![c] = [call[c] EXCEPT !.pc = "lookup", !.state = tip,
                                                    !.overtaken = FALSE]]
    BY <1>1, <1>3 DEF CallsTyped, Reread
  <2>3. CallsTyped' /\ Alone(c)
    BY <1>1, <2>1, <2>2 DEF CallsTyped, Alone
  <2> QED
    BY <2>3, MoveTypes DEF Reread, Typed, TypeOK
<1> QED
  BY <1>2, <1>3

\* The other steps that touch no store.
LEMMA LookupTypes ==
  ASSUME Typed, NEW c \in Call,
         Lookup(c) \/ Fail(c) \/ TooLate(c) \/ ReadApproval(c) \/ Crash(c)
  PROVE  TypeStep(c)
<1>1. /\ "plan" \in PCs /\ "contract" \in PCs /\ crashes \in 0..MaxCrashes
      /\ W(c) \in State /\ "again" \in Answer
  BY DEF PCs, RunPC, ChainPC, Typed, TypeOK, Calls, W, Answer
<1>2. CASE Crash(c)
  BY <1>1, <1>2, QuietTypes, EngineAssumption DEF Crash
<1>3. CASE TooLate(c)
  BY <1>1, <1>3, QuietTypes DEF TooLate
<1>4. CASE Lookup(c) \/ Fail(c) \/ ReadApproval(c)
  BY <1>1, <1>4, QuietTypes DEF Lookup, Fail, ReadApproval
<1> QED
  BY <1>2, <1>3, <1>4

LEMMA EvaluateTypes ==
  ASSUME Typed, NEW c \in Call, NEW d \in Signal, Evaluate(c, d)
  PROVE  TypeStep(c)
<1>1. CallsTyped /\ W(c) \in State
  BY DEF Typed, TypeOK, CallsTyped, Calls, W
<1>2. {"approved", "ask", "contract"} \subseteq PCs
  BY DEF PCs, ChainPC
<1>3. CASE Refused(c) \/ evaluation[W(c)] \notin {None, Decided(c, d)}
  BY <1>3, QuietTypes DEF Evaluate, owners, Typed, TypeOK
<1>4. CASE ~Refused(c) /\ evaluation[W(c)] \in {None, Decided(c, d)}
  <2>1. /\ evaluation' = [evaluation EXCEPT ![W(c)] = Decided(c, d)]
        /\ After(c, Decided(c, d))
    BY <1>4 DEF Evaluate
  <2>2. Decided(c, d) \in Decision
    BY EngineAssumption DEF Decided, Decision
  <2>3. CallsTyped' /\ Alone(c)
    BY <1>1, <1>2, <2>1, EndTypes, GotoTypes DEF After, Alone
  <2>4. /\ evaluation' \in [State -> Decision \cup {None}]
        /\ \A w \in State : evaluation[w] # None => evaluation'[w] = evaluation[w]
    BY <1>1, <1>4, <2>1, <2>2 DEF Typed, TypeOK
  <2>5. Typed'
    BY <2>3, <2>4 DEF Evaluate, Typed, TypeOK, CallsTyped, world
  <2>6. tip \in Nat
    BY EngineAssumption DEF Typed, TypeOK, State
  <2>7. Grows
    BY <2>4, <2>6 DEF Evaluate, Grows, world
  <2> QED
    BY <2>3, <2>5, <2>7 DEF TypeStep, CallsOf, Alone
<1> QED
  BY <1>3, <1>4

LEMMA CreateApprovalTypes ==
  ASSUME Typed, NEW c \in Call, CreateApproval(c)
  PROVE  TypeStep(c)
<1>1. CallsTyped /\ W(c) \in State
  BY DEF Typed, TypeOK, CallsTyped, Calls, W
<1>2. CallsTyped' /\ Alone(c)
  BY <1>1, EndTypes DEF CreateApproval, Alone
<1>3. /\ approval' \in [State -> Status \cup {None}]
      /\ \A w \in State : approval[w] = "APPROVED" => approval'[w] = "APPROVED"
  BY <1>1, EngineAssumption DEF CreateApproval, Typed, TypeOK, Status
<1>4. Typed'
  BY <1>2, <1>3 DEF CreateApproval, Typed, TypeOK, CallsTyped, world
<1>5. tip \in Nat
  BY EngineAssumption DEF Typed, TypeOK, State
<1>6. Grows
  BY <1>3, <1>5 DEF CreateApproval, Grows, world
<1> QED
  BY <1>2, <1>4, <1>6 DEF TypeStep, CallsOf, Alone

\* The steps that leave at most a mark.
LEMMA MarkTypes ==
  ASSUME Typed, NEW c \in Call, CallsTyped', Alone(c),
         UNCHANGED marks \/ \E m \in Mark : Leave(c, m),
         UNCHANGED <<world, artifact, evaluation, approval, crashes>>
  PROVE  TypeStep(c)
<1>1. W(c) \in State
  BY DEF Typed, TypeOK, Calls, W
<1>2. marks' \in [State -> SUBSET Mark] /\ \A w \in State : marks[w] \subseteq marks'[w]
  <2>1. CASE UNCHANGED marks
    BY <2>1 DEF Typed, TypeOK
  <2>2. CASE \E m \in Mark : Leave(c, m)
    <3>1. PICK m \in Mark : marks' = [marks EXCEPT ![W(c)] = @ \cup {m}]
      BY <2>2 DEF Leave
    <3>2. marks \in [State -> SUBSET Mark] /\ marks[W(c)] \cup {m} \in SUBSET Mark
      BY <1>1 DEF Typed, TypeOK
    <3> QED
      BY <1>1, <3>1, <3>2
  <2> QED
    BY <2>1, <2>2
<1>3. Typed'
  BY <1>2 DEF Typed, TypeOK, CallsTyped, world
<1>4. tip \in Nat
  BY EngineAssumption DEF Typed, TypeOK, State
<1>5. Grows
  BY <1>2, <1>4 DEF Grows, world
<1> QED
  BY <1>3, <1>5 DEF TypeStep, CallsOf, Alone

LEMMA MakeTypes ==
  ASSUME Typed, NEW c \in Call,
         CreateContract(c) \/ Prepare(c) \/ Mint(c) \/ BindAuthority(c)
  PROVE  TypeStep(c)
<1>1. CallsTyped /\ {"prepare", "mint", "bind", "authorize"} \subseteq PCs
  BY DEF Typed, TypeOK, CallsTyped, PCs, ChainPC
<1>2. {"contract", "prepared", "grant", "binding"} \subseteq Mark
  BY DEF Mark
<1>3. CallsTyped' /\ Alone(c)
  BY <1>1, EndTypes, GotoTypes DEF CreateContract, Prepare, Mint, BindAuthority, Make, Alone
<1>4. UNCHANGED marks \/ \E m \in Mark : Leave(c, m)
  BY <1>2 DEF CreateContract, Prepare, Mint, BindAuthority, Make
<1> QED
  BY <1>3, <1>4, MarkTypes DEF CreateContract, Prepare, Mint, BindAuthority, Make

LEMMA AuthorizeTypes ==
  ASSUME Typed, NEW c \in Call, Authorize(c) \/ Transition(c)
  PROVE  TypeStep(c)
<1>1. CallsTyped /\ {"token", "authorized"} \subseteq Mark /\ "record" \in PCs
  BY DEF Typed, TypeOK, CallsTyped, Mark, PCs, ChainPC
<1>2. CASE Transition(c)
  <2>1. CallsTyped' /\ Alone(c)
    BY <1>1, <1>2, EndTypes, GotoTypes DEF Transition, Alone
  <2> QED
    BY <1>1, <1>2, <2>1, MarkTypes DEF Transition
<1>3. CASE Authorize(c)
  <2> DEFINE first == "authorized" \notin marks[W(c)]
  <2>1. CASE End(c) /\ UNCHANGED marks
    BY <1>1, <1>3, <2>1, EndTypes, MarkTypes DEF Alone, Authorize
  <2>2. CASE /\ call' = [call EXCEPT ![c].pc = "transition", ![c].fresh = first]
             /\ Leave(c, "token")
    <3>1. first \in BOOLEAN
      OBVIOUS
    <3> HIDE DEF first
    <3>2. [call[c] EXCEPT !.pc = "transition", !.fresh = first] \in Calls
      BY <1>1, <3>1 DEF CallsTyped, Calls, ChainPC
    <3>3. call' = [call EXCEPT ![c] = [call[c] EXCEPT !.pc = "transition", !.fresh = first]]
      BY <1>1, <2>2 DEF CallsTyped
    <3>4. CallsTyped' /\ Alone(c)
      BY <1>1, <3>2, <3>3 DEF CallsTyped, Alone
    <3> QED
      BY <1>1, <1>3, <2>2, <3>4, MarkTypes DEF Authorize
  <2> QED
    BY <1>3, <2>1, <2>2 DEF Authorize
<1> QED
  BY <1>2, <1>3

LEMMA RecordTypes ==
  ASSUME Typed, NEW c \in Call, RecordAuthorization(c)
  PROVE  TypeStep(c) /\ Appended(c, "EXECUTION_AUTHORIZATION", "AUTHORIZED")
<1>1. /\ CallsTyped /\ "EXECUTION_AUTHORIZATION" \in Kind
      /\ "AUTHORIZED" \in Content["EXECUTION_AUTHORIZATION"]
  BY DEF Typed, TypeOK, CallsTyped, Content, Kind
<1>2. Appended(c, "EXECUTION_AUTHORIZATION", "AUTHORIZED")
  BY DEF RecordAuthorization, Append, Appended
<1>3. CallsTyped' /\ Alone(c)
  BY <1>1, EndTypes DEF RecordAuthorization, Append, Alone
<1> QED
  BY <1>1, <1>2, <1>3, AppendTypes DEF RecordAuthorization

-----------------------------------------------------------------------------
(* What was there stays.                                                   *)

\* None is no row.
LEMMA RowsAreThere ==
  \A k \in Kind : \A x : x \in Content[k] => x # None
BY EngineAssumption

\* What a call rests on holds for as long as the call stands still.
CallIsSound(c) == RunIsStored(c) /\ WayIsMade(c)

LEMMA OthersKept ==
  ASSUME Typed, Grows, NEW c \in Call, CallIsSound(c),
         \/ call'[c] = call[c]
         \/ call'[c] = [call[c] EXCEPT !.overtaken = TRUE]
  PROVE  CallIsSound(c)'
<1>1. /\ W(c) \in State /\ call[c] \in Calls /\ W(c)' = W(c)
      /\ call'[c].pc = call[c].pc /\ call'[c].plan = call[c].plan
      /\ call'[c].stamp = call[c].stamp /\ call'[c].ok = call[c].ok
      /\ call'[c].judged = call[c].judged /\ call'[c].resumes = call[c].resumes
  BY DEF Typed, TypeOK, Calls, W
<1>2. ActionOf(c)' = ActionOf(c)
  BY <1>1 DEF ActionOf
<1>3. \A k \in Kind : \A x : x \in Content[k] /\ Rows(c)[k] = x => Rows(c)'[k] = x
  BY <1>1, RowsAreThere DEF Grows, Rows
<1>4. RunIsStored(c)'
  <2>1. call[c].pc \in {"check", "act", "guard", "close"} =>
          /\ call[c].plan \in Plan /\ call[c].stamp \in Stamp
          /\ ActionOf(c) \in Action
          /\ call[c].ok \in BOOLEAN /\ call[c].judged \in BOOLEAN
    BY <1>1 DEF CallIsSound, RunIsStored, Calls, ActionOf, Action
  <2>2. /\ \A p \in Plan : p \in Content["PLAN"]
        /\ \A p \in Plan, b \in BOOLEAN : [plan |-> p, ok |-> b] \in Content["PLAN_VERIFICATION"]
        /\ \A a \in Action : a \in Content["ACTION"]
        /\ \A a \in Action, b \in BOOLEAN : [action |-> a, ok |-> b] \in Content["GUARDIAN"]
        /\ {"PLAN", "PLAN_VERIFICATION", "ACTION", "GUARDIAN"} \subseteq Kind
    BY DEF Content, Kind, Checked, Judged
  <2>3. CASE call[c].pc \in {"check", "act", "guard", "close"}
    <3>1. Rows(c)'["PLAN"] = call[c].plan
      BY <1>3, <2>1, <2>2, <2>3 DEF CallIsSound, RunIsStored
    <3>2. call[c].pc # "check" =>
            Rows(c)'["PLAN_VERIFICATION"] = [plan |-> call[c].plan, ok |-> call[c].ok]
      BY <1>3, <2>1, <2>2, <2>3 DEF CallIsSound, RunIsStored
    <3>3. call[c].pc \in {"guard", "close"} => Rows(c)'["ACTION"] = ActionOf(c)
      BY <1>3, <2>1, <2>2 DEF CallIsSound, RunIsStored
    <3>4. call[c].pc = "close" =>
            Rows(c)'["GUARDIAN"] = [action |-> ActionOf(c), ok |-> call[c].judged]
      BY <1>3, <2>1, <2>2 DEF CallIsSound, RunIsStored, At
    <3> QED
      BY <1>1, <1>2, <2>1, <3>1, <3>2, <3>3, <3>4 DEF RunIsStored, At
  <2>4. CASE call[c].pc \notin {"check", "act", "guard", "close"}
    BY <1>1, <2>4 DEF RunIsStored, At
  <2> QED
    BY <2>3, <2>4
<1>5. WayIsMade(c)'
  <2>1. "WORKFLOW" \in Kind /\ "AUTHORITY_EVALUATION" \in Content["WORKFLOW"]
    BY DEF Kind, Content
  <2>2. Rows(c)["WORKFLOW"] = "AUTHORITY_EVALUATION"
          => Rows(c)'["WORKFLOW"] = "AUTHORITY_EVALUATION"
    BY <1>3, <2>1
  <2>3. evaluation[W(c)] = "REQUIRE_APPROVAL" => evaluation'[W(c)] = "REQUIRE_APPROVAL"
    BY <1>1, EngineAssumption DEF Grows, Decision
  <2>4. marks[W(c)] \subseteq marks'[W(c)]
    BY <1>1 DEF Grows
  <2> QED
    BY <1>1, <2>2, <2>3, <2>4 DEF CallIsSound, WayIsMade, At
<1> QED
  BY <1>4, <1>5 DEF CallIsSound

\* A chain stays the chain of one run.
LEMMA OneRunKept ==
  ASSUME Typed, RowsAreReached, Grows, NEW w \in State, OneRun(w)
  PROVE  OneRun(w)'
<1>1. /\ {"PLAN", "PLAN_VERIFICATION", "ACTION", "GUARDIAN"} \subseteq Kind
      /\ Content["PLAN"] = Plan /\ Content["ACTION"] = Action
      /\ Content["PLAN_VERIFICATION"] = Checked /\ Content["GUARDIAN"] = Judged
  BY DEF Content, Kind
<1>2. /\ artifact[w]["PLAN"] \in Content["PLAN"]
      /\ artifact[w]["PLAN_VERIFICATION"] \in Content["PLAN_VERIFICATION"]
      /\ artifact[w]["ACTION"] \in Content["ACTION"]
      /\ artifact[w]["GUARDIAN"] \in Content["GUARDIAN"]
  BY <1>1 DEF OneRun, Checked, Judged
<1>3. \A k \in {"PLAN", "PLAN_VERIFICATION", "ACTION", "GUARDIAN"} :
        artifact'[w][k] = artifact[w][k]
  BY <1>1, <1>2, RowsAreThere DEF Grows
<1>4. w <= tip
  BY <1>1, <1>2, RowsAreThere DEF RowsAreReached
<1>5. summary'[w] = summary[w]
  BY <1>4 DEF Grows
<1> QED
  BY <1>3, <1>5 DEF OneRun

LEMMA DecidedOnKept ==
  ASSUME Grows, NEW w \in State, DecidedOn(w)
  PROVE  DecidedOn(w)'
BY EngineAssumption DEF DecidedOn, Grows, Decision

\* A state whose last rows, approval and marks do not change.
Same(w) ==
  /\ artifact'[w]["WORKFLOW"] = artifact[w]["WORKFLOW"]
  /\ artifact'[w]["EXECUTION_AUTHORIZATION"] = artifact[w]["EXECUTION_AUTHORIZATION"]
  /\ approval'[w] = approval[w]
  /\ marks'[w] = marks[w]

LEMMA StateKept ==
  ASSUME Typed, RowsAreReached, Grows, NEW w \in State, StateIsSound(w), Same(w)
  PROVE  StateIsSound(w)'
<1>1. evaluation[w] = "REQUIRE_APPROVAL" => evaluation'[w] = "REQUIRE_APPROVAL"
  BY EngineAssumption DEF Grows, Decision
<1> QED
  BY <1>1, OneRunKept, DecidedOnKept DEF StateIsSound, Same

\* States that were reached stay reached.
LEMMA ReachedKept ==
  ASSUME Typed, Typed', RowsAreReached, Grows,
         \A w \in State, k \in Kind : artifact'[w][k] = artifact[w][k] \/ w <= tip,
         \A c \in Call : W(c)' <= tip'
  PROVE  RowsAreReached'
<1>1. tip \in Nat /\ tip' \in Nat /\ \A w \in State : w \in Nat
  BY EngineAssumption DEF Typed, TypeOK, State
<1>2. \A w \in State, k \in Kind : artifact'[w][k] # None => w <= tip'
  BY <1>1 DEF RowsAreReached, Grows
<1> QED
  BY <1>2 DEF RowsAreReached, Typed

-----------------------------------------------------------------------------
(* The invariant.                                                          *)

LEMMA InvTyped == WorkflowInv => Typed /\ \A c \in Call : CallIsSound(c)
BY DEF WorkflowInv, Typed, RowsAreReached, CallIsSound

\* What must be shown of a step of c: the call is sound where it stands now, the
\* states are, and the others know when the tip has moved.
CallStep(c) == W(c)' <= tip' /\ CallIsSound(c)' /\ OvertakenIfBehind(c)'

LEMMA StepKeeps ==
  ASSUME WorkflowInv, NEW c, TypeStep(c),
         \A w \in State, k \in Kind : artifact'[w][k] = artifact[w][k] \/ w <= tip,
         c \in Call => CallStep(c),
         \/ tip' = tip
         \/ \A d \in Call \ {c} : call[d].pc # "idle" => call'[d].overtaken,
         \A w \in State : StateIsSound(w)'
  PROVE  WorkflowInv'
<1>1. Typed /\ Typed' /\ Grows /\ CallsOf(c) /\ RowsAreReached
  BY InvTyped DEF TypeStep, WorkflowInv
<1>2. tip \in Nat /\ tip' \in Nat /\ tip <= tip'
  BY <1>1, EngineAssumption DEF Typed, TypeOK, State, Grows
<1>3. ASSUME NEW d \in Call \ {c} PROVE CallStep(d)
  <2>1. /\ call[d] \in Calls /\ W(d)' = W(d) /\ call'[d].pc = call[d].pc
        /\ call[d].overtaken => call'[d].overtaken
        /\ W(d) \in Nat
    BY <1>1, EngineAssumption DEF CallsOf, Typed, TypeOK, Calls, W, State
  <2>2. CallIsSound(d)'
    BY <1>1, OthersKept, InvTyped DEF CallsOf
  <2>3. W(d)' <= tip'
    BY <1>2, <2>1 DEF WorkflowInv, RowsAreReached
  <2>4. OvertakenIfBehind(d)'
    BY <2>1 DEF WorkflowInv, OvertakenIfBehind
  <2> QED
    BY <2>2, <2>3, <2>4 DEF CallStep
<1>4. \A d \in Call : CallStep(d)
  BY <1>3
<1>5. RowsAreReached'
  BY <1>1, <1>4, ReachedKept DEF CallStep
<1> QED
  BY <1>1, <1>4, <1>5 DEF WorkflowInv, Typed, CallStep, CallIsSound

\* A call that has ended.
LEMMA EndedStep ==
  ASSUME Typed', NEW c \in Call, call'[c].pc = "idle", W(c)' <= tip'
  PROVE  CallStep(c)
BY DEF CallStep, CallIsSound, RunIsStored, WayIsMade, OvertakenIfBehind, At, MadeBefore

LEMMA EndStep ==
  ASSUME Typed, Typed', NEW c \in Call, End(c)
  PROVE  CallStep(c)
<1>1. call'[c] = Idle
  BY EndTypes DEF Typed, TypeOK, CallsTyped
<1>2. tip' \in Nat
  BY EngineAssumption DEF Typed, TypeOK, State
<1>3. W(c)' <= tip' /\ call'[c].pc = "idle"
  BY <1>1, <1>2 DEF W, Idle
<1> QED
  BY <1>3, EndedStep

\* A call that goes on with its state.
LEMMA GoesOn ==
  ASSUME WorkflowInv, NEW c \in Call, UNCHANGED tip, call[c].pc \notin {"idle", "reread"},
         call'[c].state = call[c].state, call'[c].overtaken = call[c].overtaken
  PROVE  W(c)' <= tip' /\ OvertakenIfBehind(c)'
BY DEF WorkflowInv, RowsAreReached, OvertakenIfBehind, W

\* Before a plan is there, and on the way to the authority, nothing is asked.
LEMMA NothingAsked ==
  ASSUME NEW c \in Call, call'[c].pc \in {"idle", "evidence", "reread", "lookup", "plan"}
  PROVE  CallIsSound(c)'
BY DEF CallIsSound, RunIsStored, WayIsMade, At, MadeBefore

\* Nothing changes for a state.
LEMMA SameStates ==
  ASSUME WorkflowInv, Grows, \A w \in State : Same(w)
  PROVE  \A w \in State : StateIsSound(w)'
BY StateKept, InvTyped DEF WorkflowInv

LEMMA SameOwners ==
  ASSUME WorkflowInv, Grows, UNCHANGED owners
  PROVE  /\ \A w \in State : StateIsSound(w)'
         /\ \A w \in State, k \in Kind : artifact'[w][k] = artifact[w][k]
BY SameStates DEF owners, Same

LEMMA InvInit == Init => WorkflowInv
<1> SUFFICES ASSUME Init PROVE WorkflowInv
  OBVIOUS
<1>1. Typed
  BY TypeInit
<1>2. tip \in Nat /\ 0 <= tip
  BY EngineAssumption DEF Init
<1>3. \A c \in Call : call[c] = Idle
  BY DEF Init
<1>4. \A w \in State : artifact[w] = NoRows /\ approval[w] = None /\ marks[w] = {}
  BY DEF Init
<1>5. RowsAreReached
  BY <1>1, <1>2, <1>3, <1>4 DEF RowsAreReached, Typed, NoRows, W, Idle
<1>6. \A w \in State : StateIsSound(w)
  <2>1. /\ "WORKFLOW" \in Kind /\ "AUTHORITY_EVALUATION" \in Content["WORKFLOW"]
        /\ "EXECUTION_AUTHORIZATION" \in Kind
    BY DEF Kind, Content
  <2>2. None # "AUTHORITY_EVALUATION"
    BY <2>1, RowsAreThere
  <2>3. \A w \in State : artifact[w]["WORKFLOW"] = None
                         /\ artifact[w]["EXECUTION_AUTHORIZATION"] = None
    BY <1>4, <2>1 DEF NoRows
  <2> QED
    BY <1>4, <2>2, <2>3 DEF StateIsSound
<1>7. \A c \in Call : RunIsStored(c) /\ WayIsMade(c) /\ OvertakenIfBehind(c)
  <2> SUFFICES ASSUME NEW c \in Call
               PROVE  RunIsStored(c) /\ WayIsMade(c) /\ OvertakenIfBehind(c)
    OBVIOUS
  <2>1. call[c].pc = "idle" /\ "idle" \notin DOMAIN MadeBefore
    BY <1>3 DEF Idle, MadeBefore
  <2> QED
    BY <2>1 DEF RunIsStored, WayIsMade, OvertakenIfBehind, At
<1> QED
  BY <1>1, <1>5, <1>6, <1>7 DEF WorkflowInv, Typed

LEMMA SetPolicyStep ==
  ASSUME WorkflowInv, SetPolicy
  PROVE  WorkflowInv'
<1>1. Typed /\ TypeStep(None) /\ Grows
  BY InvTyped, SetPolicyTypes DEF TypeStep
<1>2. None \notin Call
  BY EngineAssumption
<1>3. \A d \in Call \ {None} : call[d].pc # "idle" => call'[d].overtaken
  <2> SUFFICES ASSUME NEW d \in Call, call[d].pc # "idle" PROVE call'[d].overtaken
    OBVIOUS
  <2>1. CallsTyped /\ call[d] \in Calls /\ d # None
    BY <1>1, <1>2 DEF Typed, TypeOK, CallsTyped
  <2>2. call'[d] = [call[d] EXCEPT !.overtaken = TRUE]
    BY <2>1, OvertakeTypes DEF SetPolicy, Active
  <2> QED
    BY <2>1, <2>2 DEF Calls
<1> QED
  BY <1>1, <1>2, <1>3, StepKeeps, SameOwners DEF SetPolicy

LEMMA DecideStep ==
  ASSUME WorkflowInv, NEW w \in State, NEW d \in {"APPROVED", "REJECTED"}, Decide(w, d)
  PROVE  WorkflowInv'
<1>1. Typed /\ TypeStep(None) /\ Grows
  BY InvTyped, DecideTypes DEF TypeStep
<1>2. None \notin Call /\ None # "PENDING"
  BY EngineAssumption DEF Status
<1>3. \A v \in State : v # w => approval'[v] = approval[v]
  BY <1>1 DEF Decide, Typed, TypeOK
<1>4. approval[w] = "PENDING" /\ UNCHANGED <<artifact, evaluation, marks, tip, summary>>
  BY DEF Decide, world
<1>5. ASSUME NEW v \in State PROVE StateIsSound(v)'
  <2>1. CASE v # w
    <3>1. Same(v) /\ StateIsSound(v) /\ RowsAreReached
      BY <1>3, <1>4, <2>1 DEF Same, WorkflowInv
    <3> QED
      BY <1>1, <3>1, StateKept
  <2>2. CASE v = w
    <3>1. StateIsSound(w)
      BY DEF WorkflowInv
    <3>2. DecidedOn(w) => DecidedOn(w)'
      BY <1>1, DecidedOnKept
    <3>3. OneRun(w) => OneRun(w)'
      BY <1>4 DEF OneRun
    <3> QED
      BY <1>2, <1>4, <2>2, <3>1, <3>2, <3>3 DEF StateIsSound
  <2> QED
    BY <2>1, <2>2
<1> QED
  BY <1>1, <1>2, <1>4, <1>5, StepKeeps

\* A step of c that leaves the stores alone.
LEMMA QuietStep ==
  ASSUME WorkflowInv, NEW c \in Call, TypeStep(c), UNCHANGED <<tip, owners>>, CallStep(c)
  PROVE  WorkflowInv'
<1>1. Grows
  BY DEF TypeStep
<1>2. /\ \A w \in State : StateIsSound(w)'
      /\ \A w \in State, k \in Kind : artifact'[w][k] = artifact[w][k]
  BY <1>1, SameOwners
<1> QED
  BY <1>2, StepKeeps

LEMMA SubmitStep ==
  ASSUME WorkflowInv, NEW c \in Call, NEW evidence \in BOOLEAN, Submit(c, evidence)
  PROVE  WorkflowInv'
<1>1. Typed /\ TypeStep(c) /\ tip \in Nat
  BY InvTyped, SubmitTypes, EngineAssumption DEF Typed, TypeOK, State
<1>2. /\ call'[c].pc \in {"evidence", "lookup"} /\ call'[c].state = tip /\ tip' = tip
  BY <1>1 DEF Submit, Idle, world, Typed, TypeOK
<1>3. CallStep(c)
  BY <1>1, <1>2, NothingAsked DEF CallStep, W, OvertakenIfBehind
<1> QED
  BY <1>1, <1>3, QuietStep DEF Submit, world

LEMMA ResumeStep ==
  ASSUME WorkflowInv, NEW c \in Call, NEW w \in State, Resume(c, w)
  PROVE  WorkflowInv'
<1>1. Typed /\ TypeStep(c) /\ tip \in Nat
  BY InvTyped, ResumeTypes, EngineAssumption DEF Typed, TypeOK, State
<1>2. /\ call'[c].pc = "evaluate" /\ call'[c].state = tip /\ tip' = tip
      /\ call'[c].resumes = TRUE
  BY <1>1 DEF Resume, Idle, world, Typed, TypeOK
<1>3. CallIsSound(c)'
  BY <1>2 DEF CallIsSound, RunIsStored, WayIsMade, At, MadeBefore
<1>4. CallStep(c)
  BY <1>1, <1>2, <1>3 DEF CallStep, W, OvertakenIfBehind
<1> QED
  BY <1>1, <1>4, QuietStep DEF Resume, world

LEMMA SupersedeStep ==
  ASSUME WorkflowInv, NEW c \in Call, Supersede(c)
  PROVE  WorkflowInv'
<1>1. Typed /\ TypeStep(c) /\ Grows /\ CallsTyped /\ tip \in Nat /\ W(c) <= tip
  BY InvTyped, SupersedeTypes, EngineAssumption
     DEF TypeStep, Typed, TypeOK, CallsTyped, State, WorkflowInv, RowsAreReached
<1>2. CASE tip = W(c) /\ tip < MaxTip /\ summary[tip] = "none"
  <2>1. tip' = tip + 1 /\ call' = [Overtake(call, c) EXCEPT ![c].pc = "reread"]
    BY <1>2 DEF Supersede
  <2>2. /\ Overtake(call, c) \in [Call -> Calls]
        /\ \A d \in Call : Overtake(call, c)[d] =
             IF d # c /\ Active(d) THEN [call[d] EXCEPT !.overtaken = TRUE] ELSE call[d]
    BY <1>1, OvertakeTypes
  <2>3. call'[c].pc = "reread" /\ call'[c].state = call[c].state
    BY <1>1, <2>1, <2>2 DEF CallsTyped, Calls
  <2>4. CallStep(c)
    BY <1>1, <1>2, <2>1, <2>3, NothingAsked DEF CallStep, W, OvertakenIfBehind
  <2>5. ASSUME NEW d \in Call \ {c}, call[d].pc # "idle" PROVE call'[d].overtaken
    <3>1. call'[d] = [call[d] EXCEPT !.overtaken = TRUE]
      BY <2>1, <2>2, <2>5 DEF Active
    <3> QED
      BY <1>1, <3>1 DEF CallsTyped, Calls
  <2> QED
    BY <1>1, <2>4, <2>5, StepKeeps, SameOwners DEF Supersede
<1>3. CASE ~(tip = W(c) /\ tip < MaxTip /\ summary[tip] = "none")
  <2>1. Goto(c, "lookup") /\ tip' = tip /\ "lookup" \in PCs /\ call[c].pc = "evidence"
    BY <1>3 DEF Supersede, PCs, RunPC, At
  <2>2. call'[c].pc = "lookup" /\ call'[c].state = call[c].state
        /\ call'[c].overtaken = call[c].overtaken
    <3>1. call'[c] = [call[c] EXCEPT !.pc = "lookup"]
      BY <1>1, <2>1, GotoTypes
    <3> QED
      BY <1>1, <3>1 DEF CallsTyped, Calls
  <2>3. CallStep(c)
    <3>1. CallIsSound(c)'
      BY <2>2, NothingAsked
    <3>2. W(c)' <= tip' /\ OvertakenIfBehind(c)'
      BY <2>1, <2>2, GoesOn
    <3> QED
      BY <3>1, <3>2 DEF CallStep
  <2> QED
    BY <1>1, <2>1, <2>3, QuietStep DEF Supersede
<1> QED
  BY <1>2, <1>3

LEMMA RereadStep ==
  ASSUME WorkflowInv, NEW c \in Call, NEW named \in BOOLEAN, Reread(c, named)
  PROVE  WorkflowInv'
<1>1. Typed /\ TypeStep(c) /\ CallsTyped /\ tip \in Nat
  BY InvTyped, RereadTypes, EngineAssumption DEF Typed, TypeOK, CallsTyped, State
<1>2. tip' = tip /\ UNCHANGED owners
  BY DEF Reread, world
<1>3. call'[c].pc \in {"idle", "lookup"} /\ call'[c].state = tip
  <2>1. CASE tip # W(c) /\ named
    BY <1>1, <2>1 DEF Reread, Ended, Idle, CallsTyped
  <2>2. CASE ~(tip # W(c) /\ named)
    <3>1. call' = [call EXCEPT ![c] = [call[c] EXCEPT !.pc = "lookup", !.state = tip,
                                                      !.overtaken = FALSE]]
      BY <1>1, <2>2 DEF CallsTyped, Reread
    <3> QED
      BY <1>1, <3>1 DEF CallsTyped, Calls
  <2> QED
    BY <2>1, <2>2
<1>4. CallStep(c)
  BY <1>1, <1>2, <1>3, NothingAsked DEF CallStep, W, OvertakenIfBehind
<1> QED
  BY <1>1, <1>2, <1>4, QuietStep

\* Steps that end the call, and leave the stores alone.
LEMMA EndsStep ==
  ASSUME WorkflowInv, NEW c \in Call,
         Fail(c) \/ TooLate(c) \/ Crash(c) \/ (Lookup(c) /\ End(c)) \/ (ReadApproval(c) /\ End(c))
  PROVE  WorkflowInv'
<1>1. Typed /\ TypeStep(c) /\ Typed' /\ CallsTyped /\ W(c) <= tip
  BY InvTyped, LookupTypes
     DEF TypeStep, Typed, TypeOK, CallsTyped, WorkflowInv, RowsAreReached
<1>2. UNCHANGED <<tip, owners>>
  BY DEF Fail, TooLate, Crash, Lookup, ReadApproval, world
<1>3. CASE TooLate(c)
  <2>1. call'[c].pc = "idle" /\ call'[c].state = W(c)
    BY <1>1, <1>3 DEF TooLate, Ended, Idle, CallsTyped
  <2> QED
    BY <1>1, <1>2, <2>1, EndedStep, QuietStep DEF W
<1>4. CASE End(c)
  BY <1>1, <1>2, <1>4, EndStep, QuietStep
<1> QED
  BY <1>3, <1>4 DEF Fail, Crash

LEMMA LookupStep ==
  ASSUME WorkflowInv, NEW c \in Call, Lookup(c)
  PROVE  WorkflowInv'
<1>1. Typed /\ TypeStep(c) /\ CallsTyped
  BY InvTyped, LookupTypes DEF Typed, TypeOK, CallsTyped
<1>2. CASE Goto(c, "plan")
  <2>1. "plan" \in PCs /\ call[c].pc = "lookup" /\ UNCHANGED tip
    BY DEF PCs, RunPC, Lookup, At, world
  <2>2. call'[c].pc = "plan" /\ call'[c].state = call[c].state
        /\ call'[c].overtaken = call[c].overtaken
    <3>1. call'[c] = [call[c] EXCEPT !.pc = "plan"]
      BY <1>1, <1>2, <2>1, GotoTypes
    <3> QED
      BY <1>1, <3>1 DEF CallsTyped, Calls
  <2>3. CallStep(c)
    <3>1. CallIsSound(c)'
      BY <2>2, NothingAsked
    <3>2. W(c)' <= tip' /\ OvertakenIfBehind(c)'
      BY <2>1, <2>2, GoesOn
    <3> QED
      BY <3>1, <3>2 DEF CallStep
  <2> QED
    BY <1>1, <2>3, QuietStep DEF Lookup, world
<1> QED
  BY <1>2, EndsStep DEF Lookup

-----------------------------------------------------------------------------
(* The steps of a run.                                                     *)

\* An append that is not refused leaves its row.
LEMMA AppendLeaves ==
  ASSUME Typed, NEW c \in Call, NEW k \in Kind, NEW x \in Content[k],
         \/ Rows(c)[k] = None /\ Put(c, k, x)
         \/ Rows(c)[k] = x /\ UNCHANGED artifact
  PROVE  artifact'[W(c)][k] = x
<1>1. W(c) \in State
  BY DEF Typed, TypeOK, Calls, W
<1>2. CASE Rows(c)[k] = x /\ UNCHANGED artifact
  BY <1>2 DEF Rows
<1>3. CASE Put(c, k, x)
  BY <1>1, <1>3 DEF Typed, Put
<1> QED
  BY <1>2, <1>3

\* A run that appends a row of the chain, and goes on or ends.
LEMMA ChainStep ==
  ASSUME WorkflowInv, NEW c \in Call, TypeStep(c),
         NEW k \in {"PLAN", "PLAN_VERIFICATION", "ACTION", "GUARDIAN"}, NEW x \in Content[k],
         Appended(c, k, x), UNCHANGED <<tip, approval, marks>>,
         CallStep(c)
  PROVE  WorkflowInv'
<1>1. Typed /\ Grows /\ ArtifactTyped /\ CallsTyped /\ RowsAreReached
  BY InvTyped DEF Typed, TypeOK, TypeStep, ArtifactTyped, CallsTyped, WorkflowInv
<1>2. k \in Kind /\ {"WORKFLOW", "EXECUTION_AUTHORIZATION"} \subseteq Kind \ {k}
  BY DEF Kind
<1>3. \A w \in State, l \in Kind : w # W(c) \/ l # k => artifact'[w][l] = artifact[w][l]
  BY <1>1, <1>2, AppendedTypes
<1>4. \A w \in State : StateIsSound(w)'
  <2>1. \A w \in State : Same(w)
    BY <1>2, <1>3 DEF Same
  <2> QED
    BY <1>1, <2>1, SameStates
<1>5. \A w \in State, l \in Kind : artifact'[w][l] = artifact[w][l] \/ w <= tip
  BY <1>1, <1>3 DEF RowsAreReached
<1> QED
  BY <1>4, <1>5, StepKeeps

\* A run is sound at its next step if what it stored is there.
LEMMA RunGoesOn ==
  ASSUME WorkflowInv, NEW c \in Call, UNCHANGED tip,
         call[c].pc \in {"plan", "check", "act", "guard"},
         call'[c].pc \in {"check", "act", "guard", "close"},
         call'[c].state = call[c].state, call'[c].overtaken = call[c].overtaken,
         RunIsStored(c)'
  PROVE  CallStep(c)
<1>1. W(c)' <= tip' /\ OvertakenIfBehind(c)'
  BY GoesOn
<1>2. WayIsMade(c)'
  <2>1. DOMAIN MadeBefore' \cap {"check", "act", "guard", "close"} = {}
    BY DEF MadeBefore
  <2> QED
    BY <2>1 DEF WayIsMade, At
<1> QED
  BY <1>1, <1>2 DEF CallStep, CallIsSound

LEMMA MakePlanStep ==
  ASSUME WorkflowInv, NEW c \in Call, NEW p \in Plan, NEW t \in Stamp, MakePlan(c, p, t)
  PROVE  WorkflowInv'
<1>1. /\ Typed /\ TypeStep(c) /\ Typed' /\ CallsTyped
      /\ Appended(c, "PLAN", p) /\ p \in Content["PLAN"] /\ "PLAN" \in Kind
  BY InvTyped, MakePlanTypes DEF TypeStep, Typed, TypeOK, CallsTyped, Content, Kind
<1>2. UNCHANGED <<tip, approval, marks>> /\ call[c].pc = "plan"
  BY DEF MakePlan, world, At
<1>3. CASE End(c)
  BY <1>1, <1>2, <1>3, EndStep, ChainStep
<1>4. CASE ~End(c)
  <2>1. /\ call' = [call EXCEPT ![c].pc = "check", ![c].plan = p, ![c].stamp = t]
        /\ \/ Rows(c)["PLAN"] = None /\ Put(c, "PLAN", p)
           \/ Rows(c)["PLAN"] = p /\ UNCHANGED artifact
    BY <1>4 DEF MakePlan, Append
  <2>2. artifact'[W(c)]["PLAN"] = p
    BY <1>1, <2>1, AppendLeaves
  <2>3. call' = [call EXCEPT ![c] = [call[c] EXCEPT !.pc = "check", !.plan = p, !.stamp = t]]
    BY <1>1, <2>1 DEF CallsTyped
  <2>4. call'[c].pc = "check" /\ call'[c].plan = p /\ call'[c].stamp = t
        /\ call'[c].state = call[c].state /\ call'[c].overtaken = call[c].overtaken
    BY <1>1, <2>3 DEF CallsTyped, Calls
  <2>5. RunIsStored(c)'
    BY <2>2, <2>4 DEF RunIsStored, At, Rows, W
  <2> QED
    BY <1>1, <1>2, <2>4, <2>5, RunGoesOn, ChainStep
<1> QED
  BY <1>3, <1>4

LEMMA VerifyPlanStep ==
  ASSUME WorkflowInv, NEW c \in Call, NEW ok \in BOOLEAN, VerifyPlan(c, ok)
  PROVE  WorkflowInv'
<1> DEFINE x == [plan |-> call[c].plan, ok |-> ok]
<1>1. UNCHANGED <<tip, approval, marks>> /\ call[c].pc = "check"
  BY DEF VerifyPlan, world, At
<1>2. /\ Typed /\ CallsTyped /\ {"PLAN", "PLAN_VERIFICATION"} \subseteq Kind
      /\ call[c].plan \in Plan /\ call[c].stamp \in Stamp /\ Rows(c)["PLAN"] = call[c].plan
  BY <1>1, InvTyped DEF Typed, TypeOK, CallsTyped, Kind, CallIsSound, RunIsStored
<1>3. TypeStep(c) /\ Typed' /\ Grows /\ Appended(c, "PLAN_VERIFICATION", x)
  BY <1>2, VerifyPlanTypes DEF TypeStep
<1>4. x \in Content["PLAN_VERIFICATION"]
  BY <1>2 DEF Content, Kind, Checked
<1>5. CASE End(c)
  BY <1>1, <1>2, <1>3, <1>4, <1>5, EndStep, ChainStep
<1>6. CASE ~End(c)
  <2>1. /\ call' = [call EXCEPT ![c].pc = "act", ![c].ok = ok]
        /\ \/ Rows(c)["PLAN_VERIFICATION"] = None /\ Put(c, "PLAN_VERIFICATION", x)
           \/ Rows(c)["PLAN_VERIFICATION"] = x /\ UNCHANGED artifact
    BY <1>6 DEF VerifyPlan, Append
  <2>2. artifact'[W(c)]["PLAN_VERIFICATION"] = x
    BY <1>2, <1>4, <2>1, AppendLeaves
  <2>3. call' = [call EXCEPT ![c] = [call[c] EXCEPT !.pc = "act", !.ok = ok]]
    BY <1>2, <2>1 DEF CallsTyped
  <2>4. /\ call'[c].pc = "act" /\ call'[c].ok = ok /\ call'[c].plan = call[c].plan
        /\ call'[c].stamp = call[c].stamp /\ call'[c].state = call[c].state
        /\ call'[c].overtaken = call[c].overtaken /\ W(c) \in State
    BY <1>2, <2>3 DEF CallsTyped, Calls, W
  <2>5. artifact'[W(c)]["PLAN"] = call[c].plan
    <3>1. Rows(c)["PLAN"] # None
      BY <1>2, RowsAreThere DEF Content
    <3> QED
      BY <1>2, <1>3, <2>4, <3>1 DEF Grows, Rows
  <2>6. RunIsStored(c)'
    BY <1>2, <2>2, <2>4, <2>5 DEF RunIsStored, At, Rows, W
  <2> QED
    BY <1>1, <1>3, <1>4, <2>4, <2>6, RunGoesOn, ChainStep
<1> QED
  BY <1>5, <1>6

LEMMA ProposeStep ==
  ASSUME WorkflowInv, NEW c \in Call, Propose(c)
  PROVE  WorkflowInv'
<1> DEFINE x == ActionOf(c)
<1>1. UNCHANGED <<tip, approval, marks>> /\ call[c].pc = "act"
  BY DEF Propose, world, At
<1>2. /\ Typed /\ CallsTyped /\ {"PLAN", "PLAN_VERIFICATION", "ACTION"} \subseteq Kind
      /\ call[c].plan \in Plan /\ call[c].stamp \in Stamp /\ call[c].ok \in BOOLEAN
      /\ Rows(c)["PLAN"] = call[c].plan
      /\ Rows(c)["PLAN_VERIFICATION"] = [plan |-> call[c].plan, ok |-> call[c].ok]
  BY <1>1, InvTyped DEF Typed, TypeOK, CallsTyped, Calls, Kind, CallIsSound, RunIsStored
<1>3. TypeStep(c) /\ Typed' /\ Grows /\ Appended(c, "ACTION", x)
  BY <1>2, ProposeTypes DEF TypeStep
<1>4. x \in Content["ACTION"]
  BY <1>2 DEF Content, Kind, Action, ActionOf
<1> HIDE DEF x
<1>5. CASE End(c)
  BY <1>1, <1>2, <1>3, <1>4, <1>5, EndStep, ChainStep
<1>6. CASE ~End(c)
  <2>1. /\ Goto(c, "guard") /\ "guard" \in PCs
        /\ \/ Rows(c)["ACTION"] = None /\ Put(c, "ACTION", x)
           \/ Rows(c)["ACTION"] = x /\ UNCHANGED artifact
    BY <1>6 DEF Propose, Append, PCs, RunPC, x
  <2>2. artifact'[W(c)]["ACTION"] = x
    BY <1>2, <1>4, <2>1, AppendLeaves
  <2>3. call'[c] = [call[c] EXCEPT !.pc = "guard"]
    BY <1>2, <2>1, GotoTypes
  <2>4. /\ call'[c].pc = "guard" /\ call'[c].ok = call[c].ok /\ call'[c].plan = call[c].plan
        /\ call'[c].stamp = call[c].stamp /\ call'[c].state = call[c].state
        /\ call'[c].overtaken = call[c].overtaken /\ W(c) \in State
    BY <1>2, <2>3 DEF CallsTyped, Calls, W
  <2>5. /\ artifact'[W(c)]["PLAN"] = call[c].plan
        /\ artifact'[W(c)]["PLAN_VERIFICATION"] = [plan |-> call[c].plan, ok |-> call[c].ok]
    <3>1. Rows(c)["PLAN"] # None /\ Rows(c)["PLAN_VERIFICATION"] # None
      BY <1>2, RowsAreThere DEF Content, Checked
    <3> QED
      BY <1>2, <1>3, <2>4, <3>1 DEF Grows, Rows
  <2>6. ActionOf(c)' = x
    BY <2>4 DEF ActionOf, x
  <2>7. RunIsStored(c)'
    BY <1>2, <2>2, <2>4, <2>5, <2>6 DEF RunIsStored, At, Rows, W
  <2> QED
    BY <1>1, <1>3, <1>4, <2>4, <2>7, RunGoesOn, ChainStep
<1> QED
  BY <1>5, <1>6

LEMMA GuardStep ==
  ASSUME WorkflowInv, NEW c \in Call, NEW ok \in BOOLEAN, Guard(c, ok)
  PROVE  WorkflowInv'
<1> DEFINE x == [action |-> ActionOf(c), ok |-> ok]
<1>1. UNCHANGED <<tip, approval, marks>> /\ call[c].pc = "guard"
  BY DEF Guard, world, At
<1>2. /\ Typed /\ CallsTyped
      /\ {"PLAN", "PLAN_VERIFICATION", "ACTION", "GUARDIAN"} \subseteq Kind
      /\ call[c].plan \in Plan /\ call[c].stamp \in Stamp /\ call[c].ok \in BOOLEAN
      /\ Rows(c)["PLAN"] = call[c].plan
      /\ Rows(c)["PLAN_VERIFICATION"] = [plan |-> call[c].plan, ok |-> call[c].ok]
      /\ Rows(c)["ACTION"] = ActionOf(c)
  BY <1>1, InvTyped DEF Typed, TypeOK, CallsTyped, Calls, Kind, CallIsSound, RunIsStored
<1>3. TypeStep(c) /\ Typed' /\ Grows /\ Appended(c, "GUARDIAN", x)
  BY <1>2, GuardTypes DEF TypeStep
<1>4. ActionOf(c) \in Action /\ x \in Content["GUARDIAN"]
  BY <1>2 DEF Content, Kind, Action, ActionOf, Judged
<1>5. CASE End(c)
  BY <1>1, <1>2, <1>3, <1>4, <1>5, EndStep, ChainStep
<1>6. CASE ~End(c)
  <2>1. /\ call' = [call EXCEPT ![c].pc = "close", ![c].judged = ok]
        /\ \/ Rows(c)["GUARDIAN"] = None /\ Put(c, "GUARDIAN", x)
           \/ Rows(c)["GUARDIAN"] = x /\ UNCHANGED artifact
    BY <1>6 DEF Guard, Append
  <2>2. artifact'[W(c)]["GUARDIAN"] = x
    BY <1>2, <1>4, <2>1, AppendLeaves
  <2>3. call' = [call EXCEPT ![c] = [call[c] EXCEPT !.pc = "close", !.judged = ok]]
    BY <1>2, <2>1 DEF CallsTyped
  <2>4. /\ call'[c].pc = "close" /\ call'[c].ok = call[c].ok /\ call'[c].plan = call[c].plan
        /\ call'[c].stamp = call[c].stamp /\ call'[c].state = call[c].state
        /\ call'[c].judged = ok
        /\ call'[c].overtaken = call[c].overtaken /\ W(c) \in State
    BY <1>2, <2>3 DEF CallsTyped, Calls, W
  <2>5. /\ artifact'[W(c)]["PLAN"] = call[c].plan
        /\ artifact'[W(c)]["PLAN_VERIFICATION"] = [plan |-> call[c].plan, ok |-> call[c].ok]
        /\ artifact'[W(c)]["ACTION"] = ActionOf(c)
    <3>1. /\ Rows(c)["PLAN"] # None /\ Rows(c)["PLAN_VERIFICATION"] # None
          /\ Rows(c)["ACTION"] # None
      BY <1>2, <1>4, RowsAreThere DEF Content, Checked
    <3> QED
      BY <1>2, <1>3, <2>4, <3>1 DEF Grows, Rows
  <2>6. ActionOf(c)' = ActionOf(c)
    BY <2>4 DEF ActionOf
  <2>7. RunIsStored(c)'
    BY <1>2, <2>2, <2>4, <2>5, <2>6 DEF RunIsStored, At, Rows, W
  <2> QED
    BY <1>1, <1>3, <1>4, <2>4, <2>7, RunGoesOn, ChainStep
<1> QED
  BY <1>5, <1>6

\* A last row is written only where there was none.
LEMMA CloseStates ==
  ASSUME WorkflowInv, NEW c \in Call, TypeStep(c), UNCHANGED <<tip, approval, marks>>,
         NEW x \in {"AUTHORITY_EVALUATION", "BLOCKED"}, Appended(c, "WORKFLOW", x),
         x = "AUTHORITY_EVALUATION" => OneRun(W(c))
  PROVE  /\ \A w \in State : StateIsSound(w)'
         /\ \A w \in State, l \in Kind : artifact'[w][l] = artifact[w][l] \/ w <= tip
<1>1. Typed /\ Grows /\ ArtifactTyped /\ CallsTyped /\ RowsAreReached /\ W(c) \in State
  BY InvTyped DEF Typed, TypeOK, TypeStep, ArtifactTyped, CallsTyped, WorkflowInv, Calls, W
<1>2. /\ {"WORKFLOW", "EXECUTION_AUTHORIZATION"} \subseteq Kind
      /\ x \in Content["WORKFLOW"] /\ "AUTHORITY_EVALUATION" \in Content["WORKFLOW"]
  BY DEF Kind, Content
<1>3. /\ \A w \in State, l \in Kind : w # W(c) \/ l # "WORKFLOW" => artifact'[w][l] = artifact[w][l]
      /\ \/ artifact'[W(c)]["WORKFLOW"] = artifact[W(c)]["WORKFLOW"]
         \/ artifact[W(c)]["WORKFLOW"] = None /\ artifact'[W(c)]["WORKFLOW"] = x
  BY <1>1, <1>2, AppendedTypes
<1>4. \A w \in State, l \in Kind : artifact'[w][l] = artifact[w][l] \/ w <= tip
  BY <1>1, <1>3 DEF RowsAreReached
<1>5. ASSUME NEW w \in State PROVE StateIsSound(w)'
  <2>1. StateIsSound(w)
    BY DEF WorkflowInv
  <2>2. CASE artifact'[w]["WORKFLOW"] = artifact[w]["WORKFLOW"]
    <3>1. Same(w)
      BY <1>2, <1>3, <2>2 DEF Same
    <3> QED
      BY <1>1, <2>1, <3>1, StateKept
  <2>3. CASE artifact'[w]["WORKFLOW"] # artifact[w]["WORKFLOW"]
    <3>1. w = W(c) /\ artifact[w]["WORKFLOW"] = None /\ artifact'[w]["WORKFLOW"] = x
      BY <1>2, <1>3, <2>3
    <3>2. artifact[w]["WORKFLOW"] # "AUTHORITY_EVALUATION"
      BY <1>2, <3>1, RowsAreThere
    <3>3. /\ artifact[w]["EXECUTION_AUTHORIZATION"] = None /\ approval[w] = None
          /\ artifact'[w]["EXECUTION_AUTHORIZATION"] = None /\ approval'[w] = None
          /\ marks'[w] = marks[w]
      BY <1>2, <1>3, <2>1, <3>2 DEF StateIsSound
    <3>4. DecidedOn(w) => DecidedOn(w)'
      BY <1>1, DecidedOnKept
    <3>5. artifact'[w]["WORKFLOW"] = "AUTHORITY_EVALUATION" => OneRun(w)'
      BY <1>1, <3>1, OneRunKept
    <3> QED
      BY <2>1, <3>3, <3>4, <3>5 DEF StateIsSound
  <2> QED
    BY <2>2, <2>3
<1> QED
  BY <1>4, <1>5

LEMMA CloseStep ==
  ASSUME WorkflowInv, NEW c \in Call, NEW fits \in BOOLEAN, Close(c, fits)
  PROVE  WorkflowInv'
<1>1. /\ Typed /\ TypeStep(c) /\ Typed' /\ CallsTyped /\ "WORKFLOW" \in Kind
      /\ {"AUTHORITY_EVALUATION", "BLOCKED"} \subseteq Content["WORKFLOW"]
      /\ \/ Eligible(c, fits) /\ Appended(c, "WORKFLOW", "AUTHORITY_EVALUATION")
         \/ Appended(c, "WORKFLOW", "BLOCKED") /\ End(c)
  BY InvTyped, CloseTypes DEF TypeStep, Typed, TypeOK, CallsTyped, Kind, Content
<1>2. UNCHANGED <<tip, approval, marks>> /\ call[c].pc = "close"
  BY DEF Close, world, At
<1>3. /\ Rows(c)["PLAN"] = call[c].plan /\ call[c].plan \in Plan /\ call[c].stamp \in Stamp
      /\ Rows(c)["PLAN_VERIFICATION"] = [plan |-> call[c].plan, ok |-> call[c].ok]
      /\ Rows(c)["ACTION"] = ActionOf(c)
      /\ Rows(c)["GUARDIAN"] = [action |-> ActionOf(c), ok |-> call[c].judged]
  BY <1>2, InvTyped DEF CallIsSound, RunIsStored, At
<1>4. CASE Appended(c, "WORKFLOW", "BLOCKED") /\ End(c)
  BY <1>1, <1>2, <1>4, CloseStates, EndStep, StepKeeps
<1>5. CASE Eligible(c, fits) /\ Appended(c, "WORKFLOW", "AUTHORITY_EVALUATION")
  <2>1. call[c].ok = TRUE /\ call[c].judged = TRUE /\ summary[W(c)] = "own"
    BY <1>1, <1>5 DEF Eligible, CallsTyped, Calls
  <2>2. ActionOf(c) \in Action /\ ActionOf(c).plan = call[c].plan
    BY <1>3 DEF ActionOf, Action
  <2>3. OneRun(W(c))
    BY <1>3, <2>1, <2>2 DEF OneRun, Rows
  <2>4. CallStep(c)
    <3>1. CASE End(c)
      BY <1>1, <3>1, EndStep
    <3>2. CASE ~End(c)
      <4>1. /\ HandedOver(c)
            /\ \/ Rows(c)["WORKFLOW"] = None /\ Put(c, "WORKFLOW", "AUTHORITY_EVALUATION")
               \/ Rows(c)["WORKFLOW"] = "AUTHORITY_EVALUATION" /\ UNCHANGED artifact
        BY <1>5, <3>2 DEF Close, Append, HandedOver
      <4>2. artifact'[W(c)]["WORKFLOW"] = "AUTHORITY_EVALUATION"
        BY <1>1, <4>1, AppendLeaves
      <4>3. /\ call'[c].pc = "evaluate" /\ call'[c].state = call[c].state
            /\ call'[c].overtaken = call[c].overtaken
        BY <1>1, <4>1 DEF HandedOver, Idle, CallsTyped, W
      <4>4. CallIsSound(c)'
        BY <4>2, <4>3 DEF CallIsSound, RunIsStored, WayIsMade, At, MadeBefore, Rows, W
      <4>5. W(c)' <= tip' /\ OvertakenIfBehind(c)'
        BY <1>2, <4>3, GoesOn
      <4> QED
        BY <4>4, <4>5 DEF CallStep
    <3> QED
      BY <3>1, <3>2
  <2> QED
    BY <1>1, <1>2, <1>5, <2>3, <2>4, CloseStates, StepKeeps
<1> QED
  BY <1>1, <1>4, <1>5

-----------------------------------------------------------------------------
(* The steps of the authority, and what follows them.                      *)

\* What must have been made, step by step.
LEMMA MadeBeforeIs ==
  /\ DOMAIN MadeBefore = {"contract", "prepare", "mint", "bind", "authorize", "transition",
                          "record"}
  /\ MadeBefore["contract"] = {}
  /\ MadeBefore["prepare"] = {"contract"}
  /\ MadeBefore["mint"] = {"contract", "prepared"}
  /\ MadeBefore["bind"] = {"contract", "prepared", "grant"}
  /\ \A p \in {"authorize", "transition", "record"} :
       MadeBefore[p] = {"contract", "prepared", "grant", "binding"}
BY DEF MadeBefore

\* A workflow that something was made for was decided on.
LEMMA AskedIsHandedOver ==
  ASSUME WorkflowInv, NEW w \in State, approval[w] # None
  PROVE  artifact[w]["WORKFLOW"] = "AUTHORITY_EVALUATION" /\ evaluation[w] = "REQUIRE_APPROVAL"
BY DEF WorkflowInv, StateIsSound

\* A call that goes on to the contract.
LEMMA ToContract ==
  ASSUME WorkflowInv, NEW c \in Call, UNCHANGED <<tip, artifact>>,
         call[c].pc \in {"evaluate", "approved"},
         call'[c].pc = "contract", call'[c].state = call[c].state,
         call'[c].overtaken = call[c].overtaken,
         Rows(c)["WORKFLOW"] = "AUTHORITY_EVALUATION"
  PROVE  CallStep(c)
<1>1. W(c)' <= tip' /\ OvertakenIfBehind(c)'
  BY GoesOn
<1>2. Rows(c)' = Rows(c)
  BY DEF Rows, W
<1>3. CallIsSound(c)'
  BY <1>2, MadeBeforeIs DEF CallIsSound, RunIsStored, WayIsMade, At
<1> QED
  BY <1>1, <1>3 DEF CallStep

LEMMA ReadApprovalStep ==
  ASSUME WorkflowInv, NEW c \in Call, ReadApproval(c)
  PROVE  WorkflowInv'
<1>1. Typed /\ TypeStep(c) /\ CallsTyped /\ W(c) \in State
  BY InvTyped, LookupTypes DEF Typed, TypeOK, CallsTyped, Calls, W
<1>2. CASE approval[W(c)] = "APPROVED"
  <2>1. /\ Goto(c, "contract") /\ UNCHANGED <<tip, owners>> /\ call[c].pc = "approved"
        /\ "contract" \in PCs
    BY <1>2 DEF ReadApproval, world, At, PCs, ChainPC
  <2>2. call'[c] = [call[c] EXCEPT !.pc = "contract"]
    BY <1>1, <2>1, GotoTypes
  <2>3. /\ call'[c].pc = "contract" /\ call'[c].state = call[c].state
        /\ call'[c].overtaken = call[c].overtaken
    BY <1>1, <2>2 DEF CallsTyped, Calls
  <2>4. Rows(c)["WORKFLOW"] = "AUTHORITY_EVALUATION"
    <3>1. "APPROVED" # None
      BY EngineAssumption DEF Status
    <3> QED
      BY <1>1, <1>2, <3>1, AskedIsHandedOver DEF Rows
  <2>5. CallStep(c)
    BY <2>1, <2>3, <2>4, ToContract DEF owners
  <2> QED
    BY <1>1, <2>1, <2>5, QuietStep
<1>3. CASE approval[W(c)] # "APPROVED"
  BY <1>3, EndsStep DEF ReadApproval
<1> QED
  BY <1>2, <1>3

LEMMA EvaluateStep ==
  ASSUME WorkflowInv, NEW c \in Call, NEW d \in Signal, Evaluate(c, d)
  PROVE  WorkflowInv'
<1>1. Typed /\ TypeStep(c) /\ Typed' /\ Grows /\ CallsTyped /\ W(c) \in State
  BY InvTyped, EvaluateTypes DEF TypeStep, Typed, TypeOK, CallsTyped, Calls, W
<1>2. UNCHANGED <<tip, artifact, approval, marks>> /\ call[c].pc = "evaluate"
  BY DEF Evaluate, world, At
<1>3. \A w \in State : StateIsSound(w)'
  <2>1. \A w \in State : Same(w)
    BY <1>2 DEF Same
  <2> QED
    BY <1>1, <2>1, SameStates
<1>4. CallStep(c)
  <2>1. CASE End(c)
    BY <1>1, <2>1, EndStep
  <2>2. CASE ~End(c)
    <3>1. /\ evaluation' = [evaluation EXCEPT ![W(c)] = Decided(c, d)]
          /\ \/ /\ Decided(c, d) = "REQUIRE_APPROVAL"
                /\ Goto(c, IF call[c].resumes THEN "approved" ELSE "ask")
             \/ Decided(c, d) = "ALLOW" /\ ~call[c].resumes /\ Goto(c, "contract")
      BY <2>2 DEF Evaluate, After
    <3>2. evaluation'[W(c)] = Decided(c, d)
      BY <1>1, <3>1 DEF Typed, TypeOK
    <3>3. {"approved", "ask", "contract"} \subseteq PCs
      BY DEF PCs, ChainPC
    <3>4. PICK p \in {"approved", "ask", "contract"} :
            /\ Goto(c, p)
            /\ p = "ask" => ~call[c].resumes
            /\ p \in {"ask", "approved"} => Decided(c, d) = "REQUIRE_APPROVAL"
            /\ p = "contract" => ~call[c].resumes
      BY <3>1
    <3>5. call'[c] = [call[c] EXCEPT !.pc = p]
      BY <1>1, <3>3, <3>4, GotoTypes
    <3>6. /\ call'[c].pc = p /\ call'[c].state = call[c].state
          /\ call'[c].resumes = call[c].resumes /\ call'[c].overtaken = call[c].overtaken
      BY <1>1, <3>5 DEF CallsTyped, Calls
    <3>7. ~call[c].resumes => Rows(c)["WORKFLOW"] = "AUTHORITY_EVALUATION"
      BY <1>2, InvTyped DEF CallIsSound, WayIsMade
    <3>8. CASE p = "contract"
      BY <1>2, <3>4, <3>6, <3>7, <3>8, ToContract
    <3>9. CASE p \in {"ask", "approved"}
      <4>1. W(c)' <= tip' /\ OvertakenIfBehind(c)'
        BY <1>2, <3>6, GoesOn
      <4>2. Rows(c)' = Rows(c) /\ W(c)' = W(c)
        BY <1>2, <3>6 DEF Rows, W
      <4>3. CallIsSound(c)'
        BY <3>2, <3>4, <3>6, <3>7, <3>9, <4>2, MadeBeforeIs
           DEF CallIsSound, RunIsStored, WayIsMade, At
      <4> QED
        BY <4>1, <4>3 DEF CallStep
    <3> QED
      BY <3>8, <3>9
  <2> QED
    BY <2>1, <2>2
<1> QED
  BY <1>1, <1>2, <1>3, <1>4, StepKeeps

LEMMA CreateApprovalStep ==
  ASSUME WorkflowInv, NEW c \in Call, CreateApproval(c)
  PROVE  WorkflowInv'
<1>1. Typed /\ TypeStep(c) /\ Typed' /\ Grows /\ CallsTyped /\ W(c) \in State
  BY InvTyped, CreateApprovalTypes DEF TypeStep, Typed, TypeOK, CallsTyped, Calls, W
<1>2. /\ UNCHANGED <<tip, summary, artifact, evaluation, marks>>
      /\ call[c].pc = "ask" /\ End(c)
  BY DEF CreateApproval, world, At
<1>3. CallStep(c)
  BY <1>1, <1>2, EndStep
<1>4. /\ artifact[W(c)]["WORKFLOW"] = "AUTHORITY_EVALUATION"
      /\ evaluation[W(c)] = "REQUIRE_APPROVAL"
  BY <1>2, InvTyped DEF CallIsSound, WayIsMade, At, Rows
<1>5. ASSUME NEW w \in State PROVE StateIsSound(w)'
  <2>1. StateIsSound(w)
    BY DEF WorkflowInv
  <2>2. w # W(c) => approval'[w] = approval[w]
    BY <1>1 DEF CreateApproval, Typed, TypeOK
  <2>3. DecidedOn(w) => DecidedOn(w)'
    BY <1>1, DecidedOnKept
  <2>4. OneRun(w) => OneRun(w)'
    BY <1>2 DEF OneRun
  <2> QED
    BY <1>2, <1>4, <2>1, <2>2, <2>3, <2>4 DEF StateIsSound
<1> QED
  BY <1>1, <1>2, <1>3, <1>5, StepKeeps

\* A mark is left by a call on its way to a token.
LEMMA MarkStep ==
  ASSUME WorkflowInv, NEW c \in Call, TypeStep(c), NEW m \in Mark, Leave(c, m),
         UNCHANGED <<world, artifact, evaluation, approval>>,
         call[c].pc \in DOMAIN MadeBefore, call'[c].pc \in DOMAIN MadeBefore,
         DecidedOn(W(c)),
         m = "token" => {"contract", "prepared", "grant", "binding"} \subseteq marks[W(c)],
         call'[c].state = call[c].state, call'[c].overtaken = call[c].overtaken,
         MadeBefore[call'[c].pc] \subseteq marks[W(c)] \cup {m}
  PROVE  WorkflowInv'
<1>1. Typed /\ Typed' /\ Grows /\ CallsTyped /\ W(c) \in State
  BY InvTyped DEF TypeStep, Typed, TypeOK, CallsTyped, Calls, W
<1>2. UNCHANGED <<tip, summary>>
  BY DEF world
<1>3. /\ marks'[W(c)] = marks[W(c)] \cup {m}
      /\ \A w \in State : w # W(c) => marks'[w] = marks[w]
  BY <1>1 DEF Leave, Typed, TypeOK
<1>4. ASSUME NEW w \in State PROVE StateIsSound(w)'
  <2>1. StateIsSound(w)
    BY DEF WorkflowInv
  <2>2. DecidedOn(w) => DecidedOn(w)'
    BY <1>1, DecidedOnKept
  <2>3. OneRun(w) => OneRun(w)'
    BY <1>2 DEF OneRun
  <2>4. CASE w # W(c)
    BY <1>3, <2>1, <2>2, <2>3, <2>4 DEF StateIsSound
  <2>5. CASE w = W(c)
    <3>1. DecidedOn(w)'
      BY <2>2, <2>5
    <3>2. "token" \in marks'[w] => {"contract", "prepared", "grant", "binding"} \subseteq marks'[w]
      BY <1>3, <2>1, <2>5 DEF StateIsSound
    <3> QED
      BY <2>1, <2>3, <3>1, <3>2 DEF StateIsSound
  <2> QED
    BY <2>4, <2>5
<1>5. CallStep(c)
  <2>1. call[c].pc \notin {"idle", "reread"}
    BY MadeBeforeIs
  <2>2. W(c)' <= tip' /\ OvertakenIfBehind(c)'
    BY <1>2, <2>1, GoesOn
  <2>3. Rows(c)["WORKFLOW"] = "AUTHORITY_EVALUATION"
    BY InvTyped DEF CallIsSound, WayIsMade
  <2>4. Rows(c)' = Rows(c) /\ W(c)' = W(c)
    BY DEF Rows, W
  <2>5. MadeBefore[call'[c].pc] \subseteq marks'[W(c)]
    BY <1>3
  <2>6. call'[c].pc \in {"contract", "prepare", "mint", "bind", "authorize", "transition", "record"}
    BY MadeBeforeIs
  <2>7. CallIsSound(c)'
    BY <2>3, <2>4, <2>5, <2>6 DEF CallIsSound, RunIsStored, WayIsMade, At
  <2> QED
    BY <2>2, <2>7 DEF CallStep
<1> QED
  BY <1>1, <1>2, <1>4, <1>5, StepKeeps

\* A call on its way to a token that ends.
LEMMA GivesUp ==
  ASSUME WorkflowInv, NEW c \in Call, TypeStep(c), End(c), UNCHANGED <<tip, owners>>
  PROVE  WorkflowInv'
<1>1. Typed /\ Typed'
  BY InvTyped DEF TypeStep
<1> QED
  BY <1>1, EndStep, QuietStep

\* What has been made was decided on.
LEMMA MadeIsDecided ==
  ASSUME WorkflowInv, NEW c \in Call,
         call[c].pc \in {"bind", "authorize", "transition", "record"}
  PROVE  /\ DecidedOn(W(c)) /\ call[c].pc \in DOMAIN MadeBefore
         /\ {"contract", "prepared", "grant"} \subseteq marks[W(c)]
         /\ call[c].pc # "bind" => "binding" \in marks[W(c)]
<1>1. W(c) \in State
  BY DEF WorkflowInv, TypeOK, Calls, W
<1>2. call[c].pc \in DOMAIN MadeBefore /\ MadeBefore[call[c].pc] \subseteq marks[W(c)]
  BY InvTyped, MadeBeforeIs DEF CallIsSound, WayIsMade
<1>3. /\ {"contract", "prepared", "grant"} \subseteq marks[W(c)]
      /\ call[c].pc # "bind" => "binding" \in marks[W(c)]
  BY <1>2, MadeBeforeIs
<1> QED
  BY <1>1, <1>2, <1>3 DEF WorkflowInv, StateIsSound

LEMMA MakeStep ==
  ASSUME WorkflowInv, NEW c \in Call, CreateContract(c) \/ Prepare(c) \/ Mint(c)
  PROVE  WorkflowInv'
<1>1. Typed /\ TypeStep(c) /\ CallsTyped /\ W(c) \in State
  BY InvTyped, MakeTypes DEF Typed, TypeOK, CallsTyped, Calls, W
<1>2. PICK p \in {"contract", "prepare", "mint"}, m \in {"contract", "prepared", "grant"},
           next \in {"prepare", "mint", "bind"} :
        /\ Make(c, p, m, next)
        /\ MadeBefore[next] = MadeBefore[p] \cup {m}
  BY MadeBeforeIs DEF CreateContract, Prepare, Mint
<1>3. CASE tip = W(c) /\ Unlocked(c)
  <2>1. /\ Leave(c, m) /\ Goto(c, next) /\ call[c].pc = p
        /\ UNCHANGED <<world, artifact, evaluation, approval>>
    BY <1>2, <1>3 DEF Make, At
  <2>2. DecidedOn(W(c))
    <3>1. "APPROVED" # None
      BY EngineAssumption DEF Status
    <3> QED
      BY <1>1, <1>3, <3>1, AskedIsHandedOver DEF Unlocked, DecidedOn
  <2>3. next \in PCs /\ m \in Mark /\ {p, next} \subseteq DOMAIN MadeBefore
    BY MadeBeforeIs DEF PCs, ChainPC, Mark
  <2>4. call'[c] = [call[c] EXCEPT !.pc = next]
    BY <1>1, <2>1, <2>3, GotoTypes
  <2>5. /\ call'[c].pc = next /\ call'[c].state = call[c].state
        /\ call'[c].overtaken = call[c].overtaken
    BY <1>1, <2>4 DEF CallsTyped, Calls
  <2>6. MadeBefore[p] \subseteq marks[W(c)]
    BY <2>1, <2>3, InvTyped DEF CallIsSound, WayIsMade
  <2>7. MadeBefore[call'[c].pc] \subseteq marks[W(c)] \cup {m}
    BY <1>2, <2>5, <2>6
  <2> QED
    BY <1>1, <2>1, <2>2, <2>3, <2>5, <2>7, MarkStep
<1>4. CASE ~(tip = W(c) /\ Unlocked(c))
  BY <1>1, <1>2, <1>4, GivesUp DEF Make, owners, world
<1> QED
  BY <1>3, <1>4

LEMMA BindStep ==
  ASSUME WorkflowInv, NEW c \in Call, BindAuthority(c)
  PROVE  WorkflowInv'
<1>1. Typed /\ TypeStep(c) /\ CallsTyped
  BY InvTyped, MakeTypes DEF Typed, TypeOK, CallsTyped
<1>2. /\ Leave(c, "binding") /\ Goto(c, "authorize") /\ call[c].pc = "bind"
      /\ UNCHANGED <<world, artifact, evaluation, approval>>
      /\ "authorize" \in PCs /\ "binding" \in Mark /\ "authorize" \in DOMAIN MadeBefore
  BY MadeBeforeIs DEF BindAuthority, At, PCs, ChainPC, Mark
<1>3. call'[c] = [call[c] EXCEPT !.pc = "authorize"]
  BY <1>1, <1>2, GotoTypes
<1>4. /\ call'[c].pc = "authorize" /\ call'[c].state = call[c].state
      /\ call'[c].overtaken = call[c].overtaken
  BY <1>1, <1>3 DEF CallsTyped, Calls
<1>5. /\ DecidedOn(W(c)) /\ call[c].pc \in DOMAIN MadeBefore
      /\ MadeBefore["authorize"] \subseteq marks[W(c)] \cup {"binding"}
  BY <1>2, MadeIsDecided, MadeBeforeIs
<1> QED
  BY <1>1, <1>2, <1>4, <1>5, MarkStep

LEMMA AuthorizeStep ==
  ASSUME WorkflowInv, NEW c \in Call, Authorize(c)
  PROVE  WorkflowInv'
<1> DEFINE first == "authorized" \notin marks[W(c)]
<1>1. Typed /\ TypeStep(c) /\ CallsTyped
  BY InvTyped, AuthorizeTypes DEF Typed, TypeOK, CallsTyped
<1>2. /\ UNCHANGED <<world, artifact, evaluation, approval>> /\ call[c].pc = "authorize"
      /\ "token" \in Mark /\ "transition" \in DOMAIN MadeBefore /\ first \in BOOLEAN
  BY MadeBeforeIs DEF Authorize, At, Mark
<1>3. CASE End(c) /\ UNCHANGED marks
  BY <1>1, <1>2, <1>3, GivesUp DEF owners, world
<1>4. CASE /\ call' = [call EXCEPT ![c].pc = "transition", ![c].fresh = first]
           /\ Leave(c, "token")
  <2> HIDE DEF first
  <2>1. call' = [call EXCEPT ![c] = [call[c] EXCEPT !.pc = "transition", !.fresh = first]]
    BY <1>1, <1>4 DEF CallsTyped
  <2>2. /\ call'[c].pc = "transition" /\ call'[c].state = call[c].state
        /\ call'[c].overtaken = call[c].overtaken
    BY <1>1, <2>1 DEF CallsTyped, Calls
  <2>3. /\ DecidedOn(W(c)) /\ call[c].pc \in DOMAIN MadeBefore
        /\ {"contract", "prepared", "grant", "binding"} \subseteq marks[W(c)]
    BY <1>2, MadeIsDecided
  <2>4. MadeBefore[call'[c].pc] \subseteq marks[W(c)] \cup {"token"}
    BY <2>2, <2>3, MadeBeforeIs
  <2> QED
    BY <1>1, <1>2, <1>4, <2>2, <2>3, <2>4, MarkStep
<1> QED
  BY <1>3, <1>4 DEF Authorize

LEMMA TransitionStep ==
  ASSUME WorkflowInv, NEW c \in Call, Transition(c)
  PROVE  WorkflowInv'
<1>1. Typed /\ TypeStep(c) /\ CallsTyped
  BY InvTyped, AuthorizeTypes DEF Typed, TypeOK, CallsTyped
<1>2. /\ UNCHANGED <<world, artifact, evaluation, approval>> /\ call[c].pc = "transition"
      /\ "authorized" \in Mark /\ "record" \in DOMAIN MadeBefore /\ "record" \in PCs
  BY MadeBeforeIs DEF Transition, At, Mark, PCs, ChainPC
<1>3. CASE End(c) /\ UNCHANGED marks
  BY <1>1, <1>2, <1>3, GivesUp DEF owners, world
<1>4. CASE Leave(c, "authorized") /\ Goto(c, "record")
  <2>1. call'[c] = [call[c] EXCEPT !.pc = "record"]
    BY <1>1, <1>2, <1>4, GotoTypes
  <2>2. /\ call'[c].pc = "record" /\ call'[c].state = call[c].state
        /\ call'[c].overtaken = call[c].overtaken
    BY <1>1, <2>1 DEF CallsTyped, Calls
  <2>3. /\ DecidedOn(W(c)) /\ call[c].pc \in DOMAIN MadeBefore
        /\ {"contract", "prepared", "grant", "binding"} \subseteq marks[W(c)]
    BY <1>2, MadeIsDecided
  <2>4. MadeBefore[call'[c].pc] \subseteq marks[W(c)] \cup {"authorized"}
    BY <2>2, <2>3, MadeBeforeIs
  <2> QED
    BY <1>1, <1>2, <1>4, <2>2, <2>3, <2>4, MarkStep
<1> QED
  BY <1>3, <1>4 DEF Transition

LEMMA RecordStep ==
  ASSUME WorkflowInv, NEW c \in Call, RecordAuthorization(c)
  PROVE  WorkflowInv'
<1> DEFINE k == "EXECUTION_AUTHORIZATION"
<1>1. /\ Typed /\ TypeStep(c) /\ Typed' /\ Grows /\ CallsTyped /\ ArtifactTyped
      /\ RowsAreReached /\ W(c) \in State /\ Appended(c, k, "AUTHORIZED")
  BY InvTyped, RecordTypes
     DEF TypeStep, Typed, TypeOK, CallsTyped, ArtifactTyped, WorkflowInv, Calls, W
<1>2. /\ UNCHANGED <<tip, summary, evaluation, approval, marks>> /\ call[c].pc = "record"
      /\ End(c) /\ {k, "WORKFLOW"} \subseteq Kind /\ "AUTHORIZED" \in Content[k]
      /\ "AUTHORITY_EVALUATION" \in Content["WORKFLOW"]
  BY DEF RecordAuthorization, Append, world, At, Kind, Content
<1>3. \A w \in State, l \in Kind : w # W(c) \/ l # k => artifact'[w][l] = artifact[w][l]
  BY <1>1, <1>2, AppendedTypes
<1>4. artifact[W(c)]["WORKFLOW"] = "AUTHORITY_EVALUATION"
  BY <1>2, InvTyped, MadeBeforeIs DEF CallIsSound, WayIsMade, Rows
<1>5. ASSUME NEW w \in State PROVE StateIsSound(w)'
  <2>1. StateIsSound(w)
    BY DEF WorkflowInv
  <2>2. artifact'[w]["WORKFLOW"] = artifact[w]["WORKFLOW"]
    BY <1>2, <1>3
  <2>3. CASE w # W(c)
    <3>1. Same(w)
      BY <1>2, <1>3, <2>3 DEF Same
    <3> QED
      BY <1>1, <2>1, <3>1, StateKept
  <2>4. CASE w = W(c)
    <3>1. OneRun(w) => OneRun(w)'
      BY <1>1, OneRunKept
    <3>2. DecidedOn(w) => DecidedOn(w)'
      BY <1>1, DecidedOnKept
    <3> QED
      BY <1>2, <1>4, <2>1, <2>2, <2>4, <3>1, <3>2 DEF StateIsSound
  <2> QED
    BY <2>3, <2>4
<1>6. \A w \in State, l \in Kind : artifact'[w][l] = artifact[w][l] \/ w <= tip
  BY <1>1, <1>3 DEF RowsAreReached
<1> QED
  BY <1>1, <1>2, <1>5, <1>6, EndStep, StepKeeps

-----------------------------------------------------------------------------
(* The theorems.                                                           *)

LEMMA NextStep ==
  ASSUME WorkflowInv, [Next]_vars
  PROVE  WorkflowInv'
<1>1. CASE SetPolicy
  BY <1>1, SetPolicyStep
<1>2. CASE \E w \in State, d \in {"APPROVED", "REJECTED"} : Decide(w, d)
  BY <1>2, DecideStep
<1>3. ASSUME NEW c \in Call, \E evidence \in BOOLEAN : Submit(c, evidence)
      PROVE  WorkflowInv'
  BY <1>3, SubmitStep
<1>4. ASSUME NEW c \in Call, \E w \in State : Resume(c, w)
      PROVE  WorkflowInv'
  BY <1>4, ResumeStep
<1>5. ASSUME NEW c \in Call, Fail(c) \/ TooLate(c) \/ Crash(c)
      PROVE  WorkflowInv'
  BY <1>5, EndsStep
<1>6. ASSUME NEW c \in Call, Step(c)
      PROVE  WorkflowInv'
  BY <1>6, SupersedeStep, RereadStep, LookupStep, MakePlanStep, VerifyPlanStep, GuardStep,
     CloseStep, ProposeStep, EvaluateStep, CreateApprovalStep, ReadApprovalStep, MakeStep,
     BindStep, AuthorizeStep, TransitionStep, RecordStep
     DEF Step
<1>7. CASE UNCHANGED vars
  <2>1. TypeOK' /\ RowsAreReached'
    BY <1>7 DEF vars, world, owners, WorkflowInv, TypeOK, RowsAreReached, W
  <2>2. \A w \in State : StateIsSound(w)'
    BY <1>7 DEF vars, world, owners, WorkflowInv, StateIsSound, OneRun, DecidedOn
  <2>3. \A c \in Call : RunIsStored(c)'
    BY <1>7 DEF vars, world, owners, WorkflowInv, RunIsStored, At, Rows, W, ActionOf
  <2>4. \A c \in Call : WayIsMade(c)' /\ OvertakenIfBehind(c)'
    <3> SUFFICES ASSUME NEW c \in Call PROVE WayIsMade(c)' /\ OvertakenIfBehind(c)'
      OBVIOUS
    <3>1. WayIsMade(c) /\ OvertakenIfBehind(c)
      BY DEF WorkflowInv
    <3> QED
      BY <1>7, <3>1 DEF vars, world, owners, WayIsMade, OvertakenIfBehind, At, Rows, W
  <2> QED
    BY <2>1, <2>2, <2>3, <2>4 DEF WorkflowInv
<1> QED
  BY <1>1, <1>2, <1>3, <1>4, <1>5, <1>6, <1>7 DEF Next

\* The rows of every state are the ones of a run, the calls stand on what they
\* stored, and they know when they were overtaken (generic-workflow-engine.ts, run
\* and resumeWithApproval).
THEOREM WorkflowInvariant == Spec => []WorkflowInv
<1>1. Init => WorkflowInv
  BY InvInit
<1>2. WorkflowInv /\ [Next]_vars => WorkflowInv'
  BY NextStep
<1> QED
  BY <1>1, <1>2, PTL DEF Spec

\* All has its type, and what the authority is handed was verified, proposed and
\* judged by one run on the state that it is about, however submissions of one key
\* overlap (generic-workflow-engine.ts, the eligibility of a run).
THEOREM ChainsAreOneRun == Spec => []ChainIsOneRun
<1>1. WorkflowInv => ChainIsOneRun
  <2> SUFFICES ASSUME WorkflowInv PROVE ChainIsOneRun
    OBVIOUS
  <2>1. \A w \in State : StateIsSound(w)
    BY DEF WorkflowInv
  <2> QED
    BY <2>1 DEF ChainIsOneRun, WorkflowInv, StateIsSound, OneRun
<1> QED
  BY <1>1, WorkflowInvariant, PTL

\* No token is issued for a workflow that was not allowed or approved, or before
\* its contract, action, grant and provenance are there (the materialization of
\* authorizeEligible in generic-workflow-engine.ts).
THEOREM TokensAreDecidedOn == Spec => []TokensAreDecided
<1>1. WorkflowInv => TokensAreDecided
  <2> SUFFICES ASSUME WorkflowInv, NEW w \in State, "token" \in marks[w]
               PROVE  /\ DecidedOn(w)
                      /\ {"contract", "prepared", "grant", "binding"} \subseteq marks[w]
    BY DEF TokensAreDecided, DecidedOn
  <2> QED
    BY DEF WorkflowInv, StateIsSound
<1> QED
  BY <1>1, WorkflowInvariant, PTL

\* A call finds another tip than its state only if somebody else moved it (the
\* state that a run binds itself to after its own supersession,
\* generic-workflow-engine.ts).
THEOREM StaleOnlyByOthers == Spec => []StaleOnlyIfOvertaken
<1>1. WorkflowInv => StaleOnlyIfOvertaken
  BY DEF WorkflowInv, OvertakenIfBehind, StaleOnlyIfOvertaken
<1> QED
  BY <1>1, WorkflowInvariant, PTL

=============================================================================
