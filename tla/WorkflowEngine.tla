--------------------------- MODULE WorkflowEngine ---------------------------
(***************************************************************************)
(* The governed workflow of one submission key: run and resumeWithApproval *)
(* of services/agent-runtime (GenericWorkflowEngine), with the owner's     *)
(* artifact route, the evaluation, the approval and the materialization    *)
(* that they call at the intent, authority, outcome and gateway services.  *)
(* The id of a workflow is made of the key and the hash of the intent      *)
(* state, so there is one workflow per state, and every submission of the  *)
(* key on that state meets the artifacts of the others.                    *)
(*                                                                         *)
(* A step is a call to an owner with the code up to the next one.  The     *)
(* calls run on any instance and are lost at any of them.  The stores that *)
(* a resumption shares with others are ApprovalRequest's and               *)
(* TwoPhaseGateway's; here they are the marks that they leave.             *)
(***************************************************************************)
EXTENDS Naturals

CONSTANTS
  Call,      \* submissions and resumptions under way
  Plan,      \* plans that the model may come up with
  Stamp,     \* values of createdAt
  Signal,    \* what the authority may decide on its trust signals, from time to time
  None,
  MaxTip,    \* bound: successors of the first intent state
  MaxCrashes \* bound: calls that are lost half way

State == 0..MaxTip
Decision == {"ALLOW", "REQUIRE_APPROVAL", "BLOCK"}

\* The immutable rows of a workflow.  An ACTION row stands for its PROOF rows
\* too: they follow from it and from the intent state.
Kind == {"PLAN", "PLAN_VERIFICATION", "ACTION", "GUARDIAN", "WORKFLOW",
         "EXECUTION_AUTHORIZATION"}
Checked == [plan : Plan, ok : BOOLEAN]
Action == [plan : Plan, stamp : Stamp]
Judged == [action : Action, ok : BOOLEAN]
Content == [k \in Kind |->
  CASE k = "PLAN" -> Plan
    [] k = "PLAN_VERIFICATION" -> Checked
    [] k = "ACTION" -> Action
    [] k = "GUARDIAN" -> Judged
    [] k = "WORKFLOW" -> {"AUTHORITY_EVALUATION", "BLOCKED"}
    [] k = "EXECUTION_AUTHORIZATION" -> {"AUTHORIZED"}]

Status == {"PENDING", "APPROVED", "REJECTED", "SUPERSEDED"}

ASSUME EngineAssumption ==
  /\ MaxTip \in Nat /\ MaxCrashes \in Nat
  /\ Signal \subseteq Decision
  /\ None \notin Call \cup Stamp \cup Decision \cup Status
  /\ \A k \in Kind : None \notin Content[k]

\* What a materialization leaves at the owners, in the order it is made.
Mark == {"contract", "prepared", "grant", "binding", "token", "authorized"}

VARIABLES
  tip,        \* the current intent state
  summary,    \* of each state: no proof summary, one of its own, or one copied
              \* from another state
  artifact,   \* semanticArtifacts: the rows of each workflow
  evaluation, \* the decision in each workflow's evaluation record
  approval,   \* the approval request of each workflow
  marks,      \* what each workflow has been given on the way to a token
  call,       \* the calls under way, or how the last one of the slot ended
  crashes

owners == <<artifact, evaluation, approval, marks>>
world == <<tip, summary>>
vars == <<world, owners, call, crashes>>

RunPC == {"evidence", "reread", "lookup", "plan", "check", "act", "guard", "close"}
ChainPC == {"evaluate", "ask", "approved", "contract", "prepare", "mint", "bind",
            "authorize", "transition", "record"}
\* again: an error that says retryable, with the state to be named.
Answer == {"none", "again"}
Calls == [pc : {"idle"} \cup RunPC \cup ChainPC, state : State,
          resumes : BOOLEAN, plan : Plan \cup {None},
          stamp : Stamp \cup {None}, ok : BOOLEAN, judged : BOOLEAN,
          fresh : BOOLEAN, answer : Answer, overtaken : BOOLEAN]
Idle == [pc |-> "idle", state |-> 0, resumes |-> FALSE, plan |-> None,
         stamp |-> None, ok |-> FALSE, judged |-> FALSE, fresh |-> FALSE,
         answer |-> "none", overtaken |-> FALSE]

NoRows == [k \in Kind |-> None]

TypeOK ==
  /\ tip \in State
  /\ summary \in [State -> {"none", "own", "copied"}]
  /\ \A w \in State : \A k \in Kind : artifact[w][k] \in Content[k] \cup {None}
  /\ evaluation \in [State -> Decision \cup {None}]
  /\ approval \in [State -> Status \cup {None}]
  /\ marks \in [State -> SUBSET Mark]
  /\ call \in [Call -> Calls]
  /\ crashes \in 0..MaxCrashes

Init ==
  /\ tip = 0
  /\ \E first \in {"none", "own"} : summary = [s \in State |-> IF s = 0 THEN first ELSE "none"]
  /\ artifact = [w \in State |-> NoRows]
  /\ evaluation = [w \in State |-> None]
  /\ approval = [w \in State |-> None]
  /\ marks = [w \in State |-> {}]
  /\ call = [c \in Call |-> Idle]
  /\ crashes = 0

-----------------------------------------------------------------------------
Active(c) == call[c].pc # "idle"
At(c, p) == call[c].pc = p
W(c) == call[c].state
Rows(c) == artifact[W(c)]

\* Every other call under way is overtaken when the tip moves.
Overtake(calls, c) ==
  [d \in Call |-> IF d # c /\ Active(d) THEN [calls[d] EXCEPT !.overtaken = TRUE]
                                        ELSE calls[d]]
Goto(c, p) == call' = [call EXCEPT ![c].pc = p]
Ended(a, w) == [Idle EXCEPT !.answer = a, !.state = w]
End(c) == call' = [call EXCEPT ![c] = Idle]

Put(c, k, content) == artifact' = [artifact EXCEPT ![W(c)][k] = content]
\* Fault: the run goes on whatever row is there.
AppendAnyway(c, k, content, then) ==
  /\ IF Rows(c)[k] = None THEN Put(c, k, content) ELSE UNCHANGED artifact
  /\ then
\* The owner's route: an identical row is accepted again, another one under the
\* id is refused (409).
Append(c, k, content, then) ==
  /\ IF Rows(c)[k] = None
       THEN Put(c, k, content) /\ then
       ELSE /\ UNCHANGED artifact
            /\ IF Rows(c)[k] = content THEN then ELSE End(c)

-----------------------------------------------------------------------------
(* The world: policies, other requests' supersessions, human decisions.    *)

SetPolicy ==
  /\ tip < MaxTip
  /\ tip' = tip + 1
  /\ summary' = [summary EXCEPT ![tip + 1] = IF summary[tip] = "none" THEN "none" ELSE "copied"]
  /\ call' = Overtake(call, None)
  /\ UNCHANGED <<owners, crashes>>

\* The tip is compared before the decision is stored, and may move between:
\* ApprovalRequest has the two steps, this one asks nothing of the tip.
Decide(w, d) ==
  /\ approval[w] = "PENDING"
  /\ approval' = [approval EXCEPT ![w] = d]
  /\ UNCHANGED <<world, artifact, evaluation, marks, call, crashes>>

-----------------------------------------------------------------------------
(* run.                                                                    *)

\* The state that the caller names, or the tip.
Submit(c, evidence) ==
  /\ ~Active(c)
  /\ call' = [call EXCEPT ![c] = [Idle EXCEPT !.pc = IF evidence THEN "evidence" ELSE "lookup",
                                  !.state = tip]]
  /\ UNCHANGED <<world, owners, crashes>>

\* Readiness supersedes the state if it is still the tip, has no proof summary
\* and the evidence covers the obligations; otherwise the run goes on with the
\* state it has.
Supersede(c) ==
  /\ At(c, "evidence")
  /\ IF tip = W(c) /\ tip < MaxTip /\ summary[tip] = "none"
       THEN /\ tip' = tip + 1
            /\ summary' = [summary EXCEPT ![tip + 1] = "own"]
            /\ call' = [Overtake(call, c) EXCEPT ![c].pc = "reread"]
       ELSE Goto(c, "lookup") /\ UNCHANGED <<tip, summary>>
  /\ UNCHANGED <<owners, crashes>>

\* Fault: the run goes on with the state it had.
RereadKeeps(c, named) ==
  /\ At(c, "reread")
  /\ IF named THEN call' = [call EXCEPT ![c] = Ended("again", tip)] ELSE Goto(c, "lookup")
  /\ UNCHANGED <<world, owners, crashes>>
\* A caller that named the state is sent back; one that did not is bound to the
\* state that is the tip now.
Reread(c, named) ==
  /\ At(c, "reread")
  /\ IF tip # W(c) /\ named
       THEN call' = [call EXCEPT ![c] = Ended("again", tip)]
       ELSE call' = [call EXCEPT ![c].pc = "lookup", ![c].state = tip,
                                 ![c].overtaken = FALSE]
  /\ UNCHANGED <<world, owners, crashes>>

\* Any row of the workflow ends the run with the state found there.
Lookup(c) ==
  /\ At(c, "lookup")
  /\ IF Rows(c) = NoRows THEN Goto(c, "plan") ELSE End(c)
  /\ UNCHANGED <<world, owners, crashes>>

\* The model's answers are taken for what they may be.
MakePlan(c, p, t) ==
  /\ At(c, "plan")
  /\ Append(c, "PLAN", p, call' = [call EXCEPT ![c].pc = "check", ![c].plan = p, ![c].stamp = t])
  /\ UNCHANGED <<world, evaluation, approval, marks, crashes>>

VerifyPlan(c, ok) ==
  /\ At(c, "check")
  /\ Append(c, "PLAN_VERIFICATION", [plan |-> call[c].plan, ok |-> ok],
            call' = [call EXCEPT ![c].pc = "act", ![c].ok = ok])
  /\ UNCHANGED <<world, evaluation, approval, marks, crashes>>

ActionOf(c) == [plan |-> call[c].plan, stamp |-> call[c].stamp]
Propose(c) ==
  /\ At(c, "act")
  /\ Append(c, "ACTION", ActionOf(c), Goto(c, "guard"))
  /\ UNCHANGED <<world, evaluation, approval, marks, crashes>>

\* The guardian refuses an action on a state that is not the tip.
Guard(c, ok) ==
  /\ At(c, "guard")
  /\ IF tip = W(c)
       THEN Append(c, "GUARDIAN", [action |-> ActionOf(c), ok |-> ok],
                   call' = [call EXCEPT ![c].pc = "close", ![c].judged = ok])
       ELSE End(c) /\ UNCHANGED artifact
  /\ UNCHANGED <<world, evaluation, approval, marks, crashes>>

\* A model or an owner does not answer, or answers nonsense.
Fail(c) ==
  /\ call[c].pc \in {"plan", "check", "guard"}
  /\ End(c)
  /\ UNCHANGED <<world, owners, crashes>>

\* What the run itself found decides; fits stands for fidelity, capability and
\* readiness.
Eligible(c, fits) ==
  call[c].ok /\ call[c].judged /\ summary[W(c)] = "own" /\ fits
Close(c, fits) ==
  /\ At(c, "close")
  /\ IF Eligible(c, fits)
       THEN Append(c, "WORKFLOW", "AUTHORITY_EVALUATION",
                   call' = [call EXCEPT ![c] = [Idle EXCEPT !.pc = "evaluate", !.state = W(c),
                                                            !.overtaken = call[c].overtaken]])
       ELSE Append(c, "WORKFLOW", "BLOCKED", End(c))
  /\ UNCHANGED <<world, evaluation, approval, marks, crashes>>
TooLate(c) ==
  /\ At(c, "close")
  /\ Eligible(c, TRUE)
  /\ call' = [call EXCEPT ![c] = Ended("again", W(c))]
  /\ UNCHANGED <<world, owners, crashes>>

-----------------------------------------------------------------------------
(* resumeWithApproval, and what it shares with run.                        *)

\* Asked for a state that is not the tip it is an error, and leaves nothing.
Resume(c, w) ==
  /\ ~Active(c)
  /\ artifact[w]["WORKFLOW"] # None /\ tip = w
  /\ call' = [call EXCEPT ![c] = [Idle EXCEPT !.pc = "evaluate", !.state = w, !.resumes = TRUE]]
  /\ UNCHANGED <<world, owners, crashes>>

\* The authority resolves the chain, whose proofs must be complete, looks at
\* the tip, and records its decision once.
Decided(c, d) == IF Rows(c)["GUARDIAN"].ok THEN d ELSE "BLOCK"
Refused(c) == \/ summary[W(c)] # "own"
              \/ tip # W(c)
After(c, d) ==
  CASE d = "REQUIRE_APPROVAL" -> Goto(c, IF call[c].resumes THEN "approved" ELSE "ask")
    [] d = "ALLOW" /\ ~call[c].resumes -> Goto(c, "contract")
    [] OTHER -> End(c)
\* Fault: a recorded decision is replaced.
EvaluateOverwrites(c, d) ==
  /\ At(c, "evaluate")
  /\ IF Refused(c)
       THEN End(c) /\ UNCHANGED evaluation
       ELSE /\ evaluation' = [evaluation EXCEPT ![W(c)] = Decided(c, d)]
            /\ After(c, Decided(c, d))
  /\ UNCHANGED <<world, artifact, approval, marks, crashes>>
Evaluate(c, d) ==
  /\ At(c, "evaluate")
  /\ IF Refused(c)
       THEN End(c) /\ UNCHANGED evaluation
     ELSE IF evaluation[W(c)] \notin {None, Decided(c, d)}
       THEN End(c) /\ UNCHANGED evaluation
     ELSE /\ evaluation' = [evaluation EXCEPT ![W(c)] = Decided(c, d)]
          /\ After(c, Decided(c, d))
  /\ UNCHANGED <<world, artifact, approval, marks, crashes>>

\* A second run that asks supersedes the request that is pending, and its own
\* row is then refused; a decided one stays.
CreateApproval(c) ==
  /\ At(c, "ask")
  /\ approval' = [approval EXCEPT ![W(c)] = CASE @ = None -> "PENDING"
                                            [] @ = "PENDING" -> "SUPERSEDED"
                                            [] OTHER -> @]
  /\ End(c)
  /\ UNCHANGED <<world, artifact, evaluation, marks, crashes>>

ReadApproval(c) ==
  /\ At(c, "approved")
  /\ IF approval[W(c)] = "APPROVED" THEN Goto(c, "contract") ELSE End(c)
  /\ UNCHANGED <<world, owners, crashes>>

\* Each owner looks at the tip, and at the approval where one is needed, before
\* it makes its row; a row that is there is taken.
Leave(c, m) == marks' = [marks EXCEPT ![W(c)] = @ \cup {m}]
Unlocked(c) == evaluation[W(c)] = "ALLOW" \/ approval[W(c)] = "APPROVED"
Make(c, p, m, next) ==
  /\ At(c, p)
  /\ IF tip = W(c) /\ Unlocked(c) THEN Leave(c, m) /\ Goto(c, next)
                                  ELSE End(c) /\ UNCHANGED marks
  /\ UNCHANGED <<world, artifact, evaluation, approval, crashes>>
\* Fault: a contract that is there is a conflict.
CreateContractOnce(c) ==
  IF "contract" \notin marks[W(c)]
    THEN Make(c, "contract", "contract", "prepare")
    ELSE At(c, "contract") /\ End(c) /\ UNCHANGED <<world, owners, crashes>>
CreateContract(c) == Make(c, "contract", "contract", "prepare")
Prepare(c) == Make(c, "prepare", "prepared", "mint")
Mint(c) == Make(c, "mint", "grant", "bind")

BindAuthority(c) ==
  /\ At(c, "bind")
  /\ Leave(c, "binding")
  /\ Goto(c, "authorize")
  /\ UNCHANGED <<world, artifact, evaluation, approval, crashes>>

\* The gateway reads the prepared action; the first authorization needs the
\* grant's provenance.  The token is stored, and then the action moves from
\* PREPARED to AUTHORIZED unless another call has moved it.
Authorize(c) ==
  /\ At(c, "authorize")
  /\ LET first == "authorized" \notin marks[W(c)] IN
       IF first /\ "binding" \notin marks[W(c)]
         THEN End(c) /\ UNCHANGED marks
         ELSE /\ call' = [call EXCEPT ![c].pc = "transition", ![c].fresh = first]
              /\ Leave(c, "token")
  /\ UNCHANGED <<world, artifact, evaluation, approval, crashes>>
Transition(c) ==
  /\ At(c, "transition")
  /\ IF call[c].fresh /\ "authorized" \in marks[W(c)]
       THEN End(c) /\ UNCHANGED marks
       ELSE Leave(c, "authorized") /\ Goto(c, "record")
  /\ UNCHANGED <<world, artifact, evaluation, approval, crashes>>

RecordAuthorization(c) ==
  /\ At(c, "record")
  /\ Append(c, "EXECUTION_AUTHORIZATION", "AUTHORIZED", End(c))
  /\ UNCHANGED <<world, evaluation, approval, marks, crashes>>

Crash(c) ==
  /\ Active(c) /\ crashes < MaxCrashes
  /\ crashes' = crashes + 1
  /\ End(c)
  /\ UNCHANGED <<world, owners>>

-----------------------------------------------------------------------------
\* The steps that a running call takes if nothing breaks.
Step(c) ==
  \/ Supersede(c) \/ (\E named \in BOOLEAN : Reread(c, named)) \/ Lookup(c)
  \/ \E p \in Plan, t \in Stamp : MakePlan(c, p, t)
  \/ \E ok \in BOOLEAN : VerifyPlan(c, ok) \/ Guard(c, ok) \/ Close(c, ok)
  \/ Propose(c) \/ (\E d \in Signal : Evaluate(c, d)) \/ CreateApproval(c) \/ ReadApproval(c)
  \/ CreateContract(c) \/ Prepare(c) \/ Mint(c) \/ BindAuthority(c)
  \/ Authorize(c) \/ Transition(c) \/ RecordAuthorization(c)

Next ==
  \/ SetPolicy
  \/ \E w \in State, d \in {"APPROVED", "REJECTED"} : Decide(w, d)
  \/ \E c \in Call :
       \/ \E evidence \in BOOLEAN : Submit(c, evidence)
       \/ \E w \in State : Resume(c, w)
       \/ Step(c) \/ Fail(c) \/ TooLate(c) \/ Crash(c)

\* A request that runs goes on until it is answered, unless its instance is lost.
Fairness == \A c \in Call : WF_vars(Step(c))
Spec == Init /\ [][Next]_vars /\ Fairness

-----------------------------------------------------------------------------
(* What must hold however submissions of one key overlap.                  *)

\* All has its type, and a workflow that is handed to the authority, or authorized,
\* rests on rows of one run: the verified plan is the one that is stored, the action
\* and the verdict are about it, nothing was refused, and the proofs are those of its
\* state (generic-workflow-engine.ts, the eligibility of a run is computed from what
\* it did itself, not from what is stored).
ChainIsOneRun ==
  TypeOK /\ \A w \in State :
    (\/ artifact[w]["WORKFLOW"] = "AUTHORITY_EVALUATION"
     \/ artifact[w]["EXECUTION_AUTHORIZATION"] # None)
    => LET rows == artifact[w] IN
       /\ rows["WORKFLOW"] = "AUTHORITY_EVALUATION"
       /\ rows["PLAN_VERIFICATION"] = [plan |-> rows["PLAN"], ok |-> TRUE]
       /\ rows["ACTION"].plan = rows["PLAN"]
       /\ rows["GUARDIAN"] = [action |-> rows["ACTION"], ok |-> TRUE]
       /\ summary[w] = "own"

\* A token was decided on: the workflow was allowed, or its approval given, and
\* contract, action, grant and provenance were made before it.
TokensAreDecided ==
  \A w \in State : "token" \in marks[w] =>
    /\ \/ evaluation[w] = "ALLOW"
       \/ evaluation[w] = "REQUIRE_APPROVAL" /\ approval[w] = "APPROVED"
    /\ {"contract", "prepared", "grant", "binding"} \subseteq marks[w]

\* A call that has settled on a state meets another tip only if somebody else
\* moved it while the call ran: the supersession that a run brings about itself
\* never turns the run away ("split identity", generic-workflow-engine.ts:229).
StaleOnlyIfOvertaken ==
  \A c \in Call : call[c].pc \notin {"idle", "evidence", "reread"} /\ W(c) # tip
    => call[c].overtaken

-----------------------------------------------------------------------------
(* The inductive invariant of the first three.                             *)

\* Rows are functions, and belong to states that were reached.
RowsAreReached ==
  /\ artifact = [w \in State |-> [k \in Kind |-> artifact[w][k]]]
  /\ \A w \in State, k \in Kind : artifact[w][k] # None => w <= tip
  /\ \A c \in Call : W(c) <= tip

\* The rows of w were left by one run, and its proofs are those of w.
OneRun(w) ==
  LET rows == artifact[w] IN
    /\ rows["PLAN"] \in Plan
    /\ rows["PLAN_VERIFICATION"] = [plan |-> rows["PLAN"], ok |-> TRUE]
    /\ rows["ACTION"] \in Action
    /\ rows["ACTION"].plan = rows["PLAN"]
    /\ rows["GUARDIAN"] = [action |-> rows["ACTION"], ok |-> TRUE]
    /\ summary[w] = "own"
DecidedOn(w) ==
  \/ evaluation[w] = "ALLOW"
  \/ evaluation[w] = "REQUIRE_APPROVAL" /\ approval[w] = "APPROVED"

StateIsSound(w) ==
  /\ artifact[w]["WORKFLOW"] = "AUTHORITY_EVALUATION" => OneRun(w)
  /\ artifact[w]["EXECUTION_AUTHORIZATION"] # None
       => artifact[w]["WORKFLOW"] = "AUTHORITY_EVALUATION"
  /\ approval[w] # None => /\ artifact[w]["WORKFLOW"] = "AUTHORITY_EVALUATION"
                           /\ evaluation[w] = "REQUIRE_APPROVAL"
  /\ marks[w] # {} => DecidedOn(w)
  /\ "token" \in marks[w] => {"contract", "prepared", "grant", "binding"} \subseteq marks[w]

\* What a run has stored so far is what it goes on from.
RunIsStored(c) ==
  /\ call[c].pc \in {"check", "act", "guard", "close"} =>
       call[c].plan \in Plan /\ call[c].stamp \in Stamp /\ Rows(c)["PLAN"] = call[c].plan
  /\ call[c].pc \in {"act", "guard", "close"} =>
       Rows(c)["PLAN_VERIFICATION"] = [plan |-> call[c].plan, ok |-> call[c].ok]
  /\ call[c].pc \in {"guard", "close"} => Rows(c)["ACTION"] = ActionOf(c)
  /\ At(c, "close") => Rows(c)["GUARDIAN"] = [action |-> ActionOf(c), ok |-> call[c].judged]

\* A call on its way to a token has a workflow that was handed over, and has
\* made what comes before.
MadeBefore == [p \in {"contract", "prepare", "mint", "bind", "authorize", "transition", "record"} |->
  CASE p = "contract" -> {}
    [] p = "prepare"  -> {"contract"}
    [] p = "mint"     -> {"contract", "prepared"}
    [] p = "bind"     -> {"contract", "prepared", "grant"}
    [] OTHER          -> {"contract", "prepared", "grant", "binding"}]
WayIsMade(c) ==
  /\ call[c].pc \in {"evaluate", "ask"} /\ ~call[c].resumes
       => Rows(c)["WORKFLOW"] = "AUTHORITY_EVALUATION"
  /\ At(c, "ask") => ~call[c].resumes
  /\ call[c].pc \in {"ask", "approved"} => evaluation[W(c)] = "REQUIRE_APPROVAL"
  /\ call[c].pc \in DOMAIN MadeBefore =>
       /\ Rows(c)["WORKFLOW"] = "AUTHORITY_EVALUATION"
       /\ MadeBefore[call[c].pc] \subseteq marks[W(c)]

OvertakenIfBehind(c) == call[c].pc \notin {"idle", "reread"} /\ W(c) # tip => call[c].overtaken

WorkflowInv ==
  /\ TypeOK
  /\ RowsAreReached
  /\ \A w \in State : StateIsSound(w)
  /\ \A c \in Call : RunIsStored(c) /\ WayIsMade(c) /\ OvertakenIfBehind(c)

-----------------------------------------------------------------------------
(* What must happen.                                                       *)

\* The workflow of the state that stays current is authorized once it is
\* approved, if resumptions keep coming on which the authority decides as it did,
\* whatever the earlier ones left behind.
ResumeCompletes ==
  <>[](approval[tip] = "APPROVED") /\ []<>(\E c \in Call : At(c, "approved") /\ W(c) = tip)
    => <>[](artifact[tip]["EXECUTION_AUTHORIZATION"] # None)

-----------------------------------------------------------------------------
(* What the code says, and does not do.                                    *)

\* A run that is told to try again is not stopped by the rows it left behind: no
\* rows are there, or somebody is still at work on them, or they are complete.
RetryFindsWay ==
  \A c \in Call : ~Active(c) /\ call[c].answer = "again" =>
    LET w == call[c].state IN
      \/ artifact[w] = NoRows
      \/ artifact[w]["WORKFLOW"] # None
      \/ \E d \in Call : Active(d) /\ W(d) = w
=============================================================================
