--------------------------- MODULE ResolutionCase ---------------------------
(***************************************************************************)
(* A resolution case and its remedies                                      *)
(*   (services/resolution-service/src/service.ts, remedy-routes.ts,        *)
(*    remedy-pipeline.ts, remedy-execution-port.ts).                       *)
(*                                                                         *)
(* Every instance of the service keeps the case, its plan, mandates and    *)
(* claims in maps of its own, reads the durable row only when it has no    *)
(* case, and writes the row whole: persistCaseState starts a write and     *)
(* goes on, flushCases waits for the writes nobody else waits for.  A call *)
(* runs from one await to the next in one step.  One trigger, hence one    *)
(* case.                                                                   *)
(*                                                                         *)
(* A remedy has one mandate id, and so one mandate row, one claim and one  *)
(* set of artifacts at the intent service; every issue puts a new ACTIVE   *)
(* mandate over that row, whatever is there.  Issues are numbered: a       *)
(* mandate's createdAt and expiry, on which the artifacts' hashes depend.  *)
(*                                                                         *)
(* The gateway is the one of TwoPhaseGateway seen from outside: it pays    *)
(* once for an idempotency key, which names the case and the remedy, and   *)
(* answers a repetition with a replay, which the port counts as a success; *)
(* it may also fail, or not know.                                          *)
(***************************************************************************)
EXTENDS Integers

CONSTANTS
  Instance,    \* running instances of the service
  Call,        \* requests under way at a time
  Remedy,      \* the remedies of the plan that pay
  None,        \* no remedy, no instance, nobody
  MaxAttempts, \* DEFAULT_RESOLUTION_BOUNDS.maxRemedyAttempts
  MaxRequests, \* bound on requests and deliveries
  MaxRestarts  \* bound on instances recycled

ASSUME ResolutionAssumption ==
  /\ None \notin Remedy \cup Instance \cup Call
  /\ MaxAttempts \in Nat
  /\ MaxRequests \in Nat
  /\ MaxRestarts \in Nat

VARIABLES
  trigger,    \* resolutionTriggers: the identity is recorded
  row,        \* resolutionCases: the case with its plannedRemedies
  mandates,   \* remediationMandates, per remedy
  claims,     \* mandateClaims, per remedy
  artifacts,  \* the intent service's ACTION and PROOF, per remedy
  issued,     \* how often a mandate was issued for a remedy
  local,      \* per instance: case, plan, counters, byTrigger
  known,      \* per instance: its copies of the mandates
  held,       \* per instance: its copies of the claims
  writes,     \* writes of the row under way
  call,       \* the requests
  asked,      \* what the gateway was asked to pay
  paid,       \* remedies the gateway has paid for
  requests,
  restarts

durable == <<trigger, row, mandates, claims, artifacts, issued>>
memory  == <<local, known, held>>
gateway == <<asked, paid>>
bounds  == <<requests, restarts>>
vars == <<durable, memory, writes, call, gateway, bounds>>

-----------------------------------------------------------------------------
CaseState == {"OPEN", "ANALYZING", "REMEDY_PROPOSED", "AWAITING_AUTHORITY",
              "REMEDIATING", "VERIFYING_REMEDY", "RESOLVED", "ESCALATED"}

\* The planned remedies: those bound to their mandate.
Plan == [made : BOOLEAN, bound : SUBSET Remedy]
Unplanned == [made |-> FALSE, bound |-> {}]

Row == [state : CaseState \cup {"NONE"}, plan : Plan]
NoRow == [state |-> "NONE", plan |-> Unplanned]

\* A mandate: its status, and which issue of its id it is.
NoMandate == [status |-> "NONE", issue |-> 0]
Mandate == {NoMandate} \cup [status : {"ACTIVE", "CONSUMED"}, issue : Nat \ {0}]
ClaimStatus == {"NONE", "CLAIMED", "RELEASED"}

\* The ACTION repeats the mandate's createdAt, the PROOF hashes its status.
NoArtifacts == [action |-> 0, proof |-> "NONE"]
Artifacts == [action : Nat, proof : {"NONE", "ACTIVE", "CONSUMED"}]

\* carried: the plan inside a case that the trigger path took as it was.
Local == [case : CaseState \cup {"NONE"}, plan : Plan, carried : Plan,
          counted : BOOLEAN, attempts : Nat, knows : BOOLEAN]
NoLocal == [case |-> "NONE", plan |-> Unplanned, carried |-> Unplanned,
            counted |-> FALSE, attempts |-> 0, knows |-> FALSE]

Kind == {"plan", "issue", "execute", "verify"}
OpenPC == {"existing", "insert", "raced", "take", "put", "opened"}
PortPC == {"action", "proof", "evaluate", "binding", "commit"}
PaymentPC == {"claim", "stub", "paid", "consume", "consumed", "release"} \cup PortPC
PC == {"idle", "hydrate", "planning", "issued", "fetched", "start", "flush", "flushing"}
        \cup Kind \cup OpenPC \cup PaymentPC

Calls == [pc : PC, at : Instance \cup {None}, kind : Kind, remedy : Remedy \cup {None},
          seen : Row, copy : Mandate, then : {"idle", "start"}]

\* A write of the row: where it was started, by whom it is awaited.
Write == [at : Instance, row : Row, by : Call \cup {None}]

Asked == [remedy : Remedy, issue : Nat, status : {"NONE", "ACTIVE", "CONSUMED"}]

TypeOK ==
  /\ trigger \in BOOLEAN
  /\ row \in Row
  /\ mandates \in [Remedy -> Mandate]
  /\ claims \in [Remedy -> ClaimStatus]
  /\ artifacts \in [Remedy -> Artifacts]
  /\ issued \in [Remedy -> Nat]
  /\ local \in [Instance -> Local]
  /\ known \in [Instance -> [Remedy -> Mandate]]
  /\ held \in [Instance -> [Remedy -> ClaimStatus]]
  /\ writes \subseteq Write
  /\ call \in [Call -> Calls]
  /\ asked \subseteq Asked
  /\ paid \subseteq Remedy
  /\ requests \in Nat
  /\ restarts \in Nat

Idle == [pc |-> "idle", at |-> None, kind |-> "plan", remedy |-> None,
         seen |-> NoRow, copy |-> NoMandate, then |-> "idle"]

\* Instances that have just been started, with n requests behind them.
Started(n) ==
  /\ local = [i \in Instance |-> NoLocal]
  /\ known = [i \in Instance |-> [r \in Remedy |-> NoMandate]]
  /\ held = [i \in Instance |-> [r \in Remedy |-> "NONE"]]
  /\ writes = {}
  /\ call = [c \in Call |-> Idle]
  /\ requests = n
  /\ restarts = 0

Init ==
  /\ trigger = FALSE
  /\ row = NoRow
  /\ mandates = [r \in Remedy |-> NoMandate]
  /\ claims = [r \in Remedy |-> "NONE"]
  /\ artifacts = [r \in Remedy |-> NoArtifacts]
  /\ issued = [r \in Remedy |-> 0]
  /\ asked = {}
  /\ paid = {}
  /\ Started(0)

-----------------------------------------------------------------------------
(* Helpers.                                                                *)

\* packages/resolution-core/src/transitions.ts.  No route asks for
\* GATHERING_EVIDENCE or CLOSED.
Allowed == [s \in CaseState |->
  CASE s = "OPEN"               -> {"ANALYZING", "ESCALATED"}
    [] s = "ANALYZING"          -> {"REMEDY_PROPOSED", "AWAITING_AUTHORITY",
                                    "ESCALATED"}
    [] s = "REMEDY_PROPOSED"    -> {"AWAITING_AUTHORITY", "REMEDIATING",
                                    "ESCALATED"}
    [] s = "AWAITING_AUTHORITY" -> {"REMEDIATING", "ESCALATED"}
    [] s = "REMEDIATING"        -> {"VERIFYING_REMEDY", "ESCALATED"}
    [] s = "VERIFYING_REMEDY"   -> {"RESOLVED", "REMEDY_PROPOSED", "ESCALATED"}
    [] OTHER                    -> {}]
MayMove(s, t) == s \in CaseState /\ (t = s \/ t \in Allowed[s])
Terminal == {"RESOLVED", "ESCALATED"}

Arriving == requests < MaxRequests /\ requests' = requests + 1 /\ UNCHANGED restarts
Goto(c, pc) == call' = [call EXCEPT ![c].pc = pc]
End(c) == call' = [call EXCEPT ![c] = Idle]
Here(c) == local[call[c].at]
Knows(c) == known[call[c].at][call[c].remedy]

\* persistCaseState: the case with the plan of this instance or, when it has
\* none, with the one inside the case.
RowOf(s, p) == [state |-> s, plan |-> p]
PlanOf(l) == IF l.plan.made THEN l.plan ELSE l.carried

\* Writes of the rows, not awaited by anybody yet.
Begun(c, rows) == {[at |-> call[c].at, row |-> w, by |-> None] : w \in rows}
Persist(c, rows) == writes' = writes \cup Begun(c, rows)

\* flushCases takes the writes of the instance that no other call waits for.
Taken(c, ws) == {IF w.at = call[c].at /\ w.by = None THEN [w EXCEPT !.by = c]
                 ELSE w : w \in ws}
PersistAndFlush(c, rows) == writes' = Taken(c, writes \cup Begun(c, rows))

\* transition of the case this instance holds, and its persistCaseState.
MoveCase(c, t) ==
  /\ local' = [local EXCEPT ![call[c].at].case = t]
  /\ Persist(c, {RowOf(t, PlanOf(Here(c)))})

-----------------------------------------------------------------------------
(* openCaseFromTrigger: the outcome events of the trigger, delivered any   *)
(* number of times to any instance.  An instance that knows the case of    *)
(* the trigger changes nothing.                                            *)

Deliver(c, i) ==
  /\ call[c].pc = "idle"
  /\ Arriving
  /\ ~(local[i].knows /\ local[i].case # "NONE")
  /\ LET seen == local[i].knows \/ trigger IN
     /\ call' = [call EXCEPT ![c] =
          [Idle EXCEPT !.pc = IF seen THEN "existing" ELSE "insert", !.at = i]]
     /\ local' = [local EXCEPT ![i].knows = seen]
  /\ UNCHANGED <<durable, known, held, writes, gateway>>

\* The recorded case is looked for in memory, then in the store.
OpenExisting(c) ==
  /\ call[c].pc = "existing"
  /\ \/ Here(c).case # "NONE" /\ End(c)
     \/ /\ Here(c).case = "NONE" /\ row # NoRow
        /\ call' = [call EXCEPT ![c].pc = "take", ![c].seen = row]
     \/ Here(c).case = "NONE" /\ row = NoRow /\ Goto(c, "insert")
  /\ UNCHANGED <<durable, memory, writes, gateway, bounds>>

InsertTrigger(c) ==
  /\ call[c].pc = "insert"
  /\ trigger' = TRUE
  /\ Goto(c, IF trigger THEN "raced" ELSE "put")
  /\ UNCHANGED <<row, mandates, claims, artifacts, issued, memory, writes, gateway, bounds>>

\* A terminal case stays where it is.
OpenRaced(c) ==
  /\ call[c].pc = "raced"
  /\ \/ /\ Here(c).case # "NONE"
        /\ local' = [local EXCEPT ![call[c].at].knows = @ \/ Here(c).case \notin Terminal]
        /\ End(c)
     \/ /\ Here(c).case = "NONE" /\ row # NoRow
        /\ \/ row.state \in Terminal /\ End(c)
           \/ /\ row.state \notin Terminal
              /\ call' = [call EXCEPT ![c].pc = "take", ![c].seen = row]
        /\ UNCHANGED local
     \/ /\ Here(c).case = "NONE" /\ row = NoRow
        /\ Goto(c, "put")
        /\ UNCHANGED local
  /\ UNCHANGED <<durable, known, held, writes, gateway, bounds>>

\* The row that was read becomes the case, its planned remedies inside.
TakeCase(c) ==
  /\ call[c].pc = "take"
  /\ local' = [local EXCEPT ![call[c].at] =
       [Here(c) EXCEPT !.case = call[c].seen.state, !.carried = call[c].seen.plan,
                       !.knows = TRUE]]
  /\ End(c)
  /\ UNCHANGED <<durable, known, held, writes, gateway, bounds>>

PutCase(c) ==
  /\ call[c].pc = "put"
  /\ row' = RowOf("OPEN", Unplanned)
  /\ Goto(c, "opened")
  /\ UNCHANGED <<trigger, mandates, claims, artifacts, issued, memory, writes,
                 gateway, bounds>>

Opened(c) ==
  /\ call[c].pc = "opened"
  /\ local' = [local EXCEPT ![call[c].at] =
       [case |-> "OPEN", plan |-> Here(c).plan, carried |-> Unplanned,
        counted |-> TRUE, attempts |-> 0, knows |-> TRUE]]
  /\ End(c)
  /\ UNCHANGED <<durable, known, held, writes, gateway, bounds>>

-----------------------------------------------------------------------------
(* The routes.  Each begins with hydrateCase.  Those that would find their *)
(* answer in the memory of the instance, or an error, change nothing.      *)

\* Verification needs no plan, and planning only an instance without one.
Answerable(l, k) ==
  CASE k = "plan"   -> ~l.plan.made
    [] k = "verify" -> TRUE
    [] OTHER        -> l.plan.made

Request(c, i, k, r) ==
  /\ call[c].pc = "idle"
  /\ Arriving
  /\ r \in Remedy <=> k \in {"issue", "execute"}
  /\ LET got == [Idle EXCEPT !.at = i, !.remedy = r] IN
     \/ /\ local[i].case # "NONE" /\ Answerable(local[i], k)
        /\ call' = [call EXCEPT ![c] = [got EXCEPT !.pc = k]]
     \/ /\ local[i].case = "NONE" /\ row # NoRow
        /\ call' = [call EXCEPT ![c] =
             [got EXCEPT !.pc = "hydrate", !.kind = k, !.seen = row]]
  /\ UNCHANGED <<durable, memory, writes, gateway>>

\* What hydrateCase makes of the memory l when it has read the row w: it
\* replaces what the instance has meanwhile.
Hydrated(l, w) ==
  [l EXCEPT !.case = w.state, !.carried = Unplanned, !.counted = TRUE,
            !.plan = IF w.plan.made THEN w.plan ELSE l.plan]

HydrateCase(c) ==
  /\ call[c].pc = "hydrate"
  /\ local' = [local EXCEPT ![call[c].at] = Hydrated(Here(c), call[c].seen)]
  /\ call' = [call EXCEPT ![c] = [Idle EXCEPT !.pc = call[c].kind,
         !.at = call[c].at, !.remedy = call[c].remedy]]
  /\ UNCHANGED <<durable, known, held, writes, gateway, bounds>>

\* GET remedies: plans them when the instance has none.
ListRemedies(c) ==
  /\ call[c].pc = "plan"
  /\ \/ ~Here(c).plan.made /\ Goto(c, "planning")
     \/ Here(c).plan.made /\ End(c)
  /\ UNCHANGED <<durable, memory, writes, gateway, bounds>>

\* planRemedies once it has the contract, ensureState(REMEDY_PROPOSED).
PlanRemedies(c) ==
  /\ call[c].pc = "planning"
  /\ LET s == Here(c).case
         path == IF s = "OPEN" THEN {"ANALYZING", "REMEDY_PROPOSED"}
                 ELSE {"REMEDY_PROPOSED"}
         legal == s = "OPEN" \/ MayMove(s, "REMEDY_PROPOSED")
         fresh == [made |-> TRUE, bound |-> {}]
     IN
     /\ local' = [local EXCEPT
          ![call[c].at].plan = fresh,
          ![call[c].at].case = IF legal THEN "REMEDY_PROPOSED" ELSE s]
     /\ \/ /\ legal
           /\ PersistAndFlush(c, {RowOf(t, fresh) : t \in path})
           /\ Goto(c, "flushing")
        \/ ~legal /\ End(c) /\ UNCHANGED writes
  /\ UNCHANGED <<durable, known, held, gateway, bounds>>

\* POST mandates: the mandate is durable before anything refers to it.  It
\* takes the place of any earlier issue, a consumed one too.
IssueMandate(c) ==
  /\ call[c].pc = "issue"
  /\ LET r == call[c].remedy
         new == [status |-> "ACTIVE", issue |-> issued[r] + 1]
     IN
     \/ /\ Here(c).plan.made
        /\ issued' = [issued EXCEPT ![r] = @ + 1]
        /\ mandates' = [mandates EXCEPT ![r] = new]
        /\ call' = [call EXCEPT ![c].pc = "issued", ![c].copy = new]
     \/ ~Here(c).plan.made /\ End(c) /\ UNCHANGED <<issued, mandates>>
  /\ UNCHANGED <<trigger, row, claims, artifacts, memory, writes, gateway, bounds>>

MandateIssued(c) ==
  /\ call[c].pc = "issued"
  /\ LET i == call[c].at
         r == call[c].remedy
         s == Here(c).case
         t == IF MayMove(s, "AWAITING_AUTHORITY") THEN "AWAITING_AUTHORITY" ELSE s
         p == [made |-> TRUE, bound |-> Here(c).plan.bound \cup {r}]
     IN
     /\ known' = [known EXCEPT ![i][r] = call[c].copy]
     /\ local' = [local EXCEPT ![i].plan = p, ![i].case = t]
     /\ Persist(c, {RowOf(s, p), RowOf(t, p)})
  /\ End(c)
  /\ UNCHANGED <<durable, held, gateway, bounds>>

-----------------------------------------------------------------------------
(* POST execute and executeRemedyPipeline.                                 *)

\* bindRemedyToMandate and flushCases, with the mandate the route has read.
Bind(c, mandate) ==
  LET r == call[c].remedy
      p == [made |-> TRUE, bound |-> Here(c).plan.bound \cup {r}]
  IN
  /\ local' = [local EXCEPT ![call[c].at].plan = p]
  /\ PersistAndFlush(c, IF r \in Here(c).plan.bound THEN {}
                        ELSE {RowOf(Here(c).case, p)})
  /\ call' = [call EXCEPT ![c].pc = "flushing", ![c].then = "start",
                          ![c].copy = mandate]

\* getRemedy, and getMandate from the instance's copies or from the store.
GetMandate(c) ==
  /\ call[c].pc = "execute"
  /\ LET stored == mandates[call[c].remedy] IN
     \/ Here(c).plan.made /\ Knows(c) # NoMandate /\ Bind(c, Knows(c))
     \/ /\ Here(c).plan.made /\ Knows(c) = NoMandate /\ stored # NoMandate
        /\ call' = [call EXCEPT ![c].pc = "fetched", ![c].copy = stored]
        /\ UNCHANGED <<local, writes>>
     \/ /\ ~Here(c).plan.made \/ (Knows(c) = NoMandate /\ stored = NoMandate)
        /\ End(c)
        /\ UNCHANGED <<local, writes>>
  /\ UNCHANGED <<durable, known, held, gateway, bounds>>

\* The stored mandate has arrived and is kept, in the place of what the
\* instance may have meanwhile; the plan, too, is read only now.
MandateFetched(c) ==
  /\ call[c].pc = "fetched"
  /\ known' = [known EXCEPT ![call[c].at][call[c].remedy] = call[c].copy]
  /\ Bind(c, call[c].copy)
  /\ UNCHANGED <<durable, held, gateway, bounds>>

\* The flushCases at the end of a route...
Flush(c) ==
  /\ call[c].pc = "flush"
  /\ writes' = Taken(c, writes)
  /\ Goto(c, "flushing")
  /\ UNCHANGED <<durable, memory, gateway, bounds>>

\* ...and of every other: the call goes on when its writes have landed.
Flushed(c) ==
  /\ call[c].pc = "flushing"
  /\ \A w \in writes : w.by # c
  /\ \/ call[c].then = "start" /\ call' = [call EXCEPT ![c].pc = "start",
                                                       ![c].then = "idle"]
     \/ call[c].then = "idle" /\ End(c)
  /\ UNCHANGED <<durable, memory, writes, gateway, bounds>>

\* assertRemediationMandateValid on the mandate the route read and
\* requireRemedyAuthority on the instance's copy; then the claim, if the
\* instance holds it already.
MayExecute(c) ==
  /\ call[c].copy.status = "ACTIVE"
  /\ Knows(c).status = "ACTIVE"
  /\ MayMove(Here(c).case, "REMEDIATING")

StartExecution(c) ==
  /\ call[c].pc = "start"
  /\ MayExecute(c)
  /\ MoveCase(c, "REMEDIATING")
  /\ Goto(c, IF held[call[c].at][call[c].remedy] = "CLAIMED" THEN "stub" ELSE "claim")
  /\ UNCHANGED <<durable, known, held, gateway, bounds>>

\* Also when the mandate has expired or the intent state is not found.
RefuseExecution(c) ==
  /\ call[c].pc = "start"
  /\ Goto(c, "flush") \/ End(c)
  /\ UNCHANGED <<durable, memory, writes, gateway, bounds>>

\* Fault: the claim is kept in memory only.
ClaimInMemory(c) ==
  /\ call[c].pc = "claim"
  /\ held' = [held EXCEPT ![call[c].at][call[c].remedy] = "CLAIMED"]
  /\ Goto(c, "stub")
  /\ UNCHANGED <<durable, local, known, writes, gateway, bounds>>

\* A claim found is the claim of this very remedy: its key names the case
\* and the remedy, and so does the mandate's id.
ClaimMandate(c) ==
  /\ call[c].pc = "claim"
  /\ LET r == call[c].remedy IN
     /\ claims' = [claims EXCEPT ![r] = IF @ = "NONE" THEN "CLAIMED" ELSE @]
     /\ held' = [held EXCEPT ![call[c].at][r] = "CLAIMED"]
  /\ Goto(c, "stub")
  /\ UNCHANGED <<trigger, row, mandates, artifacts, issued, local, known, writes,
                 gateway, bounds>>

\* Without its contract stub the execution ends and keeps the claim.  With
\* it the port begins: it reads the instance's copy of the mandate again.
CreateStub(c) ==
  /\ call[c].pc = "stub"
  /\ \/ Goto(c, "flush")
     \/ call' = [call EXCEPT ![c].pc = "action", ![c].copy = Knows(c)]
  /\ UNCHANGED <<durable, memory, writes, gateway, bounds>>

-----------------------------------------------------------------------------
(* The port: the artifacts, the authority's evaluation, the gateway.       *)

\* Fault: the owner takes the last artifact of an id.
PutActionAgain(c) ==
  /\ call[c].pc = "action"
  /\ artifacts' = [artifacts EXCEPT ![call[c].remedy].action = call[c].copy.issue]
  /\ Goto(c, "proof")
  /\ UNCHANGED <<trigger, row, mandates, claims, issued, memory, writes, gateway, bounds>>

\* The owner keeps the first artifact of an id and accepts only its equal.
PutAction(c) ==
  /\ call[c].pc = "action"
  /\ LET r == call[c].remedy
         n == call[c].copy.issue
     IN \/ /\ artifacts[r].action \in {0, n}
           /\ artifacts' = [artifacts EXCEPT ![r].action = n]
           /\ Goto(c, "proof")
        \/ artifacts[r].action \notin {0, n} /\ Goto(c, "release") /\ UNCHANGED artifacts
  /\ UNCHANGED <<trigger, row, mandates, claims, issued, memory, writes, gateway, bounds>>

PutProof(c) ==
  /\ call[c].pc = "proof"
  /\ LET r == call[c].remedy
         s == call[c].copy.status
     IN \/ /\ artifacts[r].proof \in {"NONE", s}
           /\ artifacts' = [artifacts EXCEPT ![r].proof = s]
           /\ Goto(c, "evaluate")
        \/ artifacts[r].proof \notin {"NONE", s} /\ Goto(c, "release") /\ UNCHANGED artifacts
  /\ UNCHANGED <<trigger, row, mandates, claims, issued, memory, writes, gateway, bounds>>

\* evaluateRemedyProcurement asks any instance for the mandate...
Evaluate(c) ==
  /\ call[c].pc = "evaluate"
  /\ LET r == call[c].remedy IN
     \E j \in Instance :
       LET copy == IF known[j][r] # NoMandate THEN known[j][r] ELSE mandates[r] IN
       /\ copy.status = "ACTIVE"
       /\ known' = [known EXCEPT ![j][r] = copy]
  /\ Goto(c, "binding")
  /\ UNCHANGED <<durable, local, held, writes, gateway, bounds>>

\* ...and any for the case and the remedy, which must be bound to it.
EvaluateBinding(c) ==
  /\ call[c].pc = "binding"
  /\ \E j \in Instance :
       /\ local[j].case # "NONE" \/ row # NoRow
       /\ LET l == IF local[j].case # "NONE" THEN local[j] ELSE Hydrated(local[j], row) IN
          /\ call[c].remedy \in l.plan.bound
          /\ local' = [local EXCEPT ![j] = l]
  /\ Goto(c, "commit")
  /\ UNCHANGED <<durable, known, held, writes, gateway, bounds>>

\* PREPARE, bind-and-mint, AUTHORIZE and COMMIT, under the key of the remedy
\* and with references to its artifacts.
Ask(c) == asked' = asked \cup {[remedy |-> call[c].remedy, issue |-> call[c].copy.issue,
                                status |-> call[c].copy.status]}
MayBePaid(c) == paid' \in {paid, paid \cup {call[c].remedy}}

\* Fault: UNKNOWN counts as a success.
UnknownPasses(c) ==
  /\ call[c].pc = "commit"
  /\ Ask(c)
  /\ MayBePaid(c)
  /\ Goto(c, "paid")
  /\ UNCHANGED <<durable, memory, writes, bounds>>

\* SUCCESS, possibly as a replay; otherwise UNKNOWN, after which the payment
\* may or may not have been made, or FAILED.
AskGateway(c) ==
  /\ call[c].pc = "commit"
  /\ Ask(c)
  /\ \/ paid' = paid \cup {call[c].remedy} /\ Goto(c, "paid")
     \/ MayBePaid(c) /\ Goto(c, "release")
  /\ UNCHANGED <<durable, memory, writes, bounds>>

\* An error of one of the services on the way.
PortFails(c) ==
  /\ call[c].pc \in PortPC
  /\ Goto(c, "release")
  /\ UNCHANGED <<durable, memory, writes, gateway, bounds>>

\* observeRemedyToolSuccess, once onPaymentSuccess has answered; then the
\* instance's copy of the mandate is marked as consumed.
ObserveSuccess(c) ==
  /\ call[c].pc = "paid"
  /\ LET i == call[c].at
         n == Here(c).attempts + 1
         to == IF n > MaxAttempts THEN "ESCALATED" ELSE "VERIFYING_REMEDY"
     IN
     \/ ~Here(c).counted /\ End(c) /\ UNCHANGED <<local, writes>> \* throws
     \/ /\ Here(c).counted
        /\ MayMove(Here(c).case, to)
        /\ local' = [local EXCEPT ![i].attempts = n, ![i].case = to]
        /\ Persist(c, {RowOf(to, PlanOf(Here(c)))})
        /\ call' = [call EXCEPT ![c].pc = "consume",
             ![c].copy = [status |-> "CONSUMED", issue |-> Knows(c).issue]]
     \/ /\ Here(c).counted
        /\ ~MayMove(Here(c).case, to)
        /\ local' = [local EXCEPT ![i].attempts = n]
        /\ Goto(c, "flush")
        /\ UNCHANGED writes
     \/ Goto(c, "flush") /\ UNCHANGED <<local, writes>>  \* SATISFIED already
  /\ UNCHANGED <<durable, known, held, gateway, bounds>>

ConsumeMandate(c) ==
  /\ call[c].pc = "consume"
  /\ mandates' = [mandates EXCEPT ![call[c].remedy] = call[c].copy]
  /\ Goto(c, "consumed")
  /\ UNCHANGED <<trigger, row, claims, artifacts, issued, memory, writes, gateway, bounds>>

MandateConsumed(c) ==
  /\ call[c].pc = "consumed"
  /\ known' = [known EXCEPT ![call[c].at][call[c].remedy] = call[c].copy]
  /\ Goto(c, "flush")
  /\ UNCHANGED <<durable, local, held, writes, gateway, bounds>>

ReleaseClaim(c) ==
  /\ call[c].pc = "release"
  /\ held' = [held EXCEPT ![call[c].at][call[c].remedy] = "RELEASED"]
  /\ claims' = [claims EXCEPT ![call[c].remedy] = "RELEASED"]
  /\ Goto(c, "flush")
  /\ UNCHANGED <<trigger, row, mandates, artifacts, issued, local, known, writes,
                 gateway, bounds>>

\* POST remedy-verification: the state of the contract the caller names.
Verify(c) ==
  /\ call[c].pc = "verify"
  /\ \/ /\ MayMove(Here(c).case, "RESOLVED")          \* SATISFIED
        /\ MoveCase(c, "RESOLVED")
     \/ /\ Here(c).attempts > MaxAttempts             \* BREACHED
        /\ MayMove(Here(c).case, "ESCALATED")
        /\ MoveCase(c, "ESCALATED")
     \/ UNCHANGED <<local, writes>>                   \* neither, or illegal
  /\ Goto(c, "flush")
  /\ UNCHANGED <<durable, known, held, gateway, bounds>>

-----------------------------------------------------------------------------
(* Writes land in any order; an instance loses its memory, its calls and   *)
(* the writes it had under way.                                            *)

Land(w) ==
  /\ row' = w.row
  /\ writes' = writes \ {w}
  /\ UNCHANGED <<trigger, mandates, claims, artifacts, issued, memory, call, gateway, bounds>>

Restart(i) ==
  /\ restarts < MaxRestarts
  /\ restarts' = restarts + 1
  /\ local' = [local EXCEPT ![i] = NoLocal]
  /\ known' = [known EXCEPT ![i] = [r \in Remedy |-> NoMandate]]
  /\ held' = [held EXCEPT ![i] = [r \in Remedy |-> "NONE"]]
  /\ writes' = {w \in writes : w.at # i}
  /\ call' = [c \in Call |-> IF call[c].at = i THEN Idle ELSE call[c]]
  /\ UNCHANGED <<durable, gateway, requests>>

Open(c) ==
  \/ OpenExisting(c) \/ InsertTrigger(c) \/ OpenRaced(c) \/ TakeCase(c)
  \/ PutCase(c) \/ Opened(c)
Prepare(c) ==
  \/ HydrateCase(c) \/ ListRemedies(c) \/ PlanRemedies(c) \/ IssueMandate(c)
  \/ MandateIssued(c) \/ GetMandate(c) \/ MandateFetched(c) \/ Flush(c)
  \/ Flushed(c) \/ Verify(c)
Port(c) ==
  \/ PutAction(c) \/ PutProof(c) \/ Evaluate(c) \/ EvaluateBinding(c)
  \/ AskGateway(c) \/ PortFails(c)
Execute(c) ==
  \/ StartExecution(c) \/ RefuseExecution(c) \/ ClaimMandate(c) \/ CreateStub(c)
  \/ ObserveSuccess(c) \/ ConsumeMandate(c) \/ MandateConsumed(c) \/ ReleaseClaim(c)
Arrive(c) ==
  \E i \in Instance :
    \/ Deliver(c, i)
    \/ \E k \in Kind, r \in Remedy \cup {None} : Request(c, i, k, r)

Next ==
  \/ \E c \in Call : Arrive(c) \/ Open(c) \/ Prepare(c) \/ Execute(c) \/ Port(c)
  \/ \E w \in writes : Land(w)
  \/ \E i \in Instance : Restart(i)

Spec == Init /\ [][Next]_vars

-----------------------------------------------------------------------------
(* Properties.                                                             *)

\* However often a mandate is issued again, over one that is executed, in
\* doubt or consumed, and on whatever instances: the gateway is asked to pay
\* for a remedy under one issue of its mandate only, and an active one
\* (putSemanticArtifact, remedy-execution-port.ts).
OneIssuePays ==
  \A a, b \in asked :
    a.remedy = b.remedy => a.issue = b.issue /\ a.status = "ACTIVE"

\* Nowhere, neither in the store nor in a write under way nor in a memory,
\* is a case under verification or resolved before a remedy was paid for.
Verifying == {"VERIFYING_REMEDY", "RESOLVED"}
ResolvedOnlyPaid ==
  paid = {} =>
    /\ row.state \notin Verifying
    /\ \A w \in writes : w.row.state \notin Verifying
    /\ \A i \in Instance : local[i].case \notin Verifying

\* A consumed mandate, stored or remembered, stands for a payment of its
\* remedy, and a payment for a claim and a proof that were stored before it:
\* none is lost with the instance that made it.
PaidIfConsumed(r, copy) == copy.status = "CONSUMED" => r \in paid
PaymentsAreClaimed ==
  \A r \in Remedy :
    /\ PaidIfConsumed(r, mandates[r])
    /\ \A i \in Instance : PaidIfConsumed(r, known[i][r])
    /\ r \in paid => claims[r] # "NONE" /\ artifacts[r].proof = "ACTIVE"

\* A stored case, a write under way and an instance bind a remedy only to a
\* mandate that is stored.
Backed(plan) == \A r \in plan.bound : mandates[r] # NoMandate
BoundMandatesExist ==
  /\ Backed(row.plan)
  /\ \A w \in writes : Backed(w.row.plan)
  /\ \A i \in Instance : Backed(local[i].plan) /\ Backed(local[i].carried)

\* The parts of the inductive invariant: a row, wherever it is, binds stored
\* mandates and is not verified before a payment;
Sound(s) == paid = {} => s \notin Verifying
SoundRow(w) == Sound(w.state) /\ Backed(w.plan)
SoundLocal(l) == Sound(l.case) /\ Backed(l.plan) /\ Backed(l.carried)
RowsAreSound ==
  /\ SoundRow(row)
  /\ \A w \in writes : SoundRow(w.row)
  /\ \A i \in Instance : SoundLocal(local[i])

\* what is remembered of mandates and claims is stored, a proof rests on an
\* action and on an active mandate, and the gateway was asked with both;
CopiesAreStored ==
  \A i \in Instance, r \in Remedy :
    /\ known[i][r] # NoMandate => mandates[r] # NoMandate
    /\ held[i][r] # "NONE" => claims[r] # "NONE"
ArtifactsAgree ==
  /\ \A r \in Remedy : /\ artifacts[r].proof # "CONSUMED"
                       /\ artifacts[r].proof # "NONE" => artifacts[r].action # 0
  /\ \A a \in asked : /\ a.issue = artifacts[a.remedy].action
                      /\ a.status = "ACTIVE" /\ artifacts[a.remedy].proof = "ACTIVE"

\* and a request works with a mandate that is stored, on a claim that is,
\* with the artifacts of its own copy.
PastClaim == PaymentPC \ {"claim"}
HasCopy == PortPC \cup {"issued", "fetched", "consume", "consumed"}
PastAction == PortPC \ {"action"}
PastProof == PastAction \ {"proof"}
Settled == {"paid", "consume", "consumed"}
NeedsRemedy(k) ==
  \/ k.pc \in PaymentPC \cup {"issue", "issued", "execute", "fetched", "start"}
  \/ k.pc = "hydrate" /\ k.kind \in {"issue", "execute"}
  \/ k.pc = "flushing" /\ k.then = "start"
CallIsSound(k) ==
  /\ k.pc # "idle" => k.at \in Instance
  /\ NeedsRemedy(k) => k.remedy \in Remedy
  /\ k.then = "start" => k.pc = "flushing"
  /\ k.pc \in HasCopy => k.copy # NoMandate /\ mandates[k.remedy] # NoMandate
  /\ k.remedy \in Remedy => PaidIfConsumed(k.remedy, k.copy)
  /\ k.pc \in PaymentPC => known[k.at][k.remedy] # NoMandate
  /\ k.pc \in PastClaim => claims[k.remedy] # "NONE"
  /\ k.pc \in PastAction => artifacts[k.remedy].action = k.copy.issue
  /\ k.pc \in PastProof => artifacts[k.remedy].proof = k.copy.status
  /\ k.pc \in Settled => k.remedy \in paid
  /\ SoundRow(k.seen)

ResolutionInv ==
  /\ TypeOK
  /\ PaymentsAreClaimed
  /\ CopiesAreStored
  /\ RowsAreSound
  /\ ArtifactsAgree
  /\ \A c \in Call : CallIsSound(call[c])

=============================================================================
