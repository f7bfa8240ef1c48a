-------------------------- MODULE TwoPhaseGateway --------------------------
(***************************************************************************)
(* The privileged execution path of TrueMandate:                           *)
(*     PREPARE -> bind-and-mint -> AUTHORIZE -> COMMIT -> reconcile        *)
(* (services/gateway-service/src/two-phase.ts, with the commit gate of     *)
(* packages/authority and the stores of packages/cloud-firestore).         *)
(*                                                                         *)
(* Calls run on several service instances and share one document store.    *)
(* A store operation is one transaction, so it is one step here; between   *)
(* two `await`s of a call every other call may run.  What a call read      *)
(* earlier is kept in its own variables and may be stale when it is used.  *)
(*                                                                         *)
(* Amounts, names, hashes and signatures are abstracted: an Action is a    *)
(* PreparedAction (its hash), a Grant stands for its id, its nonce and its *)
(* single CommitToken (whose id is derived from the grant id), a Key is an *)
(* execution idempotency key.  Several Actions may share a Key: the domain *)
(* packs derive it from the business identity of the payment.              *)
(***************************************************************************)
EXTENDS Integers, FiniteSets

CONSTANTS
  Proc,        \* concurrent calls, over all service instances
  Grant,       \* authority grants that may be minted
  Action,      \* prepared actions
  Key,         \* execution idempotency keys
  Group,       \* exposure groups
  RootGroup,   \* the exposure group of the intent itself
  ActionOf,    \* the action a grant is bound to
  KeyOf,       \* the idempotency key of an action
  GroupOf,     \* the group an action's exposure is first reserved in
  Remedy,      \* actions that also reserve in RootGroup
  Amount,      \* the amount an action moves
  Limit,       \* the exposure threshold an action is held to
  RootLimit,   \* the threshold of RootGroup for remedies
  StateOf,     \* the version of the intent state an action was evaluated on
  Answers,     \* what the adapter may answer
  Revocable,   \* grants whose revocation the environment may order
  Expirable,   \* grants that may reach their expiry
  StateReadMayFail, \* whether the commit route may fail to read the budget
  NoAction,    \* stands for no action in an entry that does not exist
  MaxTip,      \* bound on intent state versions
  MaxCrashes   \* bound on calls lost in a crash

AdapterAnswer == {"SUCCESS", "FAILED", "MALFORMED", "UNKNOWN"}

ASSUME ConstantsAssumption ==
  /\ Grant # {}
  /\ NoAction \notin Action
  /\ RootGroup \in Group
  /\ ActionOf \in [Grant -> Action]
  /\ KeyOf \in [Action -> Key]
  /\ GroupOf \in [Action -> Group]
  /\ Remedy \subseteq Action
  /\ Amount \in [Action -> Nat \ {0}]
  /\ Limit \in [Action -> Nat]
  /\ RootLimit \in Nat
  /\ StateOf \in [Action -> Nat]
  /\ Answers \subseteq AdapterAnswer
  /\ Revocable \subseteq Grant
  /\ Expirable \subseteq Grant
  /\ StateReadMayFail \in BOOLEAN
  /\ MaxTip \in Nat
  /\ MaxCrashes \in Nat

\* The ledger sums over the entries it has.
ASSUME FiniteAssumption == IsFiniteSet(Key)

AnyGrant == CHOOSE g \in Grant : TRUE

VARIABLES
  record,      \* preparedActionStore: lifecycle and version of each action
  grant,       \* grantStore: consumption state of each grant
  token,       \* commitTokenStore: the commit token of each grant
  nonces,      \* nonceStore: the grants whose nonce was registered
  idem,        \* idempotencyStore: execution state of each key
  main,        \* exposureLedger: entry exp-inflight-<key>
  root,        \* exposureLedger: entry exp-inflight-root-<key>
  reservation, \* economicReservationStore, by prepared hash
  reservedBy,  \* the grant named by an action's reservation
  ledger,      \* sideEffectLedger: record exec-<key>
  effects,     \* how often the side effect of a grant really happened
  tip,         \* version of the intent's current state
  expired,     \* grants past their expiresAt
  pc,          \* next step of each call
  req,         \* the grant each call works for
  seen,        \* the action record a call read when it began
  live,        \* whether the call's `now` was before the grant's expiry
  rooted,      \* whether the commit has a rootExposure to reserve
  answer,      \* the adapter's answer, or what a reconciliation was told
  crashes

stores == <<record, grant, token, nonces, idem, main, root, reservation,
            reservedBy, ledger, effects>>
world  == <<tip, expired, crashes>>
call   == <<pc, req, seen, live, rooted, answer>>
vars   == <<stores, world, call>>

-----------------------------------------------------------------------------
(* Types.                                                                  *)

Lifecycle == {"ABSENT", "PREPARED", "AUTHORIZED", "COMMITTING",
              "SUCCEEDED", "FAILED", "UNKNOWN"}
ActionRecord == [lifecycle : Lifecycle, version : Nat]
NoRecord == [lifecycle |-> "ABSENT", version |-> 0]

ConsumptionState == {"ABSENT", "ACTIVE", "PENDING_RECONCILIATION",
                     "CONSUMED", "REVOKED"}

Entry == [status : {"NONE", "IN_FLIGHT", "COMMITTED"},
          action : Action \cup {NoAction}]
NoEntry == [status |-> "NONE", action |-> NoAction]

PreparePC   == {"prep_put", "mint_put"}
AuthorizePC == {"auth_reservation", "auth_grant", "auth_token",
                "auth_lifecycle"}
GatePC      == {"cm_replay", "cm_tip", "cm_token", "cm_grant", "cm_begin",
                "cm_nonce", "cm_regrant", "cm_reserve"}
ArmedPC     == {"cm_root", "cm_unreserve", "cm_consume", "cm_committing",
                "cm_invoke"}
SettlePC    == {"ok_grant", "ok_exposure", "ok_root", "ok_idem", "ok_ledger",
                "ok_lifecycle", "fail_exposure", "fail_root", "fail_idem",
                "fail_ledger", "fail_lifecycle", "unk_idem", "unk_grant",
                "unk_reserve", "unk_ledger", "unk_lifecycle"}
ReconcilePC == {"rec_resolve", "rec_expose", "rec_grant", "rec_paid",
                "rec_release", "rec_unpaid"}
PC == {"idle"} \cup PreparePC \cup AuthorizePC \cup GatePC \cup ArmedPC
        \cup SettlePC \cup ReconcilePC

StoresTypeOK ==
  /\ record \in [Action -> ActionRecord]
  /\ grant \in [Grant -> ConsumptionState]
  /\ token \in [Grant -> {"NONE", "ISSUED", "CONSUMED"}]
  /\ nonces \subseteq Grant
  /\ idem \in [Key -> {"NONE", "PENDING", "SUCCESS", "FAILED", "UNKNOWN"}]
  /\ main \in [Key -> Entry]
  /\ root \in [Key -> Entry]
  /\ reservation \in [Action -> {"NONE", "OPEN", "RESOLVED"}]
  /\ reservedBy \in [Action -> Grant]
  /\ ledger \in [Key -> {"NONE", "SUCCESS", "FAILED", "UNKNOWN"}]
  /\ effects \in [Grant -> Nat]

WorldTypeOK ==
  /\ tip \in Nat
  /\ expired \subseteq Grant
  /\ crashes \in Nat

CallTypeOK ==
  /\ pc \in [Proc -> PC]
  /\ req \in [Proc -> Grant]
  /\ seen \in [Proc -> ActionRecord]
  /\ live \in [Proc -> BOOLEAN]
  /\ rooted \in [Proc -> BOOLEAN]
  /\ answer \in [Proc -> AdapterAnswer]

TypeOK == StoresTypeOK /\ WorldTypeOK /\ CallTypeOK

Init ==
  /\ record = [a \in Action |-> NoRecord]
  /\ grant = [g \in Grant |-> "ABSENT"]
  /\ token = [g \in Grant |-> "NONE"]
  /\ nonces = {}
  /\ idem = [k \in Key |-> "NONE"]
  /\ main = [k \in Key |-> NoEntry]
  /\ root = [k \in Key |-> NoEntry]
  /\ reservation = [a \in Action |-> "NONE"]
  /\ reservedBy = [a \in Action |-> AnyGrant]
  /\ ledger = [k \in Key |-> "NONE"]
  /\ effects = [g \in Grant |-> 0]
  /\ tip = 1
  /\ expired = {}
  /\ pc = [p \in Proc |-> "idle"]
  /\ req = [p \in Proc |-> AnyGrant]
  /\ seen = [p \in Proc |-> NoRecord]
  /\ live = [p \in Proc |-> FALSE]
  /\ rooted = [p \in Proc |-> FALSE]
  /\ answer = [p \in Proc |-> "FAILED"]
  /\ crashes = 0

-----------------------------------------------------------------------------
(* Helpers.                                                                *)

Act(p) == ActionOf[req[p]]
KeyOfGrant(g) == KeyOf[ActionOf[g]]
KeyFor(p) == KeyOfGrant(req[p])

\* The call goes on at label l, keeping what it read.
Goto(p, l) ==
  /\ pc' = [pc EXCEPT ![p] = l]
  /\ UNCHANGED <<req, seen, live, rooted, answer>>

\* The call returns (or its instance dies): what it read is gone.
Return(p) ==
  /\ pc' = [pc EXCEPT ![p] = "idle"]
  /\ req' = [req EXCEPT ![p] = AnyGrant]
  /\ seen' = [seen EXCEPT ![p] = NoRecord]
  /\ live' = [live EXCEPT ![p] = FALSE]
  /\ rooted' = [rooted EXCEPT ![p] = FALSE]
  /\ answer' = [answer EXCEPT ![p] = "FAILED"]

\* A call for grant g begins at label l; `now` is taken once, here.
Begin(p, g, l, told, withRoot) ==
  /\ pc[p] = "idle"
  /\ pc' = [pc EXCEPT ![p] = l]
  /\ req' = [req EXCEPT ![p] = g]
  /\ seen' = [seen EXCEPT ![p] = record[ActionOf[g]]]
  /\ live' = [live EXCEPT ![p] = g \notin expired]
  /\ rooted' = [rooted EXCEPT ![p] = withRoot]
  /\ answer' = [answer EXCEPT ![p] = told]

\* PreparedActionStore.transition: a compare-and-set on lifecycle and version.
CanMove(a, from, version) ==
  record[a] = [lifecycle |-> from, version |-> version]
Moved(a, to) ==
  [record EXCEPT ![a] = [lifecycle |-> to, version |-> record[a].version + 1]]

\* The callers of COMMIT ignore the result of the transition.
TryMove(a, from, version, to) ==
  record' = IF CanMove(a, from, version) THEN Moved(a, to) ELSE record

\* SideEffectLedger.append refuses an executionId it already has; the callers
\* ignore the refusal.
Append(k, result) ==
  ledger' = IF ledger[k] = "NONE" THEN [ledger EXCEPT ![k] = result]
                                  ELSE ledger

\* An amount as the set of its units, so that a sum of amounts is a number of
\* units: those that the entries of keys ks are charged.
Units(entries, ks) == UNION {{k} \X (1..Amount[entries[k].action]) : k \in ks}

\* Fault: counts settled entries only, not those in flight.
ExposureCommittedOnly(grp) ==
  Cardinality(Units(main, {k \in Key : main[k].status = "COMMITTED"
                                       /\ GroupOf[main[k].action] = grp}))

\* evaluateCumulativeExposure: what the entries of a group already hold.
HeldIn(grp) == {k \in Key : main[k].status # "NONE"
                            /\ GroupOf[main[k].action] = grp}
RootHeldIn(grp) == {k \in Key : root[k].status # "NONE" /\ grp = RootGroup}
Exposure(grp) ==
  Cardinality(Units(main, HeldIn(grp))) + Cardinality(Units(root, RootHeldIn(grp)))

Fits(grp, amount, threshold) == Exposure(grp) + amount <= threshold

InFlight(a) == [status |-> "IN_FLIGHT", action |-> a]

\* ExposureLedger.updateStatus fails on an unknown entry, and RELEASED deletes
\* the entry.
Held(entries, k) == entries[k].status # "NONE"
Committed(entries, k) == [entries EXCEPT ![k].status = "COMMITTED"]
Released(entries, k) == [entries EXCEPT ![k] = NoEntry]

-----------------------------------------------------------------------------
(* PREPARE, bind-and-mint and AUTHORIZE.                                   *)

\* prepare: the tip must still be the state the action was evaluated on.
StartPrepare(p, g) ==
  /\ tip = StateOf[ActionOf[g]]
  /\ Begin(p, g, "prep_put", "FAILED", FALSE)
  /\ UNCHANGED <<stores, world>>

\* putIfAbsent: a second prepare converges on the record that is there.
PreparePut(p) ==
  /\ pc[p] = "prep_put"
  /\ record' = IF record[Act(p)] = NoRecord
                 THEN [record EXCEPT ![Act(p)] =
                         [lifecycle |-> "PREPARED", version |-> 1]]
                 ELSE record
  /\ Return(p)
  /\ UNCHANGED <<grant, token, nonces, idem, main, root, reservation,
                 reservedBy, ledger, effects, world>>

\* mintGrantFromEvaluation: a stored action, a live evaluation, a current tip.
StartMint(p, g) ==
  /\ record[ActionOf[g]] # NoRecord
  /\ g \notin expired
  /\ tip = StateOf[ActionOf[g]]
  /\ Begin(p, g, "mint_put", "FAILED", FALSE)
  /\ UNCHANGED <<stores, world>>

\* The grant id is derived from the request, so a repeated mint converges on
\* the stored grant, whatever has become of it.
MintPut(p) ==
  /\ pc[p] = "mint_put"
  /\ grant' = IF grant[req[p]] = "ABSENT"
                THEN [grant EXCEPT ![req[p]] = "ACTIVE"] ELSE grant
  /\ Return(p)
  /\ UNCHANGED <<record, token, nonces, idem, main, root, reservation,
                 reservedBy, ledger, effects, world>>

\* authorize: the record is read first, and its lifecycle used at the end.
StartAuthorize(p, g) ==
  /\ record[ActionOf[g]] # NoRecord
  /\ Begin(p, g, "auth_reservation", "FAILED", FALSE)
  /\ UNCHANGED <<stores, world>>

\* assertNoUnresolvedReservation: neither an open reservation for the hash nor
\* one that was reconciled.
AuthorizeCheckReservation(p) ==
  /\ pc[p] = "auth_reservation"
  /\ IF reservation[Act(p)] = "NONE" THEN Goto(p, "auth_grant") ELSE Return(p)
  /\ UNCHANGED <<stores, world>>

\* The grant exists, has not expired, and is not revoked (issueCommitToken
\* looks at this same copy).  The other checks, on bounds and provenance, may
\* refuse at this point as well.
AuthorizeReadGrant(p) ==
  /\ pc[p] = "auth_grant"
  /\ \/ /\ grant[req[p]] \notin {"ABSENT", "REVOKED"}
        /\ req[p] \notin expired
        /\ Goto(p, "auth_token")
     \/ Return(p)
  /\ UNCHANGED <<stores, world>>

\* CommitTokenStore.put converges on the token with this id.  Only a call that
\* read the record as PREPARED goes on to move it.
AuthorizePutToken(p) ==
  /\ pc[p] = "auth_token"
  /\ token' = IF token[req[p]] = "NONE"
                THEN [token EXCEPT ![req[p]] = "ISSUED"] ELSE token
  /\ IF seen[p].lifecycle = "PREPARED" THEN Goto(p, "auth_lifecycle")
                                       ELSE Return(p)
  /\ UNCHANGED <<record, grant, nonces, idem, main, root, reservation,
                 reservedBy, ledger, effects, world>>

AuthorizeMove(p) ==
  /\ pc[p] = "auth_lifecycle"
  /\ TryMove(Act(p), "PREPARED", seen[p].version, "AUTHORIZED")
  /\ Return(p)
  /\ UNCHANGED <<grant, token, nonces, idem, main, root, reservation,
                 reservedBy, ledger, effects, world>>

-----------------------------------------------------------------------------
(* COMMIT, up to the reservation of exposure.                              *)

\* The route looks up the root budget for a remedy.  When the state cannot be
\* read it leaves rootExposure undefined and goes on.
RootExposure(a) ==
  IF a \notin Remedy THEN {FALSE}
  ELSE IF StateReadMayFail THEN {TRUE, FALSE} ELSE {TRUE}

\* The route reads the token and the record it names; the record copy is used
\* for every lifecycle transition of this call.
StartCommit(p, g) ==
  /\ token[g] # "NONE"
  /\ \E withRoot \in RootExposure(ActionOf[g]) :
       Begin(p, g, "cm_replay", "FAILED", withRoot)
  /\ UNCHANGED <<stores, world>>

\* An earlier SUCCESS is answered IDEMPOTENT_REPLAY, an UNKNOWN is refused.
CommitReplay(p) ==
  /\ pc[p] = "cm_replay"
  /\ IF idem[KeyFor(p)] \in {"SUCCESS", "UNKNOWN"} THEN Return(p)
                                                   ELSE Goto(p, "cm_tip")
  /\ UNCHANGED <<stores, world>>

\* Tip, verdict and expiry.  The outcome binding, the refreshed external state
\* and the tool may also refuse the call here, with nothing written.
CommitReadTip(p) ==
  /\ pc[p] = "cm_tip"
  /\ \/ /\ tip = StateOf[Act(p)]
        /\ live[p]
        /\ Goto(p, "cm_token")
     \/ Return(p)
  /\ UNCHANGED <<stores, world>>

CommitReadToken(p) ==
  /\ pc[p] = "cm_token"
  /\ IF token[req[p]] = "ISSUED" THEN Goto(p, "cm_grant") ELSE Return(p)
  /\ UNCHANGED <<stores, world>>

\* loadAndValidateGrantForExecution: not revoked, locked or consumed.
CommitReadGrant(p) ==
  /\ pc[p] = "cm_grant"
  /\ IF grant[req[p]] = "ACTIVE" THEN Goto(p, "cm_begin") ELSE Return(p)
  /\ UNCHANGED <<stores, world>>

\* idempotencyStore.begin: refuses UNKNOWN, restarts FAILED, and lets a second
\* caller through on PENDING and on SUCCESS.
CommitBegin(p) ==
  /\ pc[p] = "cm_begin"
  /\ idem' = IF idem[KeyFor(p)] \in {"NONE", "FAILED"}
               THEN [idem EXCEPT ![KeyFor(p)] = "PENDING"] ELSE idem
  /\ IF idem[KeyFor(p)] = "UNKNOWN" THEN Return(p) ELSE Goto(p, "cm_nonce")
  /\ UNCHANGED <<record, grant, token, nonces, main, root, reservation,
                 reservedBy, ledger, effects, world>>

\* nonceStore.register: single use, and not given back if a later step fails.
CommitRegisterNonce(p) ==
  /\ pc[p] = "cm_nonce"
  /\ nonces' = nonces \cup {req[p]}
  /\ IF req[p] \in nonces THEN Return(p) ELSE Goto(p, "cm_regrant")
  /\ UNCHANGED <<record, grant, token, idem, main, root, reservation,
                 reservedBy, ledger, effects, world>>

\* The second read of the grant looks for a reconciliation lock only.  Agent,
\* capability, bounds and durable provenance may refuse here as well.
CommitRereadGrant(p) ==
  /\ pc[p] = "cm_regrant"
  /\ \/ /\ grant[req[p]] # "PENDING_RECONCILIATION"
        /\ Goto(p, "cm_reserve")
     \/ Return(p)
  /\ UNCHANGED <<stores, world>>

\* Fault: does not look for an entry with the same id.
ReservableAgain(entries, k, grp, amount, threshold) ==
  Fits(grp, amount, threshold)

\* reserveIfUnderThreshold: the sum over the group and the absence of the entry
\* are checked in the transaction that writes it.
Reservable(entries, k, grp, amount, threshold) ==
  /\ Fits(grp, amount, threshold)
  /\ ~ Held(entries, k)

CommitReserve(p) ==
  /\ pc[p] = "cm_reserve"
  /\ LET a == Act(p)  k == KeyFor(p)
     IN  IF Reservable(main, k, GroupOf[a], Amount[a], Limit[a])
           THEN /\ main' = [main EXCEPT ![k] = InFlight(a)]
                /\ Goto(p, IF rooted[p] THEN "cm_root" ELSE "cm_consume")
           ELSE Return(p) /\ UNCHANGED main
  /\ UNCHANGED <<record, grant, token, nonces, idem, root, reservation,
                 reservedBy, ledger, effects, world>>

\* A remedy reserves in the group of the intent as well.
CommitReserveRoot(p) ==
  /\ pc[p] = "cm_root"
  /\ LET a == Act(p)  k == KeyFor(p)
     IN  IF Reservable(root, k, RootGroup, Amount[a], RootLimit)
           THEN root' = [root EXCEPT ![k] = InFlight(a)] /\ Goto(p, "cm_consume")
           ELSE Goto(p, "cm_unreserve") /\ UNCHANGED root
  /\ UNCHANGED <<record, grant, token, nonces, idem, main, reservation,
                 reservedBy, ledger, effects, world>>

CommitUnreserve(p) ==
  /\ pc[p] = "cm_unreserve"
  /\ main' = Released(main, KeyFor(p))
  /\ Return(p)
  /\ UNCHANGED <<record, grant, token, nonces, idem, root, reservation,
                 reservedBy, ledger, effects, world>>

-----------------------------------------------------------------------------
(* COMMIT, from the token to the adapter.                                  *)

CommitConsumeToken(p) ==
  /\ pc[p] = "cm_consume"
  /\ IF token[req[p]] = "ISSUED"
       THEN /\ token' = [token EXCEPT ![req[p]] = "CONSUMED"]
            /\ Goto(p, "cm_committing")
       ELSE Return(p) /\ UNCHANGED token
  /\ UNCHANGED <<record, grant, nonces, idem, main, root, reservation,
                 reservedBy, ledger, effects, world>>

\* From the lifecycle read at the start, and only from these two.
CommitMove(p) ==
  /\ pc[p] = "cm_committing"
  /\ IF seen[p].lifecycle \in {"AUTHORIZED", "PREPARED"}
       THEN TryMove(Act(p), seen[p].lifecycle, seen[p].version, "COMMITTING")
       ELSE UNCHANGED record
  /\ Goto(p, "cm_invoke")
  /\ UNCHANGED <<grant, token, nonces, idem, main, root, reservation,
                 reservedBy, ledger, effects, world>>

\* Whether the side effect happened, by the adapter's answer: UNKNOWN leaves
\* it open.
MayHappen(ans) ==
  IF ans = "SUCCESS" THEN {1} ELSE IF ans = "UNKNOWN" THEN {0, 1} ELSE {0}

\* Fault: a lost answer is handled as a failure.
AfterAnswerLostIsFailed(ans) ==
  IF ans = "SUCCESS" THEN "ok_grant" ELSE "fail_exposure"

\* Fault: an answer that cannot be read is handled as a success.
AfterAnswerUnreadIsPaid(ans) ==
  CASE ans \in {"SUCCESS", "MALFORMED"} -> "ok_grant"
    [] ans = "UNKNOWN"                  -> "unk_idem"
    [] OTHER                            -> "fail_exposure"

AfterAnswer(ans) ==
  CASE ans = "SUCCESS" -> "ok_grant"
    [] ans = "UNKNOWN" -> "unk_idem"
    [] OTHER           -> "fail_exposure"

CommitInvoke(p) ==
  /\ pc[p] = "cm_invoke"
  /\ \E ans \in Answers : \E n \in MayHappen(ans) :
       /\ effects' = [effects EXCEPT ![req[p]] = @ + n]
       /\ answer' = [answer EXCEPT ![p] = ans]
       /\ pc' = [pc EXCEPT ![p] = AfterAnswer(ans)]
  /\ UNCHANGED <<record, grant, token, nonces, idem, main, root, reservation,
                 reservedBy, ledger, world, req, seen, live, rooted>>

-----------------------------------------------------------------------------
(* COMMIT after SUCCESS.                                                   *)

\* Fault: judges expiry by the clock of the store, not by the call's `now`.
OkConsumeGrantByClock(p) ==
  /\ pc[p] = "ok_grant"
  /\ LET g == req[p]
     IN  IF grant[g] \in {"ACTIVE", "PENDING_RECONCILIATION"} /\ g \notin expired
           THEN /\ grant' = [grant EXCEPT ![g] = "CONSUMED"]
                /\ Goto(p, "ok_exposure")
           ELSE Return(p) /\ UNCHANGED grant
  /\ UNCHANGED <<record, token, nonces, idem, main, root, reservation,
                 reservedBy, ledger, effects, world>>

\* GrantStore.consume refuses a revoked or consumed grant, and then the call
\* returns with the effect made and nothing else recorded.
OkConsumeGrant(p) ==
  /\ pc[p] = "ok_grant"
  /\ LET g == req[p]
     IN  IF grant[g] \in {"ACTIVE", "PENDING_RECONCILIATION"}
           THEN /\ grant' = [grant EXCEPT ![g] = "CONSUMED"]
                /\ Goto(p, "ok_exposure")
           ELSE Return(p) /\ UNCHANGED grant
  /\ UNCHANGED <<record, token, nonces, idem, main, root, reservation,
                 reservedBy, ledger, effects, world>>

OkCommitExposure(p) ==
  /\ pc[p] = "ok_exposure"
  /\ IF Held(main, KeyFor(p))
       THEN /\ main' = Committed(main, KeyFor(p))
            /\ Goto(p, IF rooted[p] THEN "ok_root" ELSE "ok_idem")
       ELSE Return(p) /\ UNCHANGED main
  /\ UNCHANGED <<record, grant, token, nonces, idem, root, reservation,
                 reservedBy, ledger, effects, world>>

OkCommitRoot(p) ==
  /\ pc[p] = "ok_root"
  /\ IF Held(root, KeyFor(p))
       THEN root' = Committed(root, KeyFor(p)) /\ Goto(p, "ok_idem")
       ELSE Return(p) /\ UNCHANGED root
  /\ UNCHANGED <<record, grant, token, nonces, idem, main, reservation,
                 reservedBy, ledger, effects, world>>

OkComplete(p) ==
  /\ pc[p] = "ok_idem"
  /\ idem' = [idem EXCEPT ![KeyFor(p)] = "SUCCESS"]
  /\ Goto(p, "ok_ledger")
  /\ UNCHANGED <<record, grant, token, nonces, main, root, reservation,
                 reservedBy, ledger, effects, world>>

OkAppend(p) ==
  /\ pc[p] = "ok_ledger"
  /\ Append(KeyFor(p), "SUCCESS")
  /\ Goto(p, "ok_lifecycle")
  /\ UNCHANGED <<record, grant, token, nonces, idem, main, root, reservation,
                 reservedBy, effects, world>>

OkMove(p) ==
  /\ pc[p] = "ok_lifecycle"
  /\ TryMove(Act(p), "COMMITTING", seen[p].version + 1, "SUCCEEDED")
  /\ Return(p)
  /\ UNCHANGED <<grant, token, nonces, idem, main, root, reservation,
                 reservedBy, ledger, effects, world>>

-----------------------------------------------------------------------------
(* COMMIT after FAILED, and after an answer that cannot be read: then the   *)
(* ledger gets no record.                                                  *)

\* The result of the release is ignored.
FailRelease(p) ==
  /\ pc[p] = "fail_exposure"
  /\ main' = Released(main, KeyFor(p))
  /\ Goto(p, IF rooted[p] THEN "fail_root" ELSE "fail_idem")
  /\ UNCHANGED <<record, grant, token, nonces, idem, root, reservation,
                 reservedBy, ledger, effects, world>>

FailReleaseRoot(p) ==
  /\ pc[p] = "fail_root"
  /\ root' = Released(root, KeyFor(p))
  /\ Goto(p, "fail_idem")
  /\ UNCHANGED <<record, grant, token, nonces, idem, main, reservation,
                 reservedBy, ledger, effects, world>>

FailComplete(p) ==
  /\ pc[p] = "fail_idem"
  /\ idem' = [idem EXCEPT ![KeyFor(p)] = "FAILED"]
  /\ Goto(p, IF answer[p] = "FAILED" THEN "fail_ledger" ELSE "fail_lifecycle")
  /\ UNCHANGED <<record, grant, token, nonces, main, root, reservation,
                 reservedBy, ledger, effects, world>>

FailAppend(p) ==
  /\ pc[p] = "fail_ledger"
  /\ Append(KeyFor(p), "FAILED")
  /\ Goto(p, "fail_lifecycle")
  /\ UNCHANGED <<record, grant, token, nonces, idem, main, root, reservation,
                 reservedBy, effects, world>>

FailMove(p) ==
  /\ pc[p] = "fail_lifecycle"
  /\ TryMove(Act(p), "COMMITTING", seen[p].version + 1, "FAILED")
  /\ Return(p)
  /\ UNCHANGED <<grant, token, nonces, idem, main, root, reservation,
                 reservedBy, ledger, effects, world>>

-----------------------------------------------------------------------------
(* COMMIT after UNKNOWN: lock the grant and reserve until reconciliation.  *)

UnknownMark(p) ==
  /\ pc[p] = "unk_idem"
  /\ idem' = [idem EXCEPT ![KeyFor(p)] = "UNKNOWN"]
  /\ Goto(p, "unk_grant")
  /\ UNCHANGED <<record, grant, token, nonces, main, root, reservation,
                 reservedBy, ledger, effects, world>>

\* markPendingReconciliation refuses a revoked or consumed grant.
UnknownLockGrant(p) ==
  /\ pc[p] = "unk_grant"
  /\ LET g == req[p]
     IN  IF grant[g] \in {"ACTIVE", "PENDING_RECONCILIATION"}
           THEN /\ grant' = [grant EXCEPT ![g] = "PENDING_RECONCILIATION"]
                /\ Goto(p, "unk_reserve")
           ELSE Return(p) /\ UNCHANGED grant
  /\ UNCHANGED <<record, token, nonces, idem, main, root, reservation,
                 reservedBy, ledger, effects, world>>

\* EconomicReservationStore.put refuses a hash that was reconciled before.
UnknownReserve(p) ==
  /\ pc[p] = "unk_reserve"
  /\ IF reservation[Act(p)] # "RESOLVED"
       THEN /\ reservation' = [reservation EXCEPT ![Act(p)] = "OPEN"]
            /\ reservedBy' = [reservedBy EXCEPT ![Act(p)] = req[p]]
            /\ Goto(p, "unk_ledger")
       ELSE Return(p) /\ UNCHANGED <<reservation, reservedBy>>
  /\ UNCHANGED <<record, grant, token, nonces, idem, main, root, ledger,
                 effects, world>>

UnknownAppend(p) ==
  /\ pc[p] = "unk_ledger"
  /\ Append(KeyFor(p), "UNKNOWN")
  /\ Goto(p, "unk_lifecycle")
  /\ UNCHANGED <<record, grant, token, nonces, idem, main, root, reservation,
                 reservedBy, effects, world>>

UnknownMove(p) ==
  /\ pc[p] = "unk_lifecycle"
  /\ TryMove(Act(p), "COMMITTING", seen[p].version + 1, "UNKNOWN")
  /\ Return(p)
  /\ UNCHANGED <<grant, token, nonces, idem, main, root, reservation,
                 reservedBy, ledger, effects, world>>

-----------------------------------------------------------------------------
(* reconcileUnknownExecution.                                              *)

\* What the caller reports: whether the side effect of the execution under
\* grant g happened.  The report is taken to be true.
Report(g) == IF effects[g] > 0 THEN "SUCCESS" ELSE "FAILED"

\* listUnresolved, and the reservation the caller asked for among them.
StartReconcile(p) ==
  /\ \E a \in Action :
       /\ reservation[a] = "OPEN"
       /\ Begin(p, reservedBy[a], "rec_resolve", Report(reservedBy[a]), FALSE)
  /\ UNCHANGED <<stores, world>>

\* Fault: resolves a reservation that was resolved before.
ReconcileResolveAgain(p) ==
  /\ pc[p] = "rec_resolve"
  /\ reservation' = [reservation EXCEPT ![Act(p)] = "RESOLVED"]
  /\ Goto(p, IF answer[p] = "SUCCESS" THEN "rec_expose" ELSE "rec_release")
  /\ UNCHANGED <<record, grant, token, nonces, idem, main, root, reservedBy,
                 ledger, effects, world>>

\* Fault: commits the exposure whatever was reported.
ReconcileResolveAsPaid(p) ==
  /\ pc[p] = "rec_resolve"
  /\ IF reservation[Act(p)] = "OPEN"
       THEN /\ reservation' = [reservation EXCEPT ![Act(p)] = "RESOLVED"]
            /\ Goto(p, "rec_expose")
       ELSE Return(p) /\ UNCHANGED reservation
  /\ UNCHANGED <<record, grant, token, nonces, idem, main, root, reservedBy,
                 ledger, effects, world>>

\* resolve wins once; it makes the hash non-reusable whatever was reported.
ReconcileResolve(p) ==
  /\ pc[p] = "rec_resolve"
  /\ IF reservation[Act(p)] = "OPEN"
       THEN /\ reservation' = [reservation EXCEPT ![Act(p)] = "RESOLVED"]
            /\ Goto(p, IF answer[p] = "SUCCESS" THEN "rec_expose"
                                                ELSE "rec_release")
       ELSE Return(p) /\ UNCHANGED reservation
  /\ UNCHANGED <<record, grant, token, nonces, idem, main, root, reservedBy,
                 ledger, effects, world>>

\* Fault: forgets the grant.
ReconcileCommitExposureOnly(p) ==
  /\ pc[p] = "rec_expose"
  /\ main' = Committed(main, KeyFor(p))
  /\ Goto(p, "rec_paid")
  /\ UNCHANGED <<record, grant, token, nonces, idem, root, reservation,
                 reservedBy, ledger, effects, world>>

ReconcileCommitExposure(p) ==
  /\ pc[p] = "rec_expose"
  /\ IF Held(main, KeyFor(p))
       THEN main' = Committed(main, KeyFor(p)) /\ Goto(p, "rec_grant")
       ELSE Return(p) /\ UNCHANGED main
  /\ UNCHANGED <<record, grant, token, nonces, idem, root, reservation,
                 reservedBy, ledger, effects, world>>

\* consumeGrant also refuses a grant that had expired when the call began.
ReconcileConsumeGrant(p) ==
  /\ pc[p] = "rec_grant"
  /\ LET g == req[p]
     IN  IF grant[g] \in {"ACTIVE", "PENDING_RECONCILIATION"} /\ live[p]
           THEN /\ grant' = [grant EXCEPT ![g] = "CONSUMED"]
                /\ Goto(p, "rec_paid")
           ELSE Return(p) /\ UNCHANGED grant
  /\ UNCHANGED <<record, token, nonces, idem, main, root, reservation,
                 reservedBy, ledger, effects, world>>

ReconcilePaid(p) ==
  /\ pc[p] = "rec_paid"
  /\ idem' = [idem EXCEPT ![KeyFor(p)] = "SUCCESS"]
  /\ Return(p)
  /\ UNCHANGED <<record, grant, token, nonces, main, root, reservation,
                 reservedBy, ledger, effects, world>>

\* Fault: leaves the key UNKNOWN.
ReconcileReleaseOnly(p) ==
  /\ pc[p] = "rec_release"
  /\ main' = Released(main, KeyFor(p))
  /\ Return(p)
  /\ UNCHANGED <<record, grant, token, nonces, idem, root, reservation,
                 reservedBy, ledger, effects, world>>

\* Only the entry named by the reservation is released; the entry of a remedy
\* in the group of the intent is not named there.
ReconcileRelease(p) ==
  /\ pc[p] = "rec_release"
  /\ IF Held(main, KeyFor(p))
       THEN main' = Released(main, KeyFor(p)) /\ Goto(p, "rec_unpaid")
       ELSE Return(p) /\ UNCHANGED main
  /\ UNCHANGED <<record, grant, token, nonces, idem, root, reservation,
                 reservedBy, ledger, effects, world>>

ReconcileUnpaid(p) ==
  /\ pc[p] = "rec_unpaid"
  /\ idem' = [idem EXCEPT ![KeyFor(p)] = "FAILED"]
  /\ Return(p)
  /\ UNCHANGED <<record, grant, token, nonces, main, root, reservation,
                 reservedBy, ledger, effects, world>>

-----------------------------------------------------------------------------
(* The world around the calls.                                             *)

\* AuthorityService.revokeGrant: always possible, even on a consumed grant.
Revoke(g) ==
  /\ g \in Revocable
  /\ grant[g] \notin {"ABSENT", "REVOKED"}
  /\ grant' = [grant EXCEPT ![g] = "REVOKED"]
  /\ UNCHANGED <<record, token, nonces, idem, main, root, reservation,
                 reservedBy, ledger, effects, world, call>>

\* The clock passes expiresAt of the grant, its action and its token.
Expire(g) ==
  /\ g \in Expirable \ expired
  /\ expired' = expired \cup {g}
  /\ UNCHANGED <<stores, tip, crashes, call>>

\* The intent gets a new current state.
AdvanceTip ==
  /\ tip < MaxTip
  /\ tip' = tip + 1
  /\ UNCHANGED <<stores, expired, crashes, call>>

\* The instance of a running call dies; nothing of the call is resumed.
Crash(p) ==
  /\ pc[p] # "idle"
  /\ crashes < MaxCrashes
  /\ crashes' = crashes + 1
  /\ Return(p)
  /\ UNCHANGED <<stores, tip, expired>>

-----------------------------------------------------------------------------

BeginCall(p) ==
  \/ \E g \in Grant : StartPrepare(p, g) \/ StartMint(p, g)
                      \/ StartAuthorize(p, g) \/ StartCommit(p, g)
  \/ StartReconcile(p)

AuthorizeStep(p) ==
  \/ PreparePut(p) \/ MintPut(p)
  \/ AuthorizeCheckReservation(p) \/ AuthorizeReadGrant(p)
  \/ AuthorizePutToken(p) \/ AuthorizeMove(p)

GateStep(p) ==
  \/ CommitReplay(p) \/ CommitReadTip(p) \/ CommitReadToken(p)
  \/ CommitReadGrant(p) \/ CommitBegin(p) \/ CommitRegisterNonce(p)
  \/ CommitRereadGrant(p) \/ CommitReserve(p)

ExecuteStep(p) ==
  \/ CommitReserveRoot(p) \/ CommitUnreserve(p) \/ CommitConsumeToken(p)
  \/ CommitMove(p) \/ CommitInvoke(p)

SettleStep(p) ==
  \/ OkConsumeGrant(p) \/ OkCommitExposure(p) \/ OkCommitRoot(p)
  \/ OkComplete(p) \/ OkAppend(p) \/ OkMove(p)
  \/ FailRelease(p) \/ FailReleaseRoot(p) \/ FailComplete(p)
  \/ FailAppend(p) \/ FailMove(p)
  \/ UnknownMark(p) \/ UnknownLockGrant(p) \/ UnknownReserve(p)
  \/ UnknownAppend(p) \/ UnknownMove(p)

ReconcileStep(p) ==
  \/ ReconcileResolve(p) \/ ReconcileCommitExposure(p)
  \/ ReconcileConsumeGrant(p) \/ ReconcilePaid(p)
  \/ ReconcileRelease(p) \/ ReconcileUnpaid(p)

\* A call that runs takes its next step.
Step(p) == AuthorizeStep(p) \/ GateStep(p) \/ ExecuteStep(p)
             \/ SettleStep(p) \/ ReconcileStep(p)

Environment ==
  \/ \E g \in Grant : Revoke(g) \/ Expire(g)
  \/ AdvanceTip
  \/ \E p \in Proc : Crash(p)

Next == (\E p \in Proc : BeginCall(p) \/ Step(p)) \/ Environment

Spec == Init /\ [][Next]_vars

\* An async function that is not lost runs on after each await.
FairSpec == Spec /\ \A p \in Proc : WF_vars(Step(p))
=============================================================================
