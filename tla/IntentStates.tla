---------------------------- MODULE IntentStates ----------------------------
(***************************************************************************)
(* The states of one intent as services/intent-service keeps them: rows    *)
(* that putState writes without a comparison, a tip that setTip moves      *)
(* without a comparison, and for every state a semantic verification that  *)
(* putIfAbsent makes immutable.  Three routes make states: the             *)
(* finalization of a compilation, the policy ingress, and the supersession *)
(* that the runtime asks for when verified evidence covers the proof       *)
(* obligations of the tip.  Every await between a read and a write is a    *)
(* step, so that calls of any kind interleave.                             *)
(*                                                                         *)
(* A hash is taken as the content it is made of.  A read of the tip (the   *)
(* tip document, then the state's row) is one step.                        *)
(***************************************************************************)
EXTENDS Naturals, FiniteSets

CONSTANTS
  Call,          \* requests under way
  Compilation,   \* verified compilations of the intent's text
  Verification,  \* verdicts of the readiness evaluation, each made once
  Policy,        \* capability permissions an operator may set
  Bound,         \* temporal bounds
  BoundOf,       \* the execution bound a compilation is grounded in, or None
  None,
  MaxVersion,    \* bound: versions a state may have
  MaxRequests,   \* bound: requests of a behaviour
  MaxLost        \* bound: requests that are lost half way

ASSUME StatesAssumption ==
  /\ MaxVersion \in Nat \ {0}
  /\ MaxRequests \in Nat /\ MaxLost \in Nat
  /\ BoundOf \in [Compilation -> Bound \cup {None}]
  /\ None \notin Bound \cup Policy \cup Compilation \cup Verification
  /\ Compilation \cap Verification = {}
  /\ (Compilation \cup Verification) \cap (1..MaxVersion) = {}
  /\ None \notin 1..MaxVersion

\* state-<intent>-v<version>, state-<intent>-compiled-<hash of the
\* compilation> and state-<intent>-semantic-<hash of the verdict>.
Id == (1..MaxVersion) \cup Compilation \cup Verification
Content == [id : Id, version : 1..MaxVersion, previous : Id \cup {None},
            policy : Policy \cup {None}, bound : Bound \cup {None}]
\* A semantic verification: the state whose hash it binds, the state the
\* verdict was given on (a supersession's), and the state that the proof
\* summary in it names.
Artifact == [of : Content, over : Content \cup {None}, summary : Content \cup {None}]

\* None is the document that is not there.
ASSUME RowsAssumption == None \notin Content /\ None \notin Artifact

VARIABLES
  states,    \* repo: the row of each state id
  tip,       \* repo: the tip document of the intent
  artifact,  \* semanticArtifacts: semantic-verification-<state id>
  request,    \* the requests under way
  arrived, lost,
  stands,    \* history: the policy set last, if no other call overlapped since
  serial     \* history: no two calls overlapped and none was lost so far

statesVars == <<states, tip, artifact, request, arrived, lost, stands, serial>>
stores == <<states, tip, artifact>>

Kind == {"finalize", "policy", "supersede"}
Stage == {"idle", "build", "verify", "install", "check", "read", "put", "move", "bind"}
\* seen: the state the request is about (finalize: the row found under its
\* id; supersede: the state the verdict was given on); prior: its artifact;
\* made: the state being made.
Calls == [pc : Stage, kind : Kind, id : Id \cup {None}, policy : Policy \cup {None},
          seen : Content \cup {None}, prior : Artifact \cup {None},
          made : Content \cup {None}]
Idle == [pc |-> "idle", kind |-> "finalize", id |-> None, policy |-> None,
         seen |-> None, prior |-> None, made |-> None]

StatesTypeOK ==
  /\ states \in [Id -> Content \cup {None}]
  /\ tip \in Id \cup {None}
  /\ artifact \in [Id -> Artifact \cup {None}]
  /\ request \in [Call -> Calls]
  /\ arrived \in 0..MaxRequests /\ lost \in 0..MaxLost
  /\ stands \in Policy \cup {None}
  /\ serial \in BOOLEAN

StatesInit ==
  /\ states = [i \in Id |-> None]
  /\ tip = None
  /\ artifact = [i \in Id |-> None]
  /\ request = [c \in Call |-> Idle]
  /\ arrived = 0 /\ lost = 0
  /\ stands = None /\ serial = TRUE

-----------------------------------------------------------------------------
Tip == IF tip = None THEN None ELSE states[tip]
NextVersion == IF Tip = None THEN 1 ELSE Tip.version + 1
Quiet == \A c \in Call : request[c].pc = "idle"
Stored(i, row) == artifact[i] = None \/ artifact[i] = row
PutIfAbsent(i, row) ==
  artifact' = [artifact EXCEPT ![i] = IF @ = None THEN row ELSE @]

\* A request arrives; the history notes whether another one is under way, and
\* that the policy p stands if none is.
Begin(c, begun, p) ==
  /\ request[c].pc = "idle"
  /\ arrived < MaxRequests
  /\ arrived' = arrived + 1
  /\ request' = [request EXCEPT ![c] = begun]
  /\ serial' = (serial /\ Quiet)
  /\ stands' = IF Quiet THEN p ELSE None
  /\ UNCHANGED lost
Continue(c, next) ==
  /\ request' = [request EXCEPT ![c] = next]
  /\ UNCHANGED <<arrived, lost, stands, serial>>
End(c) == Continue(c, Idle)

-----------------------------------------------------------------------------
(* POST /internal/compilations/finalize.                                   *)

\* The compilation and its verdict are in the artifact store; the state may
\* have been finalized before (repo.getState).
Finalize(c, k) ==
  /\ Begin(c, [Idle EXCEPT !.pc = "build", !.kind = "finalize", !.id = k,
                           !.seen = states[k]], stands)
  /\ UNCHANGED stores

\* build(): the version and the predecessor come from the tip, the bound from
\* the compilation.
Build(c) ==
  /\ request[c].pc = "build"
  /\ LET k == request[c].id
         built == [id |-> k, version |-> NextVersion, policy |-> None,
                   previous |-> tip, bound |-> BoundOf[k]]
     IN  /\ request[c].seen = None => NextVersion <= MaxVersion
         /\ Continue(c, [request[c] EXCEPT !.pc = "verify",
              !.made = IF request[c].seen = None THEN built ELSE request[c].seen])
  /\ UNCHANGED stores

Verdict(made) == [of |-> made, over |-> None, summary |-> None]

\* Fault: a verification under the id is taken, whatever it binds.
VerifyLenient(c) ==
  /\ request[c].pc = "verify"
  /\ PutIfAbsent(request[c].id, Verdict(request[c].made))
  /\ Continue(c, [request[c] EXCEPT !.pc = "install"])
  /\ UNCHANGED <<states, tip>>

\* The verification goes in first; another one under the id is a conflict.
VerifyFinalized(c) ==
  /\ request[c].pc = "verify"
  /\ LET k == request[c].id
         row == Verdict(request[c].made)
     IN  /\ PutIfAbsent(k, row)
         /\ IF Stored(k, row) THEN Continue(c, [request[c] EXCEPT !.pc = "install"])
                              ELSE End(c)
  /\ UNCHANGED <<states, tip>>

\* finalizeState: one transaction that leaves a state that exists alone.
Install(c) ==
  /\ request[c].pc = "install"
  /\ LET k == request[c].id IN
       IF request[c].seen = None /\ states[k] = None
         THEN /\ states' = [states EXCEPT ![k] = request[c].made]
              /\ tip' = k
              /\ stands' = None
         ELSE UNCHANGED <<states, tip, stands>>
  /\ request' = [request EXCEPT ![c] = Idle]
  /\ UNCHANGED <<artifact, arrived, lost, serial>>

-----------------------------------------------------------------------------
(* POST /internal/intent-states and .../semantic-supersession.             *)

SetPolicy(c, p) ==
  /\ Begin(c, [Idle EXCEPT !.pc = "read", !.kind = "policy", !.policy = p], p)
  /\ UNCHANGED stores

\* The readiness evaluation of the runtime: the tip and its verification,
\* which must bind it and hold no proof summary yet; the evidence covers
\* every obligation, and a verdict that never was before is sent.
Readable(i) == artifact[i] # None /\ artifact[i].of = states[i]
EvidenceCovers(c, v) ==
  /\ tip # None /\ Readable(tip) /\ artifact[tip].summary = None
  /\ artifact[v] = None /\ states[v] = None
  /\ \A d \in Call : request[d].id # v
  /\ Begin(c, [Idle EXCEPT !.pc = "check", !.kind = "supersede", !.id = v,
                           !.seen = Tip, !.prior = artifact[tip]], stands)
  /\ UNCHANGED stores

\* The state and its verification must still be those, and the state the tip.
\* (A tip that already holds the same verdict is answered without a write;
\* the runtime never sends a verdict twice.)
CheckTip(c) ==
  /\ request[c].pc = "check"
  /\ LET s == request[c].seen IN
       IF states[s.id] = s /\ artifact[s.id] = request[c].prior /\ tip = s.id
         THEN Continue(c, [request[c] EXCEPT !.pc = "read", !.policy = s.policy])
         ELSE End(c)
  /\ UNCHANGED stores

\* Fault: the bound is the caller's.
ReadTipForBound(c) ==
  /\ request[c].pc = "read" /\ NextVersion <= MaxVersion
  /\ \E b \in Bound :
       Continue(c, [request[c] EXCEPT !.pc = "put",
         !.made = [id |-> IF request[c].kind = "supersede" THEN request[c].id ELSE NextVersion,
                   version |-> NextVersion, previous |-> tip,
                   policy |-> request[c].policy, bound |-> b]])
  /\ UNCHANGED stores

\* createIntentState: the version and the bound come from the tip that is read
\* here, the predecessor from the request or the tip.
ReadTip(c) ==
  /\ request[c].pc = "read"
  /\ LET supersedes == request[c].kind = "supersede"
         version == NextVersion
         made == [id |-> IF supersedes THEN request[c].id ELSE version,
                  version |-> version,
                  previous |-> IF supersedes THEN request[c].seen.id ELSE tip,
                  policy |-> request[c].policy,
                  bound |-> IF tip = None THEN None ELSE Tip.bound]
     IN  /\ version <= MaxVersion
         /\ Continue(c, [request[c] EXCEPT !.pc = "put", !.made = made])
  /\ UNCHANGED stores

PutState(c) ==
  /\ request[c].pc = "put"
  /\ states' = [states EXCEPT ![request[c].made.id] = request[c].made]
  /\ Continue(c, [request[c] EXCEPT !.pc = "move"])
  /\ UNCHANGED <<tip, artifact>>

SetTip(c) ==
  /\ request[c].pc = "move"
  /\ tip' = request[c].made.id
  /\ Continue(c, [request[c] EXCEPT !.pc = "bind"])
  /\ UNCHANGED <<states, artifact>>

\* Fault: a policy state is left without a verification.
RebindNothing(c) ==
  /\ request[c].pc = "bind" /\ request[c].kind = "policy"
  /\ End(c)
  /\ UNCHANGED stores

\* A policy state takes over the verification of its predecessor, if it has
\* one: a copy of the payload in which the state's own fields are replaced.
RebindVerification(c) ==
  /\ request[c].pc = "bind" /\ request[c].kind = "policy"
  /\ LET s == request[c].made IN
       IF s.previous # None /\ artifact[s.previous] # None
         THEN PutIfAbsent(s.id, [artifact[s.previous] EXCEPT !.of = s])
         ELSE UNCHANGED artifact
  /\ End(c)
  /\ UNCHANGED <<states, tip>>

\* Fault: the bound is not compared.
BindUnchecked(c) ==
  /\ request[c].pc = "bind" /\ request[c].kind = "supersede"
  /\ LET s == request[c].made IN
       PutIfAbsent(s.id, [of |-> s, over |-> request[c].seen, summary |-> s])
  /\ End(c)
  /\ UNCHANGED <<states, tip>>
\* The successor's bound is compared with that of the state it succeeds, and
\* then the verdict is stored, with the proof summary.
BindSuccessor(c) ==
  /\ request[c].pc = "bind" /\ request[c].kind = "supersede"
  /\ LET s == request[c].made IN
       IF s.bound = request[c].seen.bound
         THEN PutIfAbsent(s.id, [of |-> s, over |-> request[c].seen, summary |-> s])
         ELSE UNCHANGED artifact
  /\ End(c)
  /\ UNCHANGED <<states, tip>>

\* The instance that runs the call is lost.
Lose(c) ==
  /\ request[c].pc # "idle" /\ lost < MaxLost
  /\ lost' = lost + 1
  /\ request' = [request EXCEPT ![c] = Idle]
  /\ serial' = FALSE /\ stands' = None
  /\ UNCHANGED <<states, tip, artifact, arrived>>

-----------------------------------------------------------------------------
StatesNext ==
  \/ \E c \in Call, k \in Compilation : Finalize(c, k)
  \/ \E c \in Call, p \in Policy : SetPolicy(c, p)
  \/ \E c \in Call, v \in Verification : EvidenceCovers(c, v)
  \/ \E c \in Call :
       \/ Build(c) \/ VerifyFinalized(c) \/ Install(c)
       \/ CheckTip(c) \/ ReadTip(c) \/ PutState(c) \/ SetTip(c)
       \/ RebindVerification(c) \/ BindSuccessor(c) \/ Lose(c)

StatesSpec == StatesInit /\ [][StatesNext]_statesVars

-----------------------------------------------------------------------------
(* What must hold however calls interleave, and whichever are lost.        *)

\* All has its type, and a reader that finds a finalized state finds its
\* verification, which binds the row: "Publish the current tip only after its
\* required semantic verification is durable" (service.ts:346).
CompiledIsVerified ==
  /\ StatesTypeOK
  /\ \A k \in Compilation : states[k] # None => Readable(k)

\* The execution bound of a state is one that a finalized compilation was
\* grounded in: no policy and no supersession invents one (service.ts:191).
BoundsAreCompiled ==
  \A i \in Id : states[i] # None /\ states[i].bound # None =>
    \E k \in Compilation : states[k] # None /\ BoundOf[k] = states[i].bound

\* A successor that has its verification keeps the policy and the bound of the
\* state the verdict was given on, even when the tip moved under the call
\* (semantic-supersession.ts, the comparison after createIntentState).
SuccessorsKeepTerms ==
  \A v \in Verification : artifact[v] # None =>
    /\ artifact[v].of.policy = artifact[v].over.policy
    /\ artifact[v].of.bound = artifact[v].over.bound

\* The tip carries the policy that was set last, through every supersession by
\* evidence and until a new compilation is finalized, if nothing overlapped the
\* call or came between; and as long as all calls come one after the other, from
\* the first finalization on the tip can be read with its verification
\* (internal-routes.ts, the policy ingress; semantic-supersession.ts).
SerialTip ==
  Quiet =>
    /\ stands # None => tip # None /\ Tip.policy = stands
    /\ serial /\ (\E k \in Compilation : states[k] # None) => Readable(tip)

-----------------------------------------------------------------------------
(* The inductive invariant behind them.                                    *)

Busy(c) == request[c].pc # "idle"
Alone == \A c, d \in Call : Busy(c) /\ Busy(d) => c = d
Finalized == \E k \in Compilation : states[k] # None
Grounded(b) == b # None => \E k \in Compilation : states[k] # None /\ BoundOf[k] = b
TipVersion == IF tip = None THEN 0 ELSE Tip.version

\* A row is under its own id, which for a policy state is its version; the tip
\* has a row, and is there once a compilation is finalized.
RowsAreSound ==
  /\ \A i \in Id : states[i] # None =>
       /\ states[i].id = i
       /\ i \in 1..MaxVersion => states[i].version = i
       /\ Grounded(states[i].bound)
  /\ \A k \in Compilation : states[k] # None => Readable(k)
  /\ tip # None => states[tip] # None
  /\ tip = None => ~Finalized

\* What a finalization has made is what its verification binds.
FinalizationIsSound(c) ==
  LET r == request[c] IN
    /\ r.pc \in {"build", "verify", "install"}
    /\ r.id \in Compilation
    /\ r.pc # "build" =>
         /\ r.made # None
         /\ r.seen = None => r.made.id = r.id /\ r.made.bound = BoundOf[r.id]
    /\ r.pc = "install" => artifact[r.id] = Verdict(r.made)

\* A supersession keeps the policy of the state that its verdict was given on.
SupersessionIsSound(c) ==
  LET r == request[c] IN
    /\ r.id \in Verification
    /\ r.seen # None
    /\ r.pc # "check" => r.policy = r.seen.policy
    /\ r.pc \in {"put", "move", "bind"} => r.made.id = r.id /\ r.made.policy = r.policy

RequestIsSound(c) ==
  LET r == request[c] IN Busy(c) =>
    /\ r.kind = "finalize" => FinalizationIsSound(c)
    /\ r.kind # "finalize" =>
         /\ r.pc \in {"check", "read", "put", "move", "bind"}
         /\ r.pc = "check" => r.kind = "supersede"
         /\ r.pc \in {"put", "move", "bind"} => r.made # None /\ Grounded(r.made.bound)
         /\ r.pc \in {"move", "bind"} => states[r.made.id] # None
    /\ r.kind = "supersede" => SupersessionIsSound(c)
    /\ r.kind = "policy" /\ r.pc \in {"put", "move", "bind"} =>
         r.made.id \in 1..MaxVersion /\ r.made.version = r.made.id

TipStands == tip # None /\ Tip.policy = stands

\* What the one request under way has made so far carries the policy that
\* stands, and so does the tip, before a policy and after a supersession.
StandsThrough(c) ==
  LET r == request[c] IN
    /\ r.kind # "policy" => TipStands
    /\ r.kind = "policy" => r.policy = stands
    /\ r.kind = "supersede" => r.seen.policy = stands
    /\ r.kind = "policy" /\ r.pc \in {"put", "move", "bind"} => r.made.policy = stands
    /\ r.kind # "finalize" /\ r.pc = "move" => states[r.made.id] = r.made
    /\ r.kind = "policy" /\ r.pc = "bind" => tip = r.made.id /\ states[tip] = r.made

PolicyStands ==
  stands # None =>
    /\ Alone
    /\ Quiet => TipStands
    /\ \A c \in Call : Busy(c) => StandsThrough(c)

\* The one request under way extends the tip by one version, whose id has no
\* verification yet; when the tip has moved the verification of the new tip is
\* the next thing to be stored, and it will be.
SerialThrough(c) ==
  LET r == request[c] IN
    /\ r.kind = "finalize" /\ r.pc \in {"verify", "install"} /\ r.seen = None =>
         r.made.version = TipVersion + 1
    /\ r.kind # "finalize" /\ r.pc \in {"put", "move"} => r.made.version = TipVersion + 1
    /\ r.kind = "policy" /\ r.pc \in {"put", "move"} => r.made.previous = tip
    /\ r.kind # "finalize" /\ r.pc = "move" => states[r.made.id] = r.made
    /\ r.kind # "finalize" /\ r.pc = "bind" =>
         tip = r.made.id /\ states[tip] = r.made /\ artifact[tip] = None
    /\ r.kind = "policy" /\ r.pc = "bind" /\ Finalized =>
         r.made.previous # None /\ artifact[r.made.previous] # None
    /\ r.kind = "supersede" =>
         /\ artifact[r.id] = None
         /\ r.pc # "bind" => tip # None /\ tip # r.id /\ Tip = r.seen
         /\ r.pc \in {"put", "move", "bind"} => r.made.bound = r.seen.bound

TipIsServed ==
  serial =>
    /\ Alone
    /\ \A n \in 1..MaxVersion : n > TipVersion => artifact[n] = None
    /\ Finalized /\ (\A c \in Call : request[c].pc # "bind") => Readable(tip)
    /\ \A c \in Call : Busy(c) => SerialThrough(c)

StatesInv ==
  /\ StatesTypeOK
  /\ RowsAreSound
  /\ SuccessorsKeepTerms
  /\ \A c \in Call : RequestIsSound(c)
  /\ PolicyStands
  /\ TipIsServed

=============================================================================
