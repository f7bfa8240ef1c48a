--------------------------- MODULE LearningMemory ---------------------------
(***************************************************************************)
(* The memory of services/learning-service: proposals that a verified      *)
(* caller confirms or rejects, and what a confirmation leaves for later    *)
(* decisions: the learned context, and per topic a tip that names the      *)
(* preference, the workflow rule or the trust signal in force.             *)
(*                                                                         *)
(* A handler reads and writes each document by a call of its own, none of  *)
(* them conditional, on any instance; a step is such a call with the code  *)
(* up to the next one.  Subject, domain and concept are one here: records  *)
(* of different keys never meet.  Versions and hashes are left out, and    *)
(* proposals with a target intent, which are refused on creation.          *)
(***************************************************************************)
EXTENDS Naturals, FiniteSets

CONSTANTS
  Proc,       \* confirmations and rejections under way
  Proposal,
  KindOfProposal, \* what each proposal is about
  Expirable,  \* proposals with an expiresAt
  NoProposal,
  MaxCrashes  \* bound: handlers that are lost half way

ProposalKind == {"EXPLICIT", "LEARNED", "RULE", "AGENT", "COUNTERPARTY"}
Topic == {"preference", "rule", "agent", "counterparty"}

ASSUME LearningAssumption ==
  /\ KindOfProposal \in [Proposal -> ProposalKind]
  /\ Expirable \subseteq Proposal
  /\ NoProposal \notin Proposal
  /\ MaxCrashes \in Nat

TopicOf(p) == CASE KindOfProposal[p] \in {"EXPLICIT", "LEARNED"} -> "preference"
                [] KindOfProposal[p] = "RULE" -> "rule"
                [] KindOfProposal[p] = "AGENT" -> "agent"
                [] OTHER -> "counterparty"

VARIABLES
  proposal, \* learningProposals: the status of each
  past,     \* the proposals whose expiresAt is over
  confirmed,\* the proposals with a CONFIRMED event
  context,  \* learnedContext: the proposals with a record
  record,   \* preferenceRecords and workflowRules, by proposal
  tip,      \* preferenceTips, workflowRuleTips, trustSignalTips
  index,    \* preferenceEvidenceIndexes
  call,     \* the handlers under way
  crashes

memory == <<proposal, past, confirmed, context, record, tip, index>>
vars == <<memory, call, crashes>>

Record == [status : {"ACTIVE", "SUPERSEDED"}, by : Proposal \cup {NoProposal}]
Missing == [status |-> "NONE", by |-> NoProposal]
Active == [status |-> "ACTIVE", by |-> NoProposal]

PC == {"idle", "expire", "decide", "event", "context", "read",
       "incoming", "previous", "tip", "index", "addindex"}
Calls == [pc : PC, about : Proposal \cup {NoProposal}, want : {"CONFIRMED", "REJECTED"},
          existing : Proposal \cup {NoProposal}, ids : SUBSET Proposal]
Idle == [pc |-> "idle", about |-> NoProposal, want |-> "REJECTED", existing |-> NoProposal,
         ids |-> {}]

TypeOK ==
  /\ proposal \in [Proposal -> {"NONE", "PROPOSED", "CONFIRMED", "REJECTED", "EXPIRED"}]
  /\ past \subseteq Expirable
  /\ confirmed \subseteq Proposal
  /\ context \subseteq Proposal
  /\ record \in [Proposal -> Record \cup {Missing}]
  /\ tip \in [Topic -> Proposal \cup {NoProposal}]
  /\ index \subseteq Proposal
  /\ call \in [Proc -> Calls]
  /\ \A c \in Proc : call[c].pc # "idle" => call[c].about # NoProposal
  /\ crashes \in 0..MaxCrashes

Init ==
  /\ proposal = [p \in Proposal |-> "NONE"]
  /\ past = {}
  /\ confirmed = {}
  /\ context = {}
  /\ record = [p \in Proposal |-> Missing]
  /\ tip = [t \in Topic |-> NoProposal]
  /\ index = {}
  /\ call = [c \in Proc |-> Idle]
  /\ crashes = 0

At(c, pc) == call[c].pc = pc
About(c) == call[c].about
Goes(c, pc) == call' = [call EXCEPT ![c].pc = pc]
Ends(c) == call' = [call EXCEPT ![c] = Idle]

\* POST /internal/learning-proposals; the event that it logs is never read.
Create(p) ==
  /\ proposal[p] = "NONE"
  /\ proposal' = [proposal EXCEPT ![p] = "PROPOSED"]
  /\ UNCHANGED <<past, confirmed, context, record, tip, index, call, crashes>>

Expire(p) ==
  /\ p \in Expirable \ past
  /\ past' = past \cup {p}
  /\ UNCHANGED <<proposal, confirmed, context, record, tip, index, call, crashes>>

\* The row is read and the clock with it; a decided proposal is refused.
Decidable(p) == proposal[p] = "PROPOSED"

Load(c, p, want) ==
  /\ At(c, "idle")
  /\ Decidable(p)
  /\ call' = [call EXCEPT ![c] = [Idle EXCEPT !.about = p, !.want = want,
                !.pc = IF p \in past THEN "expire" ELSE "decide"]]
  /\ UNCHANGED <<memory, crashes>>

PutExpired(c) ==
  /\ At(c, "expire")
  /\ proposal' = [proposal EXCEPT ![About(c)] = "EXPIRED"]
  /\ Ends(c)
  /\ UNCHANGED <<past, confirmed, context, record, tip, index, crashes>>

\* The row is put whatever has become of it since.
PutDecision(c) ==
  /\ At(c, "decide")
  /\ proposal' = [proposal EXCEPT ![About(c)] = call[c].want]
  /\ IF call[c].want = "CONFIRMED" THEN Goes(c, "event") ELSE Ends(c)
  /\ UNCHANGED <<past, confirmed, context, record, tip, index, crashes>>

\* Fault: the learned context is left for later.
PutEventOnly(c) ==
  /\ At(c, "event")
  /\ confirmed' = confirmed \cup {About(c)}
  /\ Goes(c, IF TopicOf(About(c)) \in {"preference", "rule"} THEN "read" ELSE "tip")
  /\ UNCHANGED <<proposal, past, context, record, tip, index, crashes>>

PutEvent(c) ==
  /\ At(c, "event")
  /\ confirmed' = confirmed \cup {About(c)}
  /\ Goes(c, "context")
  /\ UNCHANGED <<proposal, past, context, record, tip, index, crashes>>

PutContext(c) ==
  /\ At(c, "context")
  /\ context' = context \cup {About(c)}
  /\ Goes(c, IF TopicOf(About(c)) \in {"preference", "rule"} THEN "read" ELSE "tip")
  /\ UNCHANGED <<proposal, past, confirmed, record, tip, index, crashes>>

\* The tip and the record it names; of the record only what never changes is
\* used.
ReadTip(c) ==
  /\ At(c, "read")
  /\ call' = [call EXCEPT ![c].existing = tip[TopicOf(About(c))], ![c].pc = "incoming"]
  /\ UNCHANGED <<memory, crashes>>

\* Fault: what is confirmed last is in force.
ActivatesAlways(incoming, existing) == TRUE

\* resolveSupersession, resolveRuleSupersession
Activates(incoming, existing) ==
  existing = NoProposal
    \/ KindOfProposal[incoming] \in {"EXPLICIT", "RULE"}
    \/ KindOfProposal[existing] = "LEARNED"

PutIncoming(c) ==
  LET p == About(c)
      e == call[c].existing
  IN  /\ At(c, "incoming")
      /\ record' = [record EXCEPT ![p] =
           IF Activates(p, e) THEN Active ELSE [status |-> "SUPERSEDED", by |-> e]]
      /\ Goes(c, CASE Activates(p, e) /\ e # NoProposal -> "previous"
                   [] Activates(p, e) /\ e = NoProposal -> "tip"
                   [] OTHER -> "index")
      /\ UNCHANGED <<proposal, past, confirmed, context, tip, index, crashes>>

\* The copy that was read is put back, superseded.
PutPrevious(c) ==
  /\ At(c, "previous")
  /\ record' = [record EXCEPT ![call[c].existing] =
       [status |-> "SUPERSEDED", by |-> About(c)]]
  /\ Goes(c, "tip")
  /\ UNCHANGED <<proposal, past, confirmed, context, tip, index, crashes>>

PutTip(c) ==
  /\ At(c, "tip")
  /\ tip' = [tip EXCEPT ![TopicOf(About(c))] = About(c)]
  /\ IF TopicOf(About(c)) = "preference" THEN Goes(c, "index") ELSE Ends(c)
  /\ UNCHANGED <<proposal, past, confirmed, context, record, index, crashes>>

ReadIndex(c) ==
  /\ At(c, "index")
  /\ IF About(c) \in index THEN Ends(c)
     ELSE call' = [call EXCEPT ![c].ids = index, ![c].pc = "addindex"]
  /\ UNCHANGED <<memory, crashes>>

PutIndex(c) ==
  /\ At(c, "addindex")
  /\ index' = call[c].ids \cup {About(c)}
  /\ Ends(c)
  /\ UNCHANGED <<proposal, past, confirmed, context, record, tip, crashes>>

Crash(c) ==
  /\ ~At(c, "idle")
  /\ crashes < MaxCrashes
  /\ crashes' = crashes + 1
  /\ Ends(c)
  /\ UNCHANGED memory

Handle(c) ==
  \/ PutExpired(c) \/ PutDecision(c) \/ PutEvent(c) \/ PutContext(c)
  \/ ReadTip(c) \/ PutIncoming(c) \/ PutPrevious(c) \/ PutTip(c)
  \/ ReadIndex(c) \/ PutIndex(c)

Next ==
  \/ \E p \in Proposal : Create(p) \/ Expire(p)
  \/ \E c \in Proc, p \in Proposal : \E want \in {"CONFIRMED", "REJECTED"} :
       Load(c, p, want)
  \/ \E c \in Proc : Handle(c) \/ Crash(c)

Spec == Init /\ [][Next]_vars

----------------------------------------------------------------------------
(* Properties.                                                             *)

\* What is in force was confirmed by a caller and is in the learned context;
\* a preference or a rule has its record, and a superseded record names one
\* that is there.  Holds although a confirmation may be lost at any of its
\* writes, and raced by another one or by a rejection.
InForceWasConfirmed ==
  /\ \A t \in Topic : tip[t] # NoProposal =>
       /\ tip[t] \in confirmed /\ tip[t] \in context
       /\ t \in {"preference", "rule"} => record[tip[t]] # Missing
  /\ \A p \in Proposal : record[p].by # NoProposal => record[record[p].by] # Missing

\* What a handler that has come so far has left behind, and that what it has
\* read stays there and was outranked.
CallLeaves(c) ==
  /\ call[c].pc \notin {"idle", "expire", "decide", "event"} => About(c) \in confirmed
  /\ call[c].pc \in {"read", "incoming", "previous", "tip", "index", "addindex"}
       => About(c) \in context
  /\ call[c].pc \in {"read", "incoming", "previous", "index", "addindex"}
       => TopicOf(About(c)) \in {"preference", "rule"}
  /\ (call[c].pc \in {"previous", "tip", "index", "addindex"}
      /\ TopicOf(About(c)) \in {"preference", "rule"}) => record[About(c)] # Missing
  /\ call[c].existing # NoProposal => record[call[c].existing] # Missing
  /\ At(c, "previous") => call[c].existing # NoProposal
  /\ call[c].pc \in {"decide", "event", "context"} => call[c].existing = NoProposal
  /\ call[c].pc \in {"previous", "tip"} => Activates(About(c), call[c].existing)

\* The inductive invariant: TypeOK, InForceWasConfirmed, and the above of the
\* handlers that are still to write the tip.
LearningInv ==
  /\ TypeOK
  /\ InForceWasConfirmed
  /\ \A c \in Proc : CallLeaves(c)

\* The step of the property below.
ExplicitOutranksLearnedStep ==
  \A c \in Proc :
    (/\ At(c, "tip") /\ call'[c] # call[c]
     /\ KindOfProposal[About(c)] = "LEARNED"
     /\ tip["preference"] # NoProposal
     /\ KindOfProposal[tip["preference"]] = "EXPLICIT"
     /\ tip'["preference"] = About(c))
    => call[c].existing # tip["preference"]

\* A preference that was learned takes the place of an explicit one only
\* when its confirmation had read the tip before the explicit one was there.
ExplicitOutranksLearned == [][ExplicitOutranksLearnedStep]_vars

=============================================================================
