----------------------------- MODULE MCLearning -----------------------------
(***************************************************************************)
(* Small instances of LearningMemory: a stated and a learned preference, a *)
(* rule and a trust signal; and of DecisionRules: one constraint that is   *)
(* sticky, one that is financial and one that is soft, two judges.         *)
(***************************************************************************)
EXTENDS LearnedDecisions, TLC

CONSTANTS c1, c2, hard, money, soft, judge, devil, pay, m1, m2,
          stated, learned, rule, trust

MCKindOf == hard :> "HARD" @@ money :> "FINANCIAL" @@ soft :> "SOFT"
MCKindOfProposal ==
  [p \in Proposal |-> CASE p = stated -> "EXPLICIT" [] p = learned -> "LEARNED"
                        [] p = rule -> "RULE" [] OTHER -> "AGENT"]

\* The handlers are alike.
MCSymmetry == Permutations(Proc)

\* Each judge says nothing or one thing of each enforced constraint, and makes
\* at most one finding of its own; or it does not answer.
AtMostOne(S) == {{}} \cup {{x} : x \in S}
MCSaid == {said \in [Constraint -> AtMostOne(Classification)] : said[soft] = {}}
MCAnswer(findings) ==
  [ok : {TRUE}, said : MCSaid, found : AtMostOne(findings)]
    \cup {[ok |-> FALSE, said |-> [c \in Constraint |-> {}], found |-> {}]}
MCResults ==
  {judge :> a @@ devil :> b : a \in MCAnswer({"UNTRUSTED_INFLUENCE"}),
                              b \in MCAnswer({"GRAVE", "UNSUPPORTED_ASSUMPTION"})}

\* Scopes of every shape, for the rule of delegation.
MCScopes ==
  [caps : [Capability -> Optional({"ALLOW", "REQUIRE_APPROVAL", "BLOCK"})],
   maxAmount : {None, 0, 1, 2}, currency : {None, 0},
   merchants : {None, {}, {m1}, {m1, m2}}, denied : {{}}, expiresAt : {None},
   depth : {None}]
MCRequests == [capability : {pay}, amount : {None, 0, 1, 2}, currency : {None, 0},
               merchant : {None, m1, m2}]
MCExposures == {0, 2}
=============================================================================
