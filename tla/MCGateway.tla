----------------------------- MODULE MCGateway -----------------------------
(***************************************************************************)
(* Small instances of TwoPhaseGateway: two purchases a1 and a2 with one    *)
(* execution key (two workflows that pay the same invoice), a purchase and *)
(* its remedy with keys of their own, and one purchase with one grant.     *)
(***************************************************************************)
EXTENDS GatewayInvariant, TLC

CONSTANTS p1, p2, g1, g2, a1, a2, k1, k2, intentGroup, remedyGroup

\* Two workflows, one invoice: each grant has its action, both one key.
MCOneEach == (g1 :> a1) @@ (g2 :> a2)
\* One grant.
MCOnlyOne == g1 :> a1

MCKeyShared == [a \in Action |-> k1]
MCKeyOwn == (a1 :> k1) @@ (a2 :> k2)

MCGroupIntent == [a \in Action |-> intentGroup]
MCGroupRemedy == (a1 :> intentGroup) @@ (a2 :> remedyGroup)

MCAmount == [a \in Action |-> 2]
\* Both amounts fit in 4, only one in 3.
MCLimit == [a \in Action |-> 4]
MCTightLimit == [a \in Action |-> 3]
MCStateOf == [a \in Action |-> 1]

MCSymmetry == Permutations(Proc)
=============================================================================
