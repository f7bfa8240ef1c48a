---------------------------- MODULE PaymentOnce ----------------------------
(***************************************************************************)
(* What the privileged path promises for one execution idempotency key:    *)
(* the key is claimed for one prepared action, at most one grant of that   *)
(* action pays while it is claimed, and the claim is given back only when  *)
(* nothing was paid.  Calls, tokens, crashes and reconciliation are not    *)
(* mentioned: TwoPhaseGateway is shown to implement this module with the   *)
(* exposure entry as the claim.                                            *)
(***************************************************************************)
EXTENDS Integers

CONSTANTS Key, Grant, Action, ActionOf, KeyOf, NoAction

VARIABLES
  claim,  \* per key: free, claimed for an action, or settled for it
  paid    \* how often each grant has paid

vars == <<claim, paid>>

Free == [status |-> "NONE", action |-> NoAction]
Claimed(a) == [status |-> "IN_FLIGHT", action |-> a]
Settled(a) == [status |-> "COMMITTED", action |-> a]

Payers(k) == {g \in Grant : KeyOf[ActionOf[g]] = k}
Unpaid(k) == \A g \in Payers(k) : paid[g] = 0

Init ==
  /\ claim = [k \in Key |-> Free]
  /\ paid = [g \in Grant |-> 0]

Claim(a) ==
  /\ claim[KeyOf[a]] = Free
  /\ claim' = [claim EXCEPT ![KeyOf[a]] = Claimed(a)]
  /\ UNCHANGED paid

Pay(g) ==
  /\ claim[KeyOf[ActionOf[g]]] = Claimed(ActionOf[g])
  /\ Unpaid(KeyOf[ActionOf[g]])
  /\ paid' = [paid EXCEPT ![g] = 1]
  /\ UNCHANGED claim

GiveBack(a) ==
  /\ claim[KeyOf[a]] = Claimed(a)
  /\ Unpaid(KeyOf[a])
  /\ claim' = [claim EXCEPT ![KeyOf[a]] = Free]
  /\ UNCHANGED paid

Settle(g) ==
  /\ claim[KeyOf[ActionOf[g]]] = Claimed(ActionOf[g])
  /\ paid[g] = 1
  /\ claim' = [claim EXCEPT ![KeyOf[ActionOf[g]]] = Settled(ActionOf[g])]
  /\ UNCHANGED paid

Next ==
  \/ \E a \in Action : Claim(a) \/ GiveBack(a)
  \/ \E g \in Grant : Pay(g) \/ Settle(g)

Spec == Init /\ [][Next]_vars
=============================================================================
