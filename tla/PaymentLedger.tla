---------------------------- MODULE PaymentLedger ----------------------------
(***************************************************************************)
(* What the herd promises about money: every settled payment has its       *)
(* effect at most once between two manual resets, a credited payment adds  *)
(* exactly its sats to its payer (and costs at most one other member their *)
(* balance), and nothing else raises a balance but an amount the operator  *)
(* writes.                                                                 *)
(***************************************************************************)
EXTENDS Naturals

CONSTANTS People, Payments, Payer, Sats, OperatorAmounts

VARIABLES outcome, balance

vars == <<outcome, balance>>

Init == /\ outcome = [z \in Payments |-> "open"]
        /\ balance = [p \in People |-> 0]

\* A member's balance grows by the payment, that of a newcomer is the payment.
\* One other member may be displaced.
Credit(z) ==
  /\ outcome[z] = "open"
  /\ outcome' = [outcome EXCEPT ![z] = "credited"]
  /\ \E displaced \in SUBSET (People \ {Payer[z]}), before \in {0, balance[Payer[z]]} :
       /\ \A p, q \in displaced : p = q
       /\ balance' = [p \in People |-> IF p \in displaced THEN 0
                                       ELSE IF p = Payer[z] THEN before + Sats[z]
                                       ELSE balance[p]]

\* The payment is settled without effect on any balance.
Refuse(z) ==
  /\ outcome[z] = "open"
  /\ outcome' = [outcome EXCEPT ![z] = "refused"]
  /\ UNCHANGED balance

\* Balances are lost: a displacement, a deactivation, a deletion, a new day.
Drop(S) ==
  /\ balance' = [p \in People |-> IF p \in S THEN 0 ELSE balance[p]]
  /\ UNCHANGED outcome

\* The operator writes a total.
Write(p, sats) ==
  /\ balance' = [balance EXCEPT ![p] = sats]
  /\ UNCHANGED outcome

\* A manual reset empties every balance and forgets every payment.
Forget ==
  /\ outcome' = [z \in Payments |-> "open"]
  /\ balance' = [p \in People |-> 0]

Next == \/ \E z \in Payments : Credit(z) \/ Refuse(z)
        \/ \E S \in SUBSET People : Drop(S)
        \/ \E p \in People, sats \in OperatorAmounts : Write(p, sats)
        \/ Forget

Spec == Init /\ [][Next]_vars
=============================================================================
