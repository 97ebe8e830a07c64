--------------------------- MODULE PaymentContract ---------------------------
(***************************************************************************)
(* What the payment component owes to a member who pays through VNPay,     *)
(* with requests, rows and awaits left out.  A payment is sent to the      *)
(* gateway, the gateway decides it once, and only a decided payment moves: *)
(* a paid one may grant a plan, it is settled as SUCCESS only when every   *)
(* plan it buys has been granted, and its own order follows the settlement *)
(* and never changes again.  Payment.tla implements this module.           *)
(***************************************************************************)
EXTENDS Naturals

CONSTANTS
    Txns    \* the payments, named by their vnp_TxnRef

VARIABLES
    verdict,   \* what the gateway decided of each payment
    buysPlan,  \* TRUE for a payment of a subscription, FALSE for a donation
    served,    \* how many plans have been granted on behalf of each payment
    settled,   \* the status the application recorded for each payment
    confirmed  \* the status of the order a subscription payment belongs to

vars == <<verdict, buysPlan, served, settled, confirmed>>

Init ==
    /\ verdict = [t \in Txns |-> "unsent"]
    /\ buysPlan = [t \in Txns |-> FALSE]
    /\ served = [t \in Txns |-> 0]
    /\ settled = [t \in Txns |-> "open"]
    /\ confirmed = [t \in Txns |-> "open"]

Send(t) ==
    /\ verdict[t] = "unsent"
    /\ verdict' = [verdict EXCEPT ![t] = "pending"]
    /\ \E b \in BOOLEAN : buysPlan' = [buysPlan EXCEPT ![t] = b]
    /\ UNCHANGED <<served, settled, confirmed>>

Decide(t) ==
    /\ verdict[t] = "pending"
    /\ \E v \in {"success", "failed"} : verdict' = [verdict EXCEPT ![t] = v]
    /\ UNCHANGED <<buysPlan, served, settled, confirmed>>

\* A plan is granted for a payment the gateway charged, and for no other.
Grant(t) ==
    /\ verdict[t] = "success"
    /\ served' = [served EXCEPT ![t] = @ + 1]
    /\ UNCHANGED <<verdict, buysPlan, settled, confirmed>>

Settle(t) ==
    /\ settled[t] = "open"
    /\ \/ /\ verdict[t] = "success"
          /\ buysPlan[t] => served[t] > 0
          /\ settled' = [settled EXCEPT ![t] = "SUCCESS"]
       \/ /\ verdict[t] = "failed"
          /\ settled' = [settled EXCEPT ![t] = "FAILED"]
    /\ UNCHANGED <<verdict, buysPlan, served, confirmed>>

Confirm(t) ==
    /\ buysPlan[t]
    /\ confirmed[t] = "open"
    /\ \/ settled[t] = "SUCCESS" /\ confirmed' = [confirmed EXCEPT ![t] = "PAID"]
       \/ settled[t] = "FAILED" /\ confirmed' = [confirmed EXCEPT ![t] = "FAILED"]
    /\ UNCHANGED <<verdict, buysPlan, served, settled>>

Next == \E t \in Txns : Send(t) \/ Decide(t) \/ Grant(t) \/ Settle(t) \/ Confirm(t)

Spec == Init /\ [][Next]_vars
=============================================================================
