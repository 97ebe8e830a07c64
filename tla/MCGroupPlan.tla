---------------------------- MODULE MCGroupPlan ----------------------------
(* Instances of GroupPlan with the free plan and two paid ones. *)
EXTENDS GroupPlan

Quota(price, members) == [price |-> price, members |-> members, langs |-> -1, runs |-> 5]

\* Three plans by price.
MCOffer == [p \in Plans |->
    CASE p = "free" -> Quota(0, 5) [] p = "pro" -> Quota(2, 10) [] OTHER -> Quota(3, -1)]
=============================================================================
