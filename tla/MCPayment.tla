------------------------------ MODULE MCPayment ------------------------------
(* Instances of Payment for TLC. *)
EXTENDS Payment, TLC

\* Users other than the owner, payments and requests are interchangeable.
Symmetry == Permutations(Users \ {Owner}) \cup Permutations(Txns) \cup Permutations(Requests)
=============================================================================
