----------------------------- MODULE CheckoutMC -----------------------------
(* Instances of Checkout for TLC: customers after the same goods. *)
EXTENDS Checkout, TLC

Symmetry == Permutations(Contact) \cup Permutations(Worker) \cup Permutations(Order)
=============================================================================
