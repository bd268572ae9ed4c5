--------------------------- MODULE MCCheckoutLease ---------------------------
(* Model checking of CheckoutLease: calls, agents and cards are each        *)
(* interchangeable.                                                         *)
EXTENDS CheckoutLease, TLC

Interchangeable ==
  Permutations(Call) \cup Permutations(Agent) \cup Permutations(Card)
=============================================================================
