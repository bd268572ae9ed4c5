----------------------------- MODULE MCAuthGate -----------------------------
(* Model checking of AuthGate: request slots are interchangeable.          *)
EXTENDS AuthGate, TLC

Slots == Permutations(Req)
=============================================================================
