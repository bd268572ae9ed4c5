----------------------------- MODULE MCRetry429 -----------------------------
(* Model checking of Retry429: calls are interchangeable.                  *)
EXTENDS Retry429, TLC

Calls == Permutations(Call)
=============================================================================
