-------------------------- MODULE MCServerProcess --------------------------
(***************************************************************************)
(* An instance of ServerProcess for TLC: two calls, two agents.            *)
(***************************************************************************)
EXTENDS ServerProcess
=============================================================================
