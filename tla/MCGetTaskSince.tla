--------------------------- MODULE MCGetTaskSince ---------------------------
(***************************************************************************)
(* An instance of GetTaskSince for TLC: the sets of parts that are asked   *)
(* for together.                                                           *)
(***************************************************************************)
EXTENDS GetTaskSince

Together ==
  {{}, {"comments", "artifacts"}}
=============================================================================
