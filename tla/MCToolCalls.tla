---------------------------- MODULE MCToolCalls ----------------------------
(***************************************************************************)
(* ToolCalls for TLC: two ids that may bear the name, a call made up to    *)
(* three times, the name changing hands up to three times in a try.        *)
(***************************************************************************)
EXTENDS ToolCalls
=============================================================================
