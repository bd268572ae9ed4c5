----------------------------- MODULE MCDocEdits -----------------------------
(***************************************************************************)
(* DocEdits for TLC: two agents; a document of Mesh and a copy of a Team   *)
(* Relay document; a path to move a document to.                           *)
(***************************************************************************)
EXTENDS DocEdits, TLC

CONSTANTS a1, a2, mesh, relay, p1, p2, p3

MCPlace == (mesh :> p1) @@ (relay :> p2)

\* One agent goes by uuid, and moves its document; the other may go by path,
\* or by one no document is at.
MCNamed == (a1 :> {mesh, relay}) @@ (a2 :> {relay, p1, p3})
MCWanted == (a1 :> {p2, p3}) @@ (a2 :> {NoPath})
MCMaxLost == (a1 :> 1) @@ (a2 :> 0)
=============================================================================
