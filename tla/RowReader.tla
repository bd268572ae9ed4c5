----------------------------- MODULE RowReader -----------------------------
(***************************************************************************)
(* What every paged read of the server promises, whatever its pages look   *)
(* like: a collection that others change is read in windows that follow    *)
(* each other.  A window starts where the one before it ended, at the      *)
(* offset it had; no window is read twice and none is left out.            *)
(***************************************************************************)
EXTENDS Integers, Sequences

CONSTANT Row

VARIABLES
  rows,   \* the collection, as the API would list it now
  off,    \* the offset of the next window
  got,    \* the rows read since the reading began
  still   \* the collection has not changed since then

vars == <<rows, off, got, still>>

Upto(a, b) == IF a <= b THEN a ELSE b

\* The n rows from offset o, fewer at the end.
Window(o, n) == SubSeq(rows, o + 1, Upto(o + n, Len(rows)))

Init ==
  /\ rows \in Seq(Row)
  /\ off = 0 /\ got = <<>> /\ still = TRUE

Read ==
  /\ off' \in Nat /\ off' > off
  /\ got' = got \o Window(off, off' - off)
  /\ UNCHANGED <<rows, still>>

Restart == off' = 0 /\ got' = <<>> /\ still' = TRUE /\ UNCHANGED rows

Change ==
  /\ rows' \in Seq(Row)
  /\ still' = FALSE
  /\ UNCHANGED <<off, got>>

Next == Read \/ Restart \/ Change

Spec == Init /\ [][Next]_vars

-----------------------------------------------------------------------------
\* While nothing changes, what has been read is the collection up to the
\* offset: every row once, in order.
WholeSoFar == still => got = SubSeq(rows, 1, Upto(off, Len(rows)))
=============================================================================
