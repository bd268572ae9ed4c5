------------------------- MODULE MCMyTasksSnapshots -------------------------
(***************************************************************************)
(* An instance of MyTasksSnapshots for TLC.                                *)
(***************************************************************************)
EXTENDS MyTasksSnapshots, TLC

CONSTANTS a, b, c, c1, c2, k1, k2, all, onlyTodo, bare, s1, s2

Card(place, status, rank, version) ==
  [place |-> place, status |-> status, rank |-> rank, version |-> version]

\* Two todo cards and one in progress; then one of them edited, and the todo
\* order turned over by a change of priority; a page too large to keep, and one
\* without versions.
PageThree == (a :> Card(1, s1, 1, 1)) @@ (b :> Card(2, s1, 2, 1)) @@ (c :> Card(3, s2, 1, 1))
PageRanked == (a :> Card(2, s1, 3, 2)) @@ (b :> Card(1, s1, 2, 1)) @@ (c :> Card(3, s2, 1, 2))
PageBare == (a :> Card(1, s1, 1, 0))
PageHuge == [t \in {a, b, c, c1, c2, s1, s2} |-> Card(1, s1, 1, 1)]
SizedPages == {PageThree, PageRanked, PageHuge, PageBare}

Interchangeable == Permutations(Calls)

Known == (s1 :> "todo") @@ (s2 :> "in_progress")
Stable == {Known}
=============================================================================
