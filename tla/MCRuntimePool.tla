---------------------------- MODULE MCRuntimePool ----------------------------
(***************************************************************************)
(* Instances of RuntimePool for TLC.                                       *)
(***************************************************************************)
EXTENDS RuntimePool, TLC

\* One setting at a time, as the settings page sends them, within the bounds of
\* RuntimeSchedulingUpdate; 0 and FALSE are what Python takes for "unset".
Unchanged == [half |-> NULL, eps |-> NULL, pool |-> NULL]
OnePatches ==
    {[Unchanged EXCEPT !.half = 3], [Unchanged EXCEPT !.eps = 0],
     [Unchanged EXCEPT !.eps = CLEAR]}
    \cup {[Unchanged EXCEPT !.pool = v] : v \in {TRUE, FALSE, CLEAR}}

\* Exploration switched off in one file, numbers out of range in the other.
TwoFiles == {[half |-> 2, eps |-> 0, pool |-> FALSE], [half |-> 0, eps |-> 12, pool |-> TRUE]}

ThreadSymmetry == Permutations(Requests) \cup Permutations(Admins)

=============================================================================
