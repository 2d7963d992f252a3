------------------------------- MODULE Leases -------------------------------
(***************************************************************************)
(* What a concurrency manager promises, whichever backend keeps the        *)
(* leases: a lease is granted only while fewer leases are held than the    *)
(* limit the caller names, and leases may vanish (release, expiry) at any  *)
(* time.  try_acquire of app/core/concurrency.py, without its data         *)
(* structure.                                                              *)
(***************************************************************************)
EXTENDS Integers, FiniteSets

CONSTANTS
    Holders,  \* those who may hold a lease, one each
    Limits    \* the values of max_concurrent

VARIABLE held \* those whose lease counts

Init == held = {}

\* A lease is granted against the leases that are kept in the same step.
Grant(h, max) ==
    \E kept \in SUBSET held :
        /\ h \notin held
        /\ Cardinality(kept) < max
        /\ held' = kept \cup {h}

Vanish == \E kept \in SUBSET held : held' = kept

Next == Vanish \/ \E h \in Holders, max \in Limits : Grant(h, max)

Spec == Init /\ [][Next]_held

\* Safety: the number of leases that count never exceeds the limit under which
\* the last of them was granted (try_acquire).
WithinLimit == \E max \in Limits : Cardinality(held) <= max

=============================================================================
