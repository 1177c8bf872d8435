--------------------------- MODULE MCChunkedUpload ---------------------------
(* Values for TLC: every session has two chunks. *)
EXTENDS ChunkedUpload, TLC

CONSTANTS s1, s2, r1, r2, r3

TwoChunks == [s \in Sessions |-> 2]

\* Clients that wait and use two sessions; clients that do not, on one session,
\* with workers that may die.
WaitingOrRushed ==
  {[sessions |-> {s1, s2}, waits |-> TRUE, faults |-> FALSE],
   [sessions |-> {s1}, waits |-> FALSE, faults |-> TRUE]}

Rushed == {[sessions |-> {s1}, waits |-> FALSE, faults |-> FALSE]}

Clients == Permutations({r1, r2})
=============================================================================
