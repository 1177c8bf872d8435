----------------------------- MODULE MCShareGate -----------------------------
(* Values of the constants of ShareGate for TLC. *)
EXTENDS ShareGate, TLC

CONSTANTS h1, g1, g2, u1, u2

MCOwner == [h \in Shares |-> u1]

\* two requests of one user
OneCaller == [g \in Visitors |-> u2]

AnyRequest == Permutations(Visitors)

Link(u, b) ==
  [to |-> u, locked |-> b, view |-> TRUE, download |-> TRUE, expired |-> FALSE,
   revoked |-> FALSE]

\* Addressed to that user, with and without a password, or to somebody else.
Links == {Link(u2, TRUE), Link(u2, FALSE), Link(u1, FALSE)}
=============================================================================
