------------------------------ MODULE MCSharing ------------------------------
(* Values for TLC: one legacy file, its owner's requests, and its visitors. *)
EXTENDS Sharing, TLC

CONSTANTS f1, f2, u1, r1, r2, d0, d1, d2, h1, q1, q2, g1, g2

MCLegacy == {f1}
MCLegacyDek == f1 :> d0
MCLegacyOwner == f1 :> u1
OneOwner == [r \in Requests |-> u1]
NoQuota == [u \in Users |-> Unlimited]
=============================================================================
