---------------------------- MODULE MCFileStorage ----------------------------
(***************************************************************************)
(* Values for TLC: one legacy file of an account, one uuid left to draw,   *)
(* and a handful of keys.  The cfg files choose how many requests the      *)
(* account has at a time, and whether the purge job runs beside them.      *)
(***************************************************************************)
EXTENDS FileStorageInv, TLC

CONSTANTS f1, f2, f3, u1, u2, r1, r2, r3, d0, d1, d2, d3, d4

MCLegacy == {f1}
MCLegacyDek == f1 :> d0
MCLegacyOwner == f1 :> u1

OneOwner == [r \in Requests |-> u1]

\* Two bytes of quota: room for two files of one byte, or for one of two.
MCQuota == [u \in Users |-> 2]
NoQuota == [u \in Users |-> Unlimited]

FreshDeks == Permutations(Deks \ {d0})

\* The two requests of one account may be swapped as well.
FreshDeksOrRequests == FreshDeks \cup Permutations({r1, r2})
=============================================================================
