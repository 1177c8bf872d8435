----------------------------- MODULE MCAccounts -----------------------------
(* Values for TLC: admins with a request each, and a user. *)
EXTENDS Accounts, TLC

CONSTANTS a1, a2, u1, s1, s2, s3, r1, r2

OneEach == r1 :> a1 @@ r2 :> a2
AdminAndUser == r1 :> a1 @@ r2 :> u1

AnySecret == Permutations(Secrets)
=============================================================================
