------------------------------ MODULE MCFolders ------------------------------
(* Values for TLC: two users, each with any number of the requests. *)
EXTENDS Folders, TLC

CONSTANTS u1, u2, g1, g2, g3, f1, f2, r1, r2

\* Everybody waits for responses, or nobody does.
AllOrNobody == {Users, {}}

Interchangeable ==
  Permutations(Users) \cup Permutations(FolderIds) \cup Permutations(FileIds)
    \cup Permutations(Requests)
=============================================================================
