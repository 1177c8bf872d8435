--------------------------- MODULE MCThumbnailCache ---------------------------
(* Values for TLC: two files, one of them with two versions. *)
EXTENDS ThumbnailCache, TLC

CONSTANTS f1, f2, n1, n2, n3, t1, t2

MCFileOf == n1 :> f1 @@ n2 :> f1 @@ n3 :> f2

AnyThread == Permutations(Threads)
=============================================================================
