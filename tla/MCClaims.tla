------------------------------ MODULE MCClaims ------------------------------
(***************************************************************************)
(* Two replicas, and three rows of two tasks that are counted in one       *)
(* bucket with one place: the replicas meet at the lock of a task, or hold *)
(* the locks of both and meet at the cap.                                  *)
(***************************************************************************)
EXTENDS DispatchClaims, TLC

CONSTANTS row1, row2, row3, t1, t2, bucket

ClaimTaskOf   == row1 :> t1 @@ row2 :> t2 @@ row3 :> t2
ClaimBucketOf == row1 :> bucket @@ row2 :> bucket @@ row3 :> bucket
ClaimLimit    == bucket :> 1

ClaimAttempts == row1 :> 2 @@ row2 :> 1 @@ row3 :> 1

Symmetric ==
    Permutations(Token) \cup Permutations(Replica) \cup Permutations({row2, row3})
=============================================================================
