------------------------- MODULE MCTranscriberSession -------------------------
(* TranscriberSession with two connections of one user.                      *)
EXTENDS TranscriberSession, TLC

CONSTANTS t1, t2, s1, s2, s3, u1

SameUser == t1 :> u1 @@ t2 :> u1
=============================================================================
