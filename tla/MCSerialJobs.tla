----------------------------- MODULE MCSerialJobs -----------------------------
(* SerialJobs with a worker for every job and two cancels: a submit between  *)
(* the two, and a worker that outlives its cancel, both happen.              *)
EXTENDS SerialJobs

CONSTANTS j1, j2, j3, w1, w2, w3, c1, c2
=============================================================================
