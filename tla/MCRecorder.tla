------------------------------ MODULE MCRecorder ------------------------------
(* Three recordings, of up to two, no and one block of four frames, from a  *)
(* rate of 5 to one of 3, in chunks of three samples, and one lost socket. *)
(* The third is there for what is left of the first two.                   *)
EXTENDS Recorder

Blocks == <<2, 0, 1>>
===============================================================================
