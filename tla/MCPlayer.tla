------------------------------- MODULE MCPlayer -------------------------------
(* Two utterances, of up to two chunks and of one, a prebuffer of two, one  *)
(* lost socket, one clear and one barge-in.                                *)
EXTENDS Player

TwoThenOne == <<2, 1>>
=============================================================================
