------------------------------- MODULE MCUiKits -------------------------------
(* Three connections: two of one member, one of another. The recordings of *)
(* MCRecorder and the utterances of MCPlayer.                              *)
EXTENDS UiKits

Owners == <<"a", "a", "b">>
Blocks == <<2, 0, 1>>
TwoThenOne == <<2, 1>>
===============================================================================
