------------------------------ MODULE MCAgUiTabs ------------------------------
(* AgUiTabs: two runs and an event from outside, a tab that may rejoin once. *)
EXTENDS AgUiTabs, TLC

CONSTANTS r1, r2, x1, a

TabSymmetry == Permutations(Runs)
=============================================================================
