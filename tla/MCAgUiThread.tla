----------------------------- MODULE MCAgUiThread -----------------------------
(* AgUiThread with runs that follow each other, an event from outside, and a *)
(* buffer shorter than a run.                                                *)
EXTENDS AgUiThread

CONSTANTS r1, r2, x1
=============================================================================
