----------------------------- MODULE MCMediaIntake -----------------------------
(* MediaIntake with a queue of two and more chunks than fit, so that feed    *)
(* and end both meet a full queue, with and without deadlines.               *)
EXTENDS MediaIntake
=============================================================================
