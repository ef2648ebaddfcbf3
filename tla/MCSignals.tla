----------------------------- MODULE MCSignals ------------------------------
(* Signals with model values for its processes.                               *)
EXTENDS Signals, TLC

CONSTANTS p1, p2, p3

Others == Permutations({p2, p3})
=============================================================================
