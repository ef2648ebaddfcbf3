---------------------------- MODULE MCScheduling ----------------------------
(* Scheduling with model values for its processes.                            *)
EXTENDS Scheduling

CONSTANTS p1, p2, p3

=============================================================================
