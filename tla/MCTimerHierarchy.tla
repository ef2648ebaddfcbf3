-------------------------- MODULE MCTimerHierarchy --------------------------
(* A small timer hierarchy for TLC: wheels of four slots, so that the soon
   wheel spans 4 ms, the later wheel 8 ms, and deadlines reach the long-term
   slot. *)
EXTENDS TimerHierarchy
=============================================================================
