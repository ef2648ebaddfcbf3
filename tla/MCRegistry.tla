----------------------------- MODULE MCRegistry ------------------------------
(* Registry with model values for its processes and names.                    *)
EXTENDS Registry, TLC

CONSTANTS p1, p2, p3, m, n, undefined

Interchangeable == Permutations({p2, p3}) \cup Permutations({m, n})
=============================================================================
