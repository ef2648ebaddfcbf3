------------------------- MODULE AbstractAllocator -------------------------
(***************************************************************************)
(* What an allocator promises its callers: it hands out pieces of its      *)
(* space, and while a caller holds a piece no other piece overlaps it.     *)
(* Headers, free lists, splitting and merging are the implementation's.    *)
(***************************************************************************)
EXTENDS Integers

CONSTANT Space          \* the addresses the allocator may hand out

VARIABLE held           \* the pieces callers hold, with a ptr and a size

Cells(p) == p.ptr..(p.ptr + p.size - 1)

\* A new piece lies in the space and apart from the ones in `others`.
Apart(p, others) ==
    /\ Cells(p) \subseteq Space
    /\ \A q \in others : Cells(p) \cap Cells(q) = {}

Init == held = {}

Allocate(p) == Apart(p, held) /\ held' = held \cup {p}
Deallocate(p) == held' = held \ {p}
Reallocate(p, q) == Apart(q, held \ {p}) /\ held' = (held \ {p}) \cup {q}

\* The piece that comes is read off the next state.
Next ==
    \/ \E p \in held' \ held : Allocate(p)
    \/ \E p \in held \ held' : Deallocate(p)
    \/ \E p \in held \ held', q \in held' \ held : Reallocate(p, q)

Spec == Init /\ [][Next]_held
=============================================================================
