------------------------------ MODULE UniqueIds ------------------------------
(* What a source of process identifiers promises: no identifier is handed out *)
(* twice.                                                                      *)
CONSTANT Id

VARIABLES
    used,   \* the identifiers that were handed out
    id      \* the one that was handed out last, if any was

Init ==
    /\ used = {}
    /\ id \in Id

Take(new) ==
    /\ new \notin used
    /\ used' = used \cup {new}
    /\ id' = new

Next == \E new \in Id : Take(new)

Spec == Init /\ [][Next]_<<used, id>>
=============================================================================
