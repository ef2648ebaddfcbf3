--------------------------- MODULE ProcessValues ---------------------------
(* What a process may rely on: each of its variables holds a term, and only *)
(* the process changes it, never a collection.  A term is a tree here;      *)
(* where it is stored, and whether two variables share it, does not show.   *)
(* Collector is shown to implement this module.                             *)
EXTENDS Naturals, Sequences

CONSTANTS
  Slots,    \* the variables of the process
  Kinds,    \* the kinds of term it builds
  Names     \* what tells two binaries apart

VARIABLES value, collecting

(* A constant: an immediate, or a literal of the executable *)
Constant == <<"constant">>

Elements(v) == IF v[1] \in {"tuple", "cons"} THEN {v[2], v[3]} ELSE {}

Known == {Constant} \cup {value[s] : s \in Slots} \cup UNION {Elements(value[s]) : s \in Slots}

IsBinary(v) == v[1] = "binary"

Compounds == Kinds \cap {"tuple", "cons", "map"}
Slices == Kinds \cap {"sub_binary", "heap_sub_binary", "match_context"}

Init == value = [s \in Slots |-> Constant] /\ collecting = FALSE

Build(s) ==
  \/ \E k \in Compounds, x, y \in Known : value' = [value EXCEPT ![s] = <<k, x, y>>]
  \/ "procbin" \in Kinds /\ \E n \in Names : value' = [value EXCEPT ![s] = <<"binary", n>>]
  \/ \E k \in Slices, x \in Known :
        IsBinary(x) /\ value' = [value EXCEPT ![s] = <<"slice", x>>]

Assign(s) == \E x \in Known : value' = [value EXCEPT ![s] = x]

(* A message from another process: a tuple of constants *)
Receive(s) == value' = [value EXCEPT ![s] = <<"tuple", Constant, Constant>>]

Run == ~collecting /\ collecting' = FALSE /\ \E s \in Slots : Build(s) \/ Assign(s) \/ Receive(s)

(* A collection begins or ends, and shows nowhere *)
Collect == collecting' = ~collecting /\ value' = value

Next == Run \/ Collect

Spec == Init /\ [][Next]_<<value, collecting>>
=============================================================================
