--------------------------- MODULE CollectorTerms ---------------------------
(* What the process sees of its collector: the terms its variables stand    *)
(* for.                                                                     *)
EXTENDS Collector

(* The term an address stands for, seen through the move markers while the  *)
(* collector runs: the process itself does not know of them.  A binary is   *)
(* told by its name; whether it is still there is the business of its       *)
(* reference count.                                                         *)
RECURSIVE Term(_)
Term(a) ==
  IF a = Constant THEN <<"constant">>
  ELSE IF ~IsLive(a) THEN <<"dangling">>
  ELSE LET obj == Object(a)
       IN  CASE obj.kind = "moved" -> IF gc.phase = "idle" THEN <<"dangling">> ELSE Term(obj.to)
             [] obj.kind = "procbin" -> <<"binary", obj.bin>>
             [] obj.kind = "heapbin" -> obj.bytes
             [] obj.kind \in Slices -> <<"slice", Term(obj.elements[1])>>
             [] OTHER -> <<obj.kind, Term(obj.elements[1]), Term(obj.elements[2])>>

(* A collection is invisible to the process: whatever is moved, and in      *)
(* whatever order, every variable keeps its term, at every word the         *)
(* collector sweeps (sweep_root, sweep_term, the move markers)              *)
Values == INSTANCE ProcessValues WITH
  Slots <- 1..Slots, Names <- 1..MaxObjects,
  value <- [s \in 1..Slots |-> Term(roots[s])], collecting <- gc.phase # "idle"
CollectionIsInvisible == Values!Spec
=============================================================================
