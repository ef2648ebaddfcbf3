---------------------------- MODULE NextLargest ----------------------------
(***************************************************************************)
(* binary_search_next_largest, which finds the size class for a request:   *)
(* in a sorted slice, the closest element that is at least as large as the *)
(* value.  Each iteration of its loop is a step.  Indices start at 0, as   *)
(* in the code; the slice is never changed.                                *)
(***************************************************************************)
EXTENDS Integers

CONSTANTS Length,       \* length of the slice
          Values        \* values that elements and requests may have

\* What the theorems about the search assume.
SliceAssumption == Length \in Nat /\ Values \subseteq Int

VARIABLES slice,        \* the slice
          value,        \* the value looked for
          base, count,  \* the part of the slice that is left
          last_largest, \* an index, or None
          phase,        \* "search" or "done"
          found         \* the index returned, or None

searchVars == <<slice, value, base, count, last_largest, phase, found>>

Position == 0..Length - 1
None == -1
Sorted(e) == \A i, j \in Position : i <= j => e[i] <= e[j]

\* An empty slice has no answer.
SearchInit ==
    /\ slice \in [Position -> Values] /\ Sorted(slice)
    /\ value \in Values
    /\ base = 0
    /\ count = Length
    /\ last_largest = None
    /\ phase = IF Length = 0 THEN "done" ELSE "search"
    /\ found = None

Left(n) == n - n \div 2

More(n) == n > 1

\* The element in the middle decides which half is left, or is the answer.
Halve ==
    LET mid == base + count \div 2
    IN  /\ phase = "search" /\ More(count)
        /\ \/ /\ slice[mid] = value /\ found' = mid /\ phase' = "done"
              /\ UNCHANGED <<base, count, last_largest>>
           \/ /\ slice[mid] > value /\ last_largest' = mid /\ count' = Left(count)
              /\ UNCHANGED <<base, phase, found>>
           \/ /\ slice[mid] < value /\ base' = mid /\ count' = Left(count)
              /\ UNCHANGED <<last_largest, phase, found>>
        /\ UNCHANGED <<slice, value>>

Answer == IF slice[base] < value THEN last_largest ELSE base

Finish ==
    /\ phase = "search" /\ ~More(count)
    /\ found' = Answer
    /\ phase' = "done"
    /\ UNCHANGED <<slice, value, base, count, last_largest>>

SearchNext == Halve \/ Finish

SearchSpec == SearchInit /\ [][SearchNext]_searchVars

(***************************************************************************)
(* Properties                                                              *)
(***************************************************************************)
SearchTypeOK ==
    /\ slice \in [Position -> Values] /\ Sorted(slice)
    /\ value \in Values
    /\ base \in Nat /\ count \in Nat
    /\ last_largest \in Position \cup {None}
    /\ phase \in {"search", "done"}
    /\ found \in Position \cup {None}

\* No element read lies outside the slice: the code reads without a check.
InBounds == phase = "search" => count >= 1 /\ base + count <= Length

\* The function's comment: the element "that is the closest match to the
\* provided value, and at least as large".
Found ==
    phase = "done" =>
        IF found = None THEN \A i \in Position : slice[i] < value
        ELSE /\ slice[found] >= value
             /\ \A i \in Position : slice[i] >= value => slice[found] <= slice[i]

\* The strengthening: what lies below base is too small, and last_largest, if
\* there is one, is larger and not behind the end of the part that is left;
\* without one that part reaches to the end of the slice.
Searching ==
    phase = "search" =>
        /\ base > 0 => slice[base] < value
        /\ last_largest = None => base + count = Length
        /\ last_largest # None => /\ slice[last_largest] > value
                                  /\ base < last_largest /\ last_largest <= base + count

=============================================================================
