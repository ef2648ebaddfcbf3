----------------------------- MODULE HeapSizing -----------------------------
(* How ProcessHeap of liblumen_alloc sizes the heaps of a process: the      *)
(* estimates collect_full and collect_minor make before a collection, what  *)
(* they do with the flags of the process, and when they shrink the heap     *)
(* afterwards.  Everything is counted in words; what a collection keeps is  *)
(* any part of what there was (Collector models which).  A collection holds *)
(* the lock of the heap throughout, so it is one step.                      *)
EXTENDS Naturals, Sequences

CONSTANTS
  HEAP_SIZES,      \* the table of heap sizes, increasing
  LargeHeap,       \* a minor collection shrinks heaps above this (8000 words)
  min_heap_size,
  max_heap_size,   \* 0: no limit
  max_gen_gcs,
  Needs,           \* the words an allocation, a frame or a fragment may need
  MaxWords,        \* bound: words in use
  Messages,        \* whether messages arrive in fragments
  Slices,          \* whether the heap holds sub-binaries of at most 64 bytes
  SharedBinaries   \* whether several references lead to one binary of the kinds
                   \* that leave no forwarding address when they are moved

VARIABLES
  heap_size, heap_used, stack_used, mature,  \* the young heap
  old_size, old_used,                        \* the old heap; old_size is 0 while inactive
  off_heap,        \* the words in the attached fragments
  off_heap_size,   \* the counter the process keeps of them
  gen_gc_count,
  flags,           \* those of GrowHeap and NeedFullSweep that are set
  outcome,         \* how the last collection ended
  need,            \* the words it was asked for
  grow_from        \* the size it was to grow the heap from, 0 without GrowHeap

young == <<heap_size, heap_used, stack_used, mature>>
sizingVars == <<young, old_size, old_used, off_heap, off_heap_size, gen_gc_count, flags, outcome, need,
                grow_from>>

(* The loop past the end of the table: a fifth is added until it suffices *)
Grown[next_size \in Nat, size \in Nat] ==
  IF size >= next_size THEN Grown[next_size + next_size \div 5, size] ELSE next_size

(* The first size of the table above the one asked for, or one past its end *)
next_heap_size(size) ==
  LET larger == {i \in DOMAIN HEAP_SIZES : HEAP_SIZES[i] > size}
  IN  IF larger = {} THEN Grown[HEAP_SIZES[Len(HEAP_SIZES)], size]
      ELSE HEAP_SIZES[CHOOSE i \in larger : \A j \in larger : i <= j]

(* What the proofs take from the constants.  That the sizes grow beyond     *)
(* every request is the exit condition of the two loops of next_heap_size;  *)
(* that they end is an induction over them.                                 *)
SizingAssumption ==
  /\ min_heap_size \in Nat /\ max_gen_gcs \in Nat /\ MaxWords \in Nat /\ Needs \subseteq Nat
  /\ \A size \in Nat : next_heap_size(size) \in Nat /\ next_heap_size(size) > size

heap_available == heap_size - stack_used - heap_used
InUse == heap_used + stack_used + old_used + off_heap + off_heap_size

SizingInit ==
  /\ heap_size = min_heap_size /\ heap_used = 0 /\ stack_used = 0 /\ mature = 0
  /\ old_size = 0 /\ old_used = 0
  /\ off_heap = 0 /\ off_heap_size = 0
  /\ gen_gc_count = 0 /\ flags = {} /\ outcome = "none" /\ need = 0 /\ grow_from = 0

(* Both callers of garbage_collect panic when it returns an error *)
Alive == outcome \in {"none", "ok"}

-----------------------------------------------------------------------------
Mutate(n) ==
  Alive /\ InUse + n <= MaxWords /\ outcome' = "none" /\ need' = 0 /\ grow_from' = 0

Alloc(n) ==
  /\ Mutate(n) /\ n <= heap_available
  /\ heap_used' = heap_used + n
  /\ UNCHANGED <<heap_size, stack_used, mature, old_size, old_used, off_heap, off_heap_size,
                 gen_gc_count, flags>>

Alloca(n) ==
  /\ Mutate(n) /\ n <= heap_available
  /\ stack_used' = stack_used + n
  /\ UNCHANGED <<heap_size, heap_used, mature, old_size, old_used, off_heap, off_heap_size,
                 gen_gc_count, flags>>

AttachFragment(n) ==
  /\ Mutate(2 * n)
  /\ off_heap' = off_heap + n
  /\ off_heap_size' = off_heap_size + n
  /\ UNCHANGED <<young, old_size, old_used, gen_gc_count, flags>>

(* The fragment of a message is attached without being counted *)
SendHeapMessage(n) ==
  /\ Messages /\ Mutate(n)
  /\ off_heap' = off_heap + n
  /\ UNCHANGED <<young, old_size, old_used, off_heap_size, gen_gc_count, flags>>

(* Process::set_flags: a list of arguments that did not fit asks for        *)
(* growth; a full sweep is asked for by the tests of the collector          *)
SetFlags ==
  /\ Mutate(0)
  /\ \E f \in {"GrowHeap", "NeedFullSweep"} \ flags : flags' = flags \cup {f}
  /\ UNCHANGED <<young, old_size, old_used, off_heap, off_heap_size, gen_gc_count>>

NeedsFull == "NeedFullSweep" \in flags \/ gen_gc_count >= max_gen_gcs

-----------------------------------------------------------------------------
Ends(how, n) ==
  /\ outcome' = how /\ need' = n
  /\ grow_from' = IF "GrowHeap" \in flags THEN heap_size ELSE 0

(* A collection that stops early: the error is returned to the caller, or   *)
(* the code panics                                                          *)
Stops(how, n) ==
  /\ Ends(how, n)
  /\ UNCHANGED <<young, old_size, old_used, off_heap, off_heap_size, gen_gc_count, flags>>

PaddedEstimate(n) == stack_used + heap_used + old_used + off_heap_size + n

(* The size of the new heap: growth is only forced where the estimate would *)
(* leave the size as it is                                                  *)
NewSize(n) ==
  LET baseline == next_heap_size(PaddedEstimate(n))
  IN  IF baseline = heap_size /\ "GrowHeap" \in flags THEN next_heap_size(baseline) ELSE baseline

ExceedsMax(size) == max_heap_size > 0 /\ max_heap_size < size

AtLeastMinimum(estimate) ==
  IF estimate < min_heap_size THEN min_heap_size ELSE next_heap_size(estimate)

(* YoungHeap::shrink asserts that the new size is below the old one, and    *)
(* ProcessHeapAlloc::shrink that it is not                                  *)
ShrinkPanics(old, new) == new < old /\ ~(old <= new)

(* The words the copies of live data may take: a sub-binary has six, and is *)
(* copied as a heap binary of two and the bytes, ten for 64 bytes.  Neither *)
(* a sub-binary nor a reference-counted binary is marked as moved, so every *)
(* reference to it makes a copy                                             *)
References == stack_used + heap_used + old_used + off_heap
CopiesOfBinaries == IF SharedBinaries THEN (IF Slices THEN 10 ELSE 6) * References ELSE 0
Copies(words) == words + (IF Slices THEN 4 * (words \div 6) ELSE 0) + CopiesOfBinaries

(* A full sweep also asserts that what it was asked for fits *)
FullSweep(n, live) ==
  LET size == NewSize(n)
      needed_after == n + stack_used + live
      grow == size * 3 < needed_after * 4
      estimate == AtLeastMinimum(needed_after * 2)
      shrink == ~grow /\ size > needed_after * 4 /\ min_heap_size < size /\ estimate < size
  IN  IF ExceedsMax(size) THEN Stops("max_full", n)
      ELSE IF needed_after > size THEN Stops("overrun", n)
      ELSE IF shrink /\ ShrinkPanics(size, estimate) THEN Stops("shrink", n)
      ELSE /\ heap_size' = size
           /\ heap_used' = live /\ mature' = live
           /\ old_size' = 0 /\ old_used' = 0
           /\ off_heap' = 0
           /\ gen_gc_count' = 0
           /\ flags' = IF grow THEN {"GrowHeap"} ELSE {}
           /\ Ends("ok", n)
           /\ UNCHANGED <<stack_used, off_heap_size>>

CollectFull ==
  \E n \in Needs : \E live \in 0..Copies(heap_used + old_used + off_heap) :
     Alive /\ NeedsFull /\ FullSweep(n, live)

-----------------------------------------------------------------------------
SizeBefore == heap_used + off_heap_size

(* What a minor collection expects the process to occupy, compared with the *)
(* limit                                                                    *)
Projected(n) ==
  SizeBefore + (IF old_size = 0 /\ mature > 0 THEN next_heap_size(SizeBefore) ELSE old_used)
             + next_heap_size(stack_used + heap_available + SizeBefore + n)

NewOldSize == IF old_size = 0 /\ mature > 0 THEN next_heap_size(SizeBefore) ELSE old_size

MinorEstimate(n) == stack_used + SizeBefore + n

(* Whether the old heap lacks the room for everything mature *)
OldTooSmall == NewOldSize > 0 /\ mature > NewOldSize - old_used

MinorSweep(n, tenured, kept) ==
  LET size == next_heap_size(MinorEstimate(n))
      needed_after == kept + n + stack_used
      oversized == size > needed_after * 4 /\ (size > LargeHeap \/ size > NewOldSize)
      third == needed_after * 3
      estimate == AtLeastMinimum(IF third * 9 < NewOldSize THEN NewOldSize \div 8 ELSE third)
      shrink == oversized /\ estimate < size
  IN  IF ExceedsMax(Projected(n)) THEN Stops("max_minor", n)
      ELSE IF OldTooSmall
        THEN /\ Ends("fullsweep_required", n)
             /\ old_size' = NewOldSize
             /\ UNCHANGED <<young, old_used, off_heap, off_heap_size, gen_gc_count, flags>>
      ELSE IF old_used + tenured > NewOldSize THEN Stops("old_overrun", n)
      ELSE IF kept + stack_used > size THEN Stops("overrun", n)
      ELSE IF shrink /\ ShrinkPanics(size, estimate) THEN Stops("shrink", n)
      ELSE /\ heap_size' = size
           /\ heap_used' = kept /\ mature' = kept
           /\ old_size' = NewOldSize /\ old_used' = old_used + tenured
           /\ off_heap' = 0
           /\ gen_gc_count' = gen_gc_count + 1
           /\ Ends("ok", n)
           /\ UNCHANGED <<stack_used, off_heap_size, flags>>

(* Only what is below the high water mark is tenured: terms refer to older  *)
(* terms, so the references followed from the old heap find nothing younger *)
CollectMinor ==
  \E n \in Needs : \E tenured \in 0..Copies(mature), kept \in 0..Copies(heap_used - mature + off_heap) :
     Alive /\ ~NeedsFull /\ MinorSweep(n, tenured, kept)

SizingNext ==
  \/ \E n \in Needs : Alloc(n) \/ Alloca(n) \/ AttachFragment(n) \/ SendHeapMessage(n)
  \/ SetFlags
  \/ CollectFull \/ CollectMinor

SizingSpec == SizingInit /\ [][SizingNext]_sizingVars

-----------------------------------------------------------------------------
HeapSizingTypeOK ==
  /\ heap_used + stack_used <= heap_size
  /\ mature <= heap_used
  /\ gen_gc_count <= max_gen_gcs
  /\ flags \subseteq {"GrowHeap", "NeedFullSweep"}

(* Each object is copied once, into no more words than it has *)
CopiesAreExact == ~Slices /\ ~SharedBinaries

(* With exact copies and no fragments of messages, a collection that        *)
(* succeeds leaves the words it was asked for: otherwise the allocation     *)
(* that triggered it fails again (the estimates of collect_full and         *)
(* collect_minor)                                                           *)
RoomForTheNeed == outcome = "ok" => heap_available >= need

(* With exact copies, a minor collection that starts has room in the old    *)
(* heap for everything it tenures, over any number of collections since the *)
(* old heap was allocated (the check for FullsweepRequired): no allocation  *)
(* in the old heap fails, whatever the messages bring                       *)
OldHasRoom == outcome # "old_overrun"

(* With exact copies and no fragments of messages, the estimates hold for   *)
(* the worst case, a collection that frees nothing: the copies and the      *)
(* stack fit the new heap                                                   *)
NothingOverruns == outcome # "overrun"

(* What the docs and comments say and the code does not do.                 *)

(* "On success, the heap metadata is updated to reflect the new size"       *)
(* (YoungHeap::shrink): a heap that is too large is shrunk                  *)
HeapsAreShrunk == outcome # "shrink"

(* "When this error type is returned, a full sweep will be triggered"       *)
(* (collect_minor, of MaxHeapSizeExceeded); builtin_gc_run panics           *)
FullSweepFollows == outcome # "max_minor"

(* "exceeds even the most pessimistic estimate ... this must be a bug!"     *)
(* (the assertion of collect_full): the copies of what is live fit the heap *)
(* sized for them, with messages, slices or shared binaries too             *)
EstimateIsPessimistic == outcome # "overrun"

(* "This flag indicates that the next GC should grow the heap               *)
(* unconditionally" (ProcessFlags::GrowHeap): a collection that starts with *)
(* the flag set leaves a larger heap; collect_minor never reads the flag    *)
GrowthIsUnconditional == outcome = "ok" => heap_size > grow_from

=============================================================================
