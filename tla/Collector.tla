----------------------------- MODULE Collector -----------------------------
(* The garbage collector of a process of liblumen_alloc: a young and an old *)
(* heap, heap fragments, minor collections that tenure what survived the    *)
(* previous one, and full sweeps.  A heap is the sequence of the objects    *)
(* allocated in it, an address a heap and a place in it, and the collector  *)
(* proceeds one word at a time, as sweep_root and sweep_term do.  How large *)
(* a heap is made is left out: an allocation may find the young heap full   *)
(* at any time.                                                             *)
EXTENDS Integers, Sequences, FiniteSets, Functions

CONSTANTS
  Slots,          \* how many roots: slots of the native and the process stack, dictionary entries
  Kinds,          \* the kinds of object the process builds
  max_gen_gcs,    \* minor collections between two full sweeps
  MaxObjects,     \* bound: objects built
  MaxGcs,         \* bound: collections
  MaxMessages     \* bound: messages received

ASSUME CollectorAssumption == Slots \in Nat

VARIABLES
  heap,           \* the live heaps and fragments: the sequence of objects of each
  young, old,     \* the two generations; old is NoHeap while inactive
  high_water_mark,\* objects of the young heap that survived a collection
  off_heap,       \* the fragments attached to the process
  roots,          \* what each slot holds
  mailbox,        \* the messages not received yet
  linked,         \* the ProcBins linked to the virtual heap of each heap
  binaries,       \* the reference count of each binary and, as history, whether
                  \* it was ever linked to a virtual heap
  gen_gc_count,
  gc,             \* the collection under way
  panic,
  built, gcs, fresh   \* bounded counters, and the next unused heap

vars == <<heap, young, old, high_water_mark, off_heap, roots, mailbox, linked, binaries,
          gen_gc_count, gc, panic, built, gcs, fresh>>

NoHeap == 0
Constant == <<>>      \* an immediate, or a pointer to a literal: never swept

Compounds == Kinds \cap {"tuple", "cons", "map"}
Slices == Kinds \cap {"sub_binary", "heap_sub_binary", "match_context"}

Object(a) == heap[a[1]][a[2]]
IsLive(a) == a[1] \in DOMAIN heap /\ a[2] <= Len(heap[a[1]])
Moved(dst) == [kind |-> "moved", to |-> dst]
Compound(k, x, y) == [kind |-> k, elements |-> <<x, y>>]
ProcBin(n) == [kind |-> "procbin", elements |-> <<>>, bin |-> n]
Slice(k, x) == [kind |-> k, elements |-> <<x>>]
HeapBin(v) == [kind |-> "heapbin", elements |-> <<>>, bytes |-> v]

(* The words IterMut hands to sweep_term: of a tuple, a closure or a cons   *)
(* cell its elements, of anything else the header alone, which lies in the  *)
(* target already                                                           *)
Walked(obj) == IF obj.kind \in {"tuple", "cons"} THEN obj.elements ELSE <<>>

(* The bytes a slice shows are those of its binary, if that is still there  *)
Shown(obj) ==
  LET original == obj.elements[1]
  IN  <<"slice", IF IsLive(original) THEN <<"binary", Object(original).bin>> ELSE <<"dangling">>>>

(* The heaps and the virtual heaps with new ones                            *)
With(f, new, content) ==
  [h \in DOMAIN f \cup new |-> IF h \in new THEN content ELSE f[h]]

-----------------------------------------------------------------------------
Idle == [phase |-> "idle", full |-> FALSE, source |-> NoHeap, target |-> NoHeap,
         old_top |-> 0, at |-> <<0, 0>>]

Init ==
  /\ heap = [h \in {1} |-> <<>>]
  /\ young = 1 /\ old = NoHeap /\ high_water_mark = 0 /\ off_heap = {}
  /\ roots = [s \in 1..Slots |-> Constant]
  /\ mailbox = <<>>
  /\ linked = [h \in {1} |-> {}]
  /\ binaries = <<>>
  /\ gen_gc_count = 0 /\ gc = Idle /\ panic = "none"
  /\ built = 0 /\ gcs = 0 /\ fresh = 2

Running == gc.phase = "idle" /\ panic = "none"

(* What the process can name: its variables, and the elements of a tuple or *)
(* a list one of them holds                                                 *)
Elements(a) == IF a # Constant /\ IsLive(a) THEN Range(Walked(Object(a))) ELSE {}

Known == {Constant} \cup Range(roots) \cup UNION {Elements(roots[s]) : s \in DOMAIN roots}

IsBinary(a) == a # Constant /\ IsLive(a) /\ Object(a).kind = "procbin"

(* An allocation goes to the young heap, or, when that is full, to a fresh  *)
(* fragment attached to the process.  A fragment has no virtual heap: the   *)
(* ProcBin in one is linked nowhere                                         *)
Allocate(obj, at) ==
  /\ built < MaxObjects
  /\ built' = built + 1
  /\ \/ /\ at = <<young, Len(heap[young]) + 1>>
        /\ heap' = [heap EXCEPT ![young] = Append(@, obj)]
        /\ linked' = IF obj.kind = "procbin" THEN [linked EXCEPT ![young] = @ \cup {at}]
                     ELSE linked
        /\ UNCHANGED <<off_heap, fresh>>
     \/ /\ at = <<fresh, 1>>
        /\ heap' = With(heap, {fresh}, <<obj>>)
        /\ off_heap' = off_heap \cup {fresh}
        /\ linked' = With(linked, {fresh}, {})
        /\ fresh' = fresh + 1

Unmoved == <<young, old, high_water_mark, gen_gc_count, gc, panic, gcs>>

Counted(count, managed) == [refc |-> count, managed |-> managed]

Places == {<<young, Len(heap[young]) + 1>>, <<fresh, 1>>}

BuildCompound(s) ==
  \E k \in Compounds, x, y \in Known, at \in Places :
     /\ Running
     /\ Allocate(Compound(k, x, y), at)
     /\ roots' = [roots EXCEPT ![s] = at]
     /\ UNCHANGED <<Unmoved, mailbox, binaries>>

BuildProcBin(s) ==
  \E at \in Places :
     /\ Running
     /\ "procbin" \in Kinds
     /\ Allocate(ProcBin(Len(binaries) + 1), at)
     /\ binaries' = Append(binaries, Counted(1, at[1] = young))
     /\ roots' = [roots EXCEPT ![s] = at]
     /\ UNCHANGED <<Unmoved, mailbox>>

BuildSlice(s) ==
  \E k \in Slices, x \in Known, at \in Places :
     /\ Running
     /\ IsBinary(x)
     /\ Allocate(Slice(k, x), at)
     /\ roots' = [roots EXCEPT ![s] = at]
     /\ UNCHANGED <<Unmoved, mailbox, binaries>>

Assign(s) ==
  /\ Running
  /\ \E x \in Known \ {roots[s]} : roots' = [roots EXCEPT ![s] = x]
  /\ UNCHANGED <<Unmoved, heap, off_heap, mailbox, linked, binaries, built, fresh>>

(* send_heap_message: the sender has cloned the message into a fragment *)
SendHeapMessage ==
  /\ Running
  /\ Len(mailbox) < MaxMessages
  /\ \E at \in Places :
        /\ at[1] = fresh
        /\ Allocate(Compound("tuple", Constant, Constant), at)
        /\ mailbox' = Append(mailbox, at)
  /\ UNCHANGED <<Unmoved, roots, binaries>>

(* The message is matched, which follows the pointer to it *)
ReceiveMessage(s) ==
  /\ Running
  /\ mailbox # <<>>
  /\ IF IsLive(Head(mailbox))
       THEN roots' = [roots EXCEPT ![s] = Head(mailbox)] /\ panic' = "none"
       ELSE roots' = roots /\ panic' = "undefined"
  /\ mailbox' = Tail(mailbox)
  /\ UNCHANGED <<heap, young, old, high_water_mark, off_heap, linked, binaries, gen_gc_count, gc,
                 built, gcs, fresh>>

-----------------------------------------------------------------------------
(* Whether an address lies in what the collection type calls its target *)
InTarget(a) ==
  IF gc.full THEN a[1] = gc.target
  ELSE IF gc.phase = "tenured" THEN a[1] = old
  ELSE a[1] \in {gc.target, old}

(* Variant: what lies in a fragment is tenured too *)
GetGenerationAnywhere(a) ==
  IF gc.full \/ old = NoHeap THEN gc.target
  ELSE IF gc.phase = "tenured" \/ a[1] # gc.source \/ a[2] <= high_water_mark THEN old
  ELSE gc.target

(* The heap an object is moved to: in a minor collection the old generation *)
(* when it lies below the high water mark of the source                     *)
GetGeneration(a) ==
  IF gc.full THEN gc.target
  ELSE IF gc.phase = "tenured" \/ (a[1] = gc.source /\ a[2] <= high_water_mark) THEN old
  ELSE gc.target

(* The virtual heap a moved ProcBin is linked to: the target's, which for a *)
(* minor collection is the semispace heap, whose virtual_alloc is its young *)
(* generation's                                                             *)
VirtualTarget == IF gc.phase = "tenured" THEN old ELSE gc.target

(* Where source.virtual_contains looks: the heaps of the collection's source *)
VirtualSources == IF gc.full THEN {gc.source, old} \ {NoHeap} ELSE {gc.source}

(* What a sweep leaves: the heaps, the virtual heaps, and the word that     *)
(* replaces the one that held the address swept                             *)
Left(h, l, p, w) == [heap |-> h, linked |-> l, panic |-> p, word |-> w]

(* Variant: a moved ProcBin is unlinked and not linked again *)
Unlinked(a, dst) ==
  [h \in DOMAIN linked |-> IF h \in VirtualSources THEN linked[h] \ {a} ELSE linked[h]]

Relinked(a, dst) ==
  [h \in DOMAIN linked |-> (IF h \in VirtualSources THEN linked[h] \ {a} ELSE linked[h])
                             \cup (IF h = VirtualTarget THEN {dst} ELSE {})]

(* SemispaceHeap::virtual_unlink insists on the young generation *)
Unlink(a) == IF gc.full /\ old # NoHeap /\ a \in linked[old] THEN "unlink" ELSE "none"

(* The sweep of one object into dst.  A cons cell, and everything with a    *)
(* generic header, leaves a move marker behind; a ProcBin and a sub-binary  *)
(* leave none.  A small sub-binary is copied out into a heap binary.        *)
SweepObject(a, dst) ==
  LET obj == Object(a)
      Copied(o) == [heap EXCEPT ![dst[1]] = Append(@, o)]
  IN  CASE obj.kind = "procbin" -> Left(Copied(obj), Relinked(a, dst), Unlink(a), dst)
        [] obj.kind = "sub_binary" -> Left(Copied(obj), linked, "none", dst)
        [] obj.kind = "heap_sub_binary" -> Left(Copied(HeapBin(Shown(obj))), linked, "none", dst)
        [] OTHER -> Left([Copied(obj) EXCEPT ![a[1]] = [@ EXCEPT ![a[2]] = Moved(dst)]],
                         linked, "none", dst)

(* Variant: a move marker is taken for a term *)
SweepTermTwice(a) ==
  IF a = Constant THEN Left(heap, linked, "none", a)
  ELSE IF ~IsLive(a) THEN Left(heap, linked, "undefined", a)
  ELSE IF InTarget(a) THEN Left(heap, linked, "none", a)
  ELSE LET generation == GetGeneration(a)
       IN  SweepObject(a, <<generation, Len(heap[generation]) + 1>>)

(* sweep_term, for the word that holds a.  To follow a dangling pointer is  *)
(* undefined; the model stops there.                                        *)
SweepTerm(a) ==
  IF a = Constant THEN Left(heap, linked, "none", a)
  ELSE IF ~IsLive(a) THEN Left(heap, linked, "undefined", a)
  ELSE IF Object(a).kind = "moved" THEN Left(heap, linked, "none", Object(a).to)
  ELSE IF InTarget(a) THEN Left(heap, linked, "none", a)
  ELSE LET generation == GetGeneration(a)
       IN  SweepObject(a, <<generation, Len(heap[generation]) + 1>>)

-----------------------------------------------------------------------------
Unbuilt == <<off_heap, mailbox, binaries, built>>

(* collect_full, up to the collector: the new young heap is allocated *)
StartFull ==
  /\ Running /\ gcs < MaxGcs
  /\ gcs' = gcs + 1
  /\ gc' = [Idle EXCEPT !.phase = "roots", !.full = TRUE, !.source = young,
                        !.target = fresh, !.at = <<1, 1>>]
  /\ heap' = With(heap, {fresh}, <<>>)
  /\ linked' = With(linked, {fresh}, {})
  /\ fresh' = fresh + 1
  /\ UNCHANGED <<Unbuilt, young, old, high_water_mark, roots, gen_gc_count, panic>>

(* collect_minor, up to the collector: an old heap is allocated when there  *)
(* is none and something has matured, then the new young heap               *)
StartMinor ==
  LET new_old == IF old = NoHeap /\ high_water_mark > 0 THEN {fresh + 1} ELSE {}
      new == {fresh} \cup new_old
  IN  /\ Running /\ gcs < MaxGcs
      /\ gen_gc_count < max_gen_gcs
      /\ gcs' = gcs + 1
      /\ old' = IF new_old = {} THEN old ELSE fresh + 1
      /\ young' = fresh
      /\ gc' = [Idle EXCEPT !.phase = "roots", !.source = young, !.target = fresh,
                            !.old_top = IF old = NoHeap THEN 0 ELSE Len(heap[old]),
                            !.at = <<1, 1>>]
      /\ heap' = With(heap, new, <<>>)
      /\ linked' = With(linked, new, {})
      /\ fresh' = IF new_old = {} THEN fresh + 1 ELSE fresh + 2
      /\ UNCHANGED <<Unbuilt, high_water_mark, roots, gen_gc_count, panic>>

Kept == <<young, old, high_water_mark, gen_gc_count, gcs, fresh>>

SweepRoot ==
  LET s == gc.at[1]
      left == SweepTerm(roots[s])
  IN  /\ gc.phase = "roots" /\ panic = "none"
      /\ s \in DOMAIN roots
      /\ heap' = left.heap /\ linked' = left.linked /\ panic' = left.panic
      /\ roots' = [roots EXCEPT ![s] = left.word]
      /\ gc' = [gc EXCEPT !.at = <<s + 1, 1>>]
      /\ UNCHANGED <<Unbuilt, Kept>>

RootsSwept ==
  /\ gc.phase = "roots" /\ panic = "none"
  /\ gc.at[1] > Len(roots)
  /\ gc' = [gc EXCEPT !.phase = "scan", !.at = <<1, 1>>]
  /\ UNCHANGED <<Unbuilt, Kept, heap, linked, roots, panic>>

(* The heap IterMut walks: the new young heap, then, after a minor          *)
(* collection that tenured something, the old one                           *)
Scanned == IF gc.phase = "tenured" THEN old ELSE gc.target

Scanning == gc.phase \in {"scan", "tenured"} /\ panic = "none"
AtEnd == gc.at[1] > Len(heap[Scanned])

(* IterMut::next, and the sweep of the word it hands out *)
SweepWord ==
  LET at == gc.at
      walked == Walked(heap[Scanned][at[1]])
  IN  /\ Scanning /\ ~AtEnd
      /\ IF at[2] <= Len(walked)
           THEN LET left == SweepTerm(walked[at[2]])
                IN  /\ heap' = [left.heap EXCEPT ![Scanned] =
                                  [@ EXCEPT ![at[1]].elements[at[2]] = left.word]]
                    /\ linked' = left.linked /\ panic' = left.panic
                    /\ gc' = [gc EXCEPT !.at[2] = at[2] + 1]
           ELSE /\ gc' = [gc EXCEPT !.at = <<at[1] + 1, 1>>]
                /\ UNCHANGED <<heap, linked, panic>>
      /\ UNCHANGED <<Unbuilt, Kept, roots>>

(* Variant: what was tenured is not swept for references to the source *)
HasTenuredNever == FALSE

(* If the minor collection tenured anything, a ReferenceCollection follows *)
HasTenured == ~gc.full /\ gc.phase = "scan" /\ old # NoHeap /\ Len(heap[old]) > gc.old_top

SweepTenured ==
  /\ Scanning /\ AtEnd /\ HasTenured
  /\ gc' = [gc EXCEPT !.phase = "tenured", !.at = <<1, 1>>]
  /\ UNCHANGED <<Unbuilt, Kept, heap, linked, roots, panic>>

(* The source is dropped, the old heap too after a full sweep, and with     *)
(* each its virtual heap; sweep_off_heap drops the fragments                *)
Dropped == {gc.source} \cup off_heap \cup (IF gc.full THEN {old} \ {NoHeap} ELSE {})

IsTerm(a) == a # Constant /\ IsLive(a)

(* How often the release of the term at address a drops binary n, when it   *)
(* walks terms of these kinds                                               *)
Drops(n, a, kinds) ==
  LET walk[b \in UNION {{<<h, i>> : i \in DOMAIN heap[h]} : h \in DOMAIN heap}] ==
        LET obj == Object(b)
            under(i) == IF IsTerm(obj.elements[i]) THEN walk[obj.elements[i]] ELSE 0
        IN  IF obj.kind = "procbin" THEN IF obj.bin = n THEN 1 ELSE 0
            ELSE IF obj.kind \in kinds THEN under(1) + under(2) ELSE 0
  IN  IF IsTerm(a) THEN walk[a] ELSE 0

(* HeapFragment::drop releases what the first word of the fragment leads    *)
(* to.  A header is skipped: nothing that stayed is released, except the    *)
(* head of a cons cell.  A move marker is a pointer to the new object, and  *)
(* is followed; a cons cell's has no value.                                 *)
FirstWord(h) ==
  LET obj == heap[h][1]
  IN  IF obj.kind = "moved" /\ Object(obj.to).kind # "cons" THEN obj.to
      ELSE IF obj.kind = "cons" THEN obj.elements[1] ELSE Constant

(* A list is released up to a head that is nil, and the head of a cons cell *)
(* that stayed may lead to memory that was given back: whatever is reached  *)
(* through a cons cell may be released or not                               *)
Releases ==
  LET certain(n) == SumFunction([h \in off_heap |-> IF heap[h][1].kind = "cons" THEN 0
                                                    ELSE Drops(n, FirstWord(h), {"tuple"})])
      possible == [n \in DOMAIN binaries |->
                     SumFunction([h \in off_heap |-> Drops(n, FirstWord(h), {"tuple", "cons"})])]
  IN  {times \in [DOMAIN binaries -> 0..SumFunction(possible)] :
         \A n \in DOMAIN binaries : certain(n) <= times[n] /\ times[n] <= possible[n]}

(* The drop that takes the count from one to zero decrements it once more   *)
(* (drop_slow) and finds zero there, so the memory is never given back.     *)
(* The count wraps around: -1 stands for usize::MAX.                        *)
Decremented(count, times) ==
  IF 0 < count /\ count <= times THEN count - times - 1 ELSE count - times

Finish ==
  LET kept == DOMAIN heap \ Dropped
      Links(n, heaps) == {a \in UNION {linked[h] : h \in heaps} : Object(a).bin = n}
  IN  /\ Scanning /\ AtEnd /\ ~HasTenured
      /\ heap' = [h \in kept |-> heap[h]]
      /\ linked' = [h \in kept |-> linked[h]]
      /\ \E times \in Releases :
           binaries' = [n \in DOMAIN binaries |->
             Counted(Decremented(binaries[n].refc, Cardinality(Links(n, Dropped)) + times[n]),
                     binaries[n].managed \/ Links(n, kept) # {})]
      /\ off_heap' = {}
      /\ young' = gc.target
      /\ old' = IF gc.full THEN NoHeap ELSE old
      /\ high_water_mark' = Len(heap[gc.target])
      /\ gen_gc_count' = IF gc.full THEN 0 ELSE gen_gc_count + 1
      /\ gc' = Idle
      /\ UNCHANGED <<roots, mailbox, panic, built, gcs, fresh>>

Next ==
  \/ \E s \in DOMAIN roots : \/ BuildCompound(s) \/ BuildProcBin(s) \/ BuildSlice(s)
                             \/ Assign(s) \/ ReceiveMessage(s)
  \/ SendHeapMessage
  \/ StartFull \/ StartMinor
  \/ SweepRoot \/ RootsSwept \/ SweepWord \/ SweepTenured \/ Finish

Spec == Init /\ [][Next]_vars

-----------------------------------------------------------------------------
Addresses(h) == {<<h, i>> : i \in DOMAIN heap[h]}
References(a) == IF Object(a).kind = "moved" THEN {}
                 ELSE Range(Object(a).elements) \ {Constant}
Generations == {young, old} \ {NoHeap}
Contents == UNION {Addresses(h) : h \in Generations}

(* Between collections nothing either generation holds, reachable or not,   *)
(* points into a heap that was given back (the drop of the source heap, of  *)
(* the old heap after a full sweep, and of the fragments)                   *)
NothingDangles == Running => \A a \in Contents : \A b \in References(a) : IsLive(b)

(* "references are always to objects of an older generation, or the same    *)
(* generation, but never backwards to a younger generation" (the doc of     *)
(* SemispaceHeap)                                                           *)
NeverBackwards ==
  Running /\ old # NoHeap =>
    \A a \in Addresses(old) : \A b \in References(a) : b[1] = old

(* Both together: what a collection leaves can be followed without harm,    *)
(* and the old generation can be left alone by the next minor collection    *)
ReferencesAreSound == NothingDangles /\ NeverBackwards

(* Exactly what survived the collection before is tenured: of the source,   *)
(* what lies below the high water mark goes to the old generation and the   *)
(* rest to the young one, whichever of its references is swept first        *)
(* (get_generation, and the ReferenceCollection that follows)               *)
TenuredAreMature ==
  gc.phase # "idle" /\ ~gc.full =>
    \A h \in {gc.source} \cup off_heap : \A a \in Addresses(h) :
       Object(a).kind = "moved" =>
         (Object(a).to[1] = old <=> (h = gc.source /\ a[2] <= high_water_mark))

(* Once a ProcBin is linked to a virtual heap, its binary stays linked to   *)
(* that of a generation until it is released, however often the ProcBin is  *)
(* moved (virtual_unlink, virtual_alloc, virtual_clear)                     *)
IsLinked(n) == \E h \in Generations : \E a \in linked[h] : Object(a).bin = n
CountedAreLinked ==
  Running => \A n \in DOMAIN binaries :
    binaries[n].managed /\ binaries[n].refc > 0 => IsLinked(n)

(* What the comments say of the collector and the code does not do.         *)

(* The fragments "should have had any live references moved out by the time *)
(* this is called" (sweep_off_heap): a message that was not received yet is *)
(* still there                                                              *)
MessagesSurvive == Running => \A i \in DOMAIN mailbox : IsLive(mailbox[i])

Survive(kind) ==
  Running => \A a \in Contents : Object(a).kind = kind => \A b \in References(a) : IsLive(b)

(* "It is a precise/tracing collector" (ProcessCollector): the keys and     *)
(* values of a live map are live                                            *)
MapEntriesSurvive == Survive("map")

(* "When we encounter a header for a match context, check if we should also *)
(* move its referenced binary" (sweep_term)                                 *)
MatchedBinariesSurvive == Survive("match_context")

(* "we don't need to worry about it being collected out from under us, as   *)
(* we count as a reference" (the sweep of a sub-binary too large to become  *)
(* a heap binary)                                                           *)
OriginalsSurvive == Survive("sub_binary")

(* "Link to destination virtual heap" (the sweep of a ProcBin): a ProcBin   *)
(* is linked to the virtual heap of the heap it lies in                     *)
LinkedWhereTheyLie == Running => \A h \in Generations : \A a \in linked[h] : a[1] = h

(* "This handles unlinking from either young or old generation in those     *)
(* cases where the gc type is full" (the sweep of a ProcBin)                *)
UnlinksEitherGeneration == panic # "unlink"

(* "Place move marker in previous heap position pointing to new heap        *)
(* position" (ProcessCollector): an object is moved once, so the ProcBins   *)
(* of a binary are as many as its reference count says                      *)
ProcBinsAreCounted ==
  Running => \A n \in DOMAIN binaries :
    Cardinality({a \in UNION {linked[h] : h \in Generations} : Object(a).bin = n})
      <= binaries[n].refc

(* "Check if the contained value needs to have its destructor run" (the     *)
(* drop of a fragment): a binary that was not released has a ProcBin in the *)
(* virtual heap of a generation or in a fragment, to release it later       *)
NoBinaryLeaks ==
  Running => \A n \in DOMAIN binaries :
    binaries[n].refc > 0 => IsLinked(n) \/ \E h \in off_heap : heap[h][1] = ProcBin(n)

(* "moved terms are always considered live during GC, and should not be     *)
(* released" (Release): the binaries of a tuple that a variable holds have  *)
(* not been released                                                        *)
MovedAreNotReleased ==
  Running => \A s \in DOMAIN roots : \A x \in Elements(roots[s]) :
    IsBinary(x) => binaries[Object(x).bin].refc > 0

=============================================================================
