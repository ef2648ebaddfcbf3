---------------------------- MODULE BlockCarrier ----------------------------
(***************************************************************************)
(* A multi-block carrier: a region cut into blocks that tile it, each with *)
(* a header word (usable size and three flags), free blocks tracked in a   *)
(* pair of trees and closed by a footer word.  Addresses and sizes are in  *)
(* units of which `Word` make a machine word, so sizes that are no whole   *)
(* number of words exist.  A block is named by the address of its header.  *)
(*                                                                         *)
(* The caller holds the allocator's lock, so every operation is one step.  *)
(* `fault` records the assertion an operation failed, or that it gave out  *)
(* memory or followed a pointer beyond a block.  Nothing is said of what   *)
(* happens after a fault.                                                  *)
(***************************************************************************)
EXTENDS Integers, FiniteSets, FiniteSetsExt, Functions

CONSTANTS Word,         \* units in a word
          Head,         \* address of the first header, behind the carrier's own
          Size,         \* size of the carrier, its header included
          Layouts,      \* the requests: records of a size and an alignment
          Outgrows,     \* may callers grow data in place past the end of its block?
          MaxLive       \* bound on the allocations that live at once

ASSUME CarrierAssumption ==
    /\ Word \in Nat \ {0}
    /\ Head \in Nat /\ Head % Word = 0
    /\ Size \in Nat /\ Head + 9 * Word <= Size
    /\ Layouts \subseteq [size : Nat \ {0}, align : Nat \ {0}]
    /\ Outgrows \in BOOLEAN

VARIABLES blk,          \* header of every block: usable size and flags
          foot,         \* footer words in front of the headers
          tree,         \* the blocks linked into the free trees
          live,         \* what callers hold: a pointer and the layout's size
          fault         \* "none", or what went wrong

carrierVars == <<blk, foot, tree, live, fault>>

MinBlockSize == 8 * Word
AlignUp(ptr, align) == ((ptr + align - 1) \div align) * align
Larger(a, b) == IF a > b THEN a ELSE b
Data(b) == b + Word
End(h, b) == Data(b) + h[b].size

(***************************************************************************)
(* Blocks: neighbours, ownership                                           *)
(***************************************************************************)
HasNext(h, b) == ~h[b].last
NextBlock(h, b) == End(h, b)

\* The footer word lies right in front of the header.  The offset counts the
\* header once more, although the footer itself is inside the usable size.
PrevPtr(f, b) == (b - Word) - (f[b - Word] + Word)

Owns(h, b, ptr) == ptr >= b /\ ptr <= End(h, b)
Owner(ptr) == Min({b \in DOMAIN blk : Owns(blk, b, ptr)})

(***************************************************************************)
(* What the operations return: the memory they leave, or a fault           *)
(***************************************************************************)
Mem(h, f, t) == [blk |-> h, foot |-> f, tree |-> t, fault |-> "none"]
Fault(m, what) == [m EXCEPT !.fault = what]

SetPrevFree(h, b, flag) == [h EXCEPT ![b].prev_free = flag]
\* Variant: alloc_block leaves the neighbour's flag as it was.
FlagNextOnlySet(h, b, flag) ==
    IF HasNext(h, b) /\ flag THEN SetPrevFree(h, NextBlock(h, b), flag) ELSE h
FlagNext(h, b, flag) ==
    IF HasNext(h, b) THEN SetPrevFree(h, NextBlock(h, b), flag) ELSE h
WithFooter(f, at, size) == [a \in DOMAIN f \cup {at} |-> IF a = at THEN size ELSE f[a]]
WithBlock(h, b, header) == [a \in DOMAIN h \cup {b} |-> IF a = b THEN header ELSE h[a]]

\* Only a word in front of a header is ever read as a footer.
Fronts(h, f) == Restrict(f, {a \in DOMAIN f : a + Word \in DOMAIN h})

(***************************************************************************)
(* FreeBlocks                                                              *)
(***************************************************************************)
PadToAlign(layout) == AlignUp(layout.size, layout.align)
Fits(h, b, layout) == h[b].size >= PadToAlign(layout)
\* The tree runs from the largest block to the smallest, equal ones by
\* address; the last block before the first that is too small is taken.
FindBestFit(m, layout) ==
    LET fit  == {b \in m.tree : Fits(m.blk, b, layout)}
        best == {b \in fit : \A c \in fit : m.blk[b].size <= m.blk[c].size}
    IN  IF fit = {} THEN {} ELSE {Max(best)}

\* insert() and remove() link a block into both trees and out of them.
Insert(m, b) == [m EXCEPT !.tree = @ \cup {b}]
Remove(m, b) ==
    IF b \in m.tree THEN [m EXCEPT !.tree = @ \ {b}] ELSE Fault(m, "remove of an unlinked block")

(***************************************************************************)
(* FreeBlock                                                               *)
(***************************************************************************)
Padding(b, layout) == AlignUp(Data(b), layout.align) - Data(b)
\* Variant: the padding is not counted.
RealSizeUnpadded(b, layout) == Larger(layout.size, MinBlockSize)
RealSize(b, layout) == Larger(layout.size, MinBlockSize) + Padding(b, layout)
CanAlloc(h, b, layout) == h[b].free /\ h[b].size >= RealSize(b, layout)

SplitSize(h, b, layout) == h[b].size - RealSize(b, layout)
CanSplit(h, b, layout) == SplitSize(h, b, layout) > MinBlockSize

\* The footer is placed from the split block's header, not from its data.
SplitFooterAt(split, usable) == split + usable - Word

\* The block b is cut behind the size it needs and the rest is a free block.
TrySplit(m, b, layout) ==
    LET size   == RealSize(b, layout)
        usable == SplitSize(m.blk, b, layout) - Word
        split  == Data(b) + size
        header == [size |-> usable, free |-> TRUE, prev_free |-> FALSE, last |-> m.blk[b].last]
        h      == [m.blk EXCEPT ![b].size = size, ![b].last = FALSE]
    IN  IF usable < MinBlockSize THEN Fault(m, "new block below the minimum size")
        ELSE Insert(Mem(WithBlock(h, split, header),
                        WithFooter(m.foot, SplitFooterAt(split, usable), usable), m.tree), split)

\* The blocks behind b that are free, up to the first allocated one.
FreeRun(h, b) ==
    {c \in DOMAIN h : c > b /\ \A d \in DOMAIN h : b < d /\ d <= c => h[d].free}

\* b swallows the free blocks behind it.  Only then does it enter the trees.
Extend(m, b) ==
    LET run  == FreeRun(m.blk, b)
        last == Max(run)
        size == End(m.blk, last) - Data(b)
        kept == Restrict(m.blk, DOMAIN m.blk \ run)
        h    == [kept EXCEPT ![b].size = size, ![b].last = m.blk[last].last]
    IN  IF run = {} THEN [m EXCEPT !.blk = FlagNext(@, b, TRUE)]
        ELSE IF ~(run \subseteq m.tree) THEN Fault(m, "remove of an unlinked block")
        ELSE Insert([m EXCEPT !.blk = FlagNext(h, b, TRUE),
                              !.foot = WithFooter(@, Data(b) + size - Word, size),
                              !.tree = @ \ run], b)

\* The loop of coalesce from b backwards: while a header says that the block
\* before is free, prev() leads to it and it is unlinked.
Follows(m, b) == m.blk[b].prev_free /\ PrevPtr(m.foot, b) \in m.tree
Trail(m, b) ==
    {c \in DOMAIN m.blk :
        \A S \in SUBSET DOMAIN m.blk :
            b \in S /\ (\A d \in S : Follows(m, d) => PrevPtr(m.foot, d) \in S) => c \in S}

Coalesce(m, b) ==
    LET trail == Trail(m, b)
        first == Min(trail)
    IN  IF ~m.blk[first].prev_free THEN Extend([m EXCEPT !.tree = @ \ trail], first)
        ELSE IF PrevPtr(m.foot, first) \in DOMAIN m.blk THEN Fault(m, "remove of an unlinked block")
        ELSE Fault(m, "prev() is no block")

(***************************************************************************)
(* Block                                                                   *)
(***************************************************************************)
\* The links are reset: the block is in no tree.
Free(m, b) ==
    [m EXCEPT !.blk = FlagNext([@ EXCEPT ![b].free = TRUE], b, TRUE),
              !.foot = WithFooter(@, End(m.blk, b) - Word, m.blk[b].size),
              !.tree = @ \ {b}]

\* The size is compared with the whole block, whose data may start behind
\* padding: what fits the block may reach past its end, over the header that
\* follows.
GrowInPlace(b, size) == blk[b].size >= size
Outgrown(b, ptr, size) == ptr + size > End(blk, b)

(***************************************************************************)
(* MultiBlockCarrier                                                       *)
(***************************************************************************)
CarrierInit ==
    /\ blk = [b \in {Head} |-> [size |-> Size - Head - Word, free |-> TRUE,
                                 prev_free |-> FALSE, last |-> TRUE]]
    /\ foot = <<>>
    /\ tree = {Head}
    /\ live = {}
    /\ fault = "none"

\* alloc_block: the memory after it and the pointers it returns, none if no
\* block fits.
Allocated(m, layout) ==
    LET fit == FindBestFit(m, layout)
        b   == CHOOSE f \in fit : TRUE
        ptr == AlignUp(Data(b), layout.align)
        a   == Remove([m EXCEPT !.blk[b].free = FALSE], b)
    IN  IF fit = {} THEN [mem |-> m, ptr |-> {}]
        ELSE IF ~CanAlloc(m.blk, b, layout)
             THEN [mem |-> Fault(m, "find_best_fit and try_alloc disagreed"), ptr |-> {}]
        ELSE IF CanSplit(m.blk, b, layout) THEN [mem |-> TrySplit(a, b, layout), ptr |-> {ptr}]
        ELSE [mem |-> Mem(FlagNext(a.blk, b, FALSE), a.foot, a.tree), ptr |-> {ptr}]

Now == Mem(blk, foot, tree)

\* A step that fails leaves the memory as it was: nobody looks at it again.
Becomes(m, holds) ==
    IF m.fault = "none"
    THEN /\ blk' = m.blk
         /\ foot' = Fronts(m.blk, m.foot)
         /\ tree' = m.tree
         /\ live' = holds
         /\ fault' = "none"
    ELSE fault' = m.fault /\ UNCHANGED <<blk, foot, tree, live>>

Holds(ptrs, size) == {[ptr |-> p, size |-> size] : p \in ptrs}

AllocBlock(layout) ==
    LET r == Allocated(Now, layout)
    IN  /\ fault = "none"
        /\ Cardinality(live) < MaxLive
        /\ Becomes(r.mem, live \cup Holds(r.ptr, layout.size))

FreeBlock(l) ==
    LET b == Owner(l.ptr)
    IN  /\ fault = "none"
        /\ l \in live
        /\ Becomes(Coalesce(Free(Now, b), b), live \ {l})

\* A block that is large enough keeps its place, shrunk or not; otherwise the
\* data moves and the old block is freed and tracked, without coalescing.  With
\* no room in this carrier the caller moves the data to another one: here it
\* keeps the old block.
ReallocBlock(l, layout) ==
    LET b == Owner(l.ptr)
        r == Allocated(Now, layout)
        m == Insert(Free(r.mem, b), b)
    IN  /\ fault = "none"
        /\ l \in live
        /\ \/ /\ layout.size < l.size \/ GrowInPlace(b, layout.size)
              /\ Outgrown(b, l.ptr, layout.size) => Outgrows
              /\ live' = (live \ {l}) \cup Holds({l.ptr}, layout.size)
              /\ fault' = IF Outgrown(b, l.ptr, layout.size) THEN "data beyond its block" ELSE "none"
              /\ UNCHANGED <<blk, foot, tree>>
           \/ /\ layout.size >= l.size /\ ~GrowInPlace(b, layout.size)
              /\ IF r.ptr = {} \/ r.mem.fault # "none" THEN Becomes(r.mem, live)
                 ELSE Becomes(m, (live \ {l}) \cup Holds(r.ptr, layout.size))

CarrierNext ==
    \/ \E layout \in Layouts : AllocBlock(layout)
    \/ \E l \in live : FreeBlock(l)
    \/ \E l \in live, layout \in Layouts : ReallocBlock(l, layout)

CarrierSpec == CarrierInit /\ [][CarrierNext]_carrierVars

(***************************************************************************)
(* Properties                                                              *)
(***************************************************************************)
BlockBefore(b) == {a \in DOMAIN blk : HasNext(blk, a) /\ NextBlock(blk, a) = b}

\* The blocks tile the carrier: each but the first begins where exactly one
\* other ends, only the block that ends with the carrier is flagged last, and
\* none is below the minimum size.  try_split and coalesce rewrite sizes and
\* the last flag of two or more headers to keep this, and next() relies on it.
BlocksTile ==
    /\ Head \in DOMAIN blk
    /\ \A b \in DOMAIN blk :
          /\ blk[b].size >= MinBlockSize
          /\ blk[b].last <=> End(blk, b) = Size
          /\ b # Head => Cardinality(BlockBefore(b)) = 1
          /\ HasNext(blk, b) => NextBlock(blk, b) \in DOMAIN blk

\* A header's prev_free flag says whether the block before it is free: free()
\* and coalesce set it, alloc_block clears it only when nothing was split off.
PrevFreeIsTrue ==
    \A b \in DOMAIN blk :
        blk[b].prev_free <=> \E a \in BlockBefore(b) : blk[a].free

\* The trees hold free blocks only, so find_best_fit hands out no block a
\* caller still holds and try_alloc never sees an allocated one.
TrackedAreFree == tree \subseteq {b \in DOMAIN blk : blk[b].free}

\* The three together: after any sequence of allocations, frees and moves the
\* headers, the flags of neighbours and the trees tell the same story, which
\* is what next(), prev(), coalesce and find_best_fit take for granted.
HeadersAgree == BlocksTile /\ PrevFreeIsTrue /\ TrackedAreFree

\* What callers hold: intervals in the carrier that never overlap, although
\* blocks are cut, padded for alignment, merged and moved underneath them, as
\* long as no caller grows padded data in place past the end of its block.
AbstractCarrier == INSTANCE AbstractAllocator
                WITH Space <- Data(Head)..(Size - 1), held <- live
KeepsDataApart == AbstractCarrier!Spec

\* free_block's comment: "we rely on the coalesce operation to combine free
\* blocks first, and then the resulting block is added to the tree here", so
\* every free block can be found by a later allocation.
FreeIsTracked == {b \in DOMAIN blk : blk[b].free} \subseteq tree

\* grow_in_place's comment: it "returns true only if `new_size` fits in the
\* current usable space of the block", so what a caller holds ends with the
\* block it lies in.
DataFitsItsBlock == \A l \in live : l.ptr + l.size <= End(blk, Owner(l.ptr))

\* prev()'s comment: "Locates the previous block, if it exists and is free".
PrevFindsTheBlock ==
    \A b \in DOMAIN blk : blk[b].prev_free => PrevPtr(foot, b) \in BlockBefore(b)

\* prev()'s comment: the footer in front of a header "can be accessed to give
\* us the usable size of the previous block".
FooterHoldsSize ==
    \A b \in DOMAIN blk : \A a \in BlockBefore(b) :
        blk[b].prev_free => foot[b - Word] = blk[a].size

\* alloc_block expects that a block find_best_fit returns can be allocated.
FitCanBeAllocated == fault # "find_best_fit and try_alloc disagreed"

\* try_split's comment: "We only split if the resulting split is at least able
\* to hold the minimum allocation size", which Block::new asserts.
SplitIsLargeEnough == fault # "new block below the minimum size"
=============================================================================
