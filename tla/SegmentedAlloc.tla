--------------------------- MODULE SegmentedAlloc ---------------------------
(***************************************************************************)
(* SegmentedAlloc: size classes as in SizeClassAlloc for requests below    *)
(* the largest class, and a single-block carrier of its own, in one list,  *)
(* for every other request.  Which of the two holds a block is told from   *)
(* the size of the caller's layout.                                        *)
(***************************************************************************)
EXTENDS SizeClassAlloc

CONSTANT Region         \* where single-block carriers may be mapped

ASSUME RegionAssumption == Region \cap Carrier = {}

VARIABLES region,       \* the single-block carriers that are mapped
          sbc           \* those in the list

large == <<region, sbc>>

sbc_threshold == max_size_class

InitSegmented == Init /\ region = {} /\ sbc = {}

\* Once a slab header was read where there is none, anything may happen.
Defined == \A t \in Thread : pc[t] \notin {"undefined", "panic"}

(***************************************************************************)
(* alloc_large, dealloc_large                                              *)
(***************************************************************************)
AllocLarge(t, size) ==
    /\ pc[t] = "idle"
    /\ size >= sbc_threshold
    /\ Cardinality(held) < MaxHeld
    /\ Goto(t, "map_large", [NoOp EXCEPT !.size = size])
    /\ UNCHANGED <<class, carriers, lock, used, held, region, sbc>>

MapLarge(t) ==
    /\ pc[t] = "map_large"
    /\ \E r \in Region \ region :
          region' = region \cup {r} /\ Goto(t, "push", [op[t] EXCEPT !.left = <<r>>])
    /\ UNCHANGED <<class, carriers, lock, used, held, sbc>>

MapLargeFails(t) ==
    /\ pc[t] = "map_large"
    /\ held' = held \cup op[t].old
    /\ Goto(t, "idle", NoOp)
    /\ UNCHANGED <<class, carriers, lock, used, region, sbc>>

Link(r) == sbc \cup {r}

PushLarge(t) ==
    /\ pc[t] = "push"
    /\ sbc' = Link(Head(op[t].left))
    /\ IF op[t].old = {}
       THEN held' = held \cup {Piece(Head(op[t].left), 0, op[t].size)} /\ Goto(t, "idle", NoOp)
       ELSE held' = held /\ Goto(t, "free_old", [op[t] EXCEPT !.index = 0])
    /\ UNCHANGED <<class, carriers, lock, used, region>>

(***************************************************************************)
(* deallocate: the size of the layout tells where the block is             *)
(***************************************************************************)
IsLarge(p) == p.size >= sbc_threshold

\* Variant: the carrier is unlinked and stays mapped.
KeepMapped(r) == region
Unmap(r) == region \ {r}

\* The list is walked to the owner, and its end is not expected.
DeallocLarge(t, p) ==
    /\ IF p.at \in sbc
       THEN /\ region' = Unmap(p.at) /\ sbc' = sbc \ {p.at}
            /\ Goto(t, "idle", NoOp)
       ELSE Goto(t, "panic", NoOp) /\ UNCHANGED large
    /\ used' = used

\* The address is rounded down to where a slab's header would be.
DeallocSized(t, p) ==
    /\ IF p.at \in Carrier
       THEN FreeBlock(t, p, NoOp) /\ pc' = [pc EXCEPT ![t] = "idle"]
       ELSE Goto(t, "undefined", NoOp) /\ used' = used
    /\ UNCHANGED large

DeallocPiece(t, p) == IF IsLarge(p) THEN DeallocLarge(t, p) ELSE DeallocSized(t, p)

DeallocateSegmented(t, p) ==
    /\ pc[t] = "idle"
    /\ DeallocPiece(t, p)
    /\ held' = held \ {p}
    /\ UNCHANGED <<class, carriers, lock>>

FreeOldSegmented(t) ==
    /\ pc[t] = "free_old"
    /\ \E p \in op[t].old : DeallocPiece(t, p)
    /\ held' = held \cup {Piece(Head(op[t].left), op[t].index, op[t].size)}
    /\ UNCHANGED <<class, carriers, lock>>

(***************************************************************************)
(* grow and shrink                                                         *)
(***************************************************************************)
\* realloc_large: always another single-block carrier, whatever the new size.
ReallocLarge(t, p, size) ==
    /\ pc[t] = "idle" /\ IsLarge(p)
    /\ held' = held \ {p}
    /\ Goto(t, "map_large", [NoOp EXCEPT !.size = size, !.old = {p}])
    /\ UNCHANGED <<class, carriers, lock, used, region, sbc>>

\* realloc_sized: an error above the largest class; the same block in the same
\* class; otherwise allocate, which takes the threshold into account.
ReallocSized(t, p, size) ==
    /\ ~IsLarge(p) /\ size <= max_size_class
    /\ SameClass(p, size) \/ size < sbc_threshold
    /\ Reallocate(t, p, size)
    /\ UNCHANGED large

ReallocToLarge(t, p, size) ==
    /\ pc[t] = "idle" /\ ~IsLarge(p)
    /\ size = sbc_threshold /\ ~SameClass(p, size)
    /\ held' = held \ {p}
    /\ Goto(t, "map_large", [NoOp EXCEPT !.size = size, !.old = {p}])
    /\ UNCHANGED <<class, carriers, lock, used, region, sbc>>

(***************************************************************************)
(* Specification                                                           *)
(***************************************************************************)
AllocSized(t) ==
    /\ \/ ReadLock(t) \/ NextCarrier(t) \/ WalkFinds(t) \/ WalkFails(t)
       \/ WriteLock(t) \/ CreateCarrier(t) \/ MapFails(t)
       \/ \E size \in Sizes : size < sbc_threshold /\ Allocate(t, size)
    /\ UNCHANGED large

\* Drop takes the slabs and the single-block carriers in the list.
DropSegmented == Drop /\ region' = region \ sbc /\ sbc' = {}

Step(t) ==
    \/ AllocSized(t) \/ MapLarge(t) \/ MapLargeFails(t) \/ PushLarge(t)
    \/ FreeOldSegmented(t)
    \/ \E size \in Sizes : AllocLarge(t, size)
    \/ \E p \in held : DeallocateSegmented(t, p)
    \/ \E p \in held, size \in Sizes :
          ReallocLarge(t, p, size) \/ ReallocSized(t, p, size) \/ ReallocToLarge(t, p, size)

NextSegmented == Defined /\ ((\E t \in Thread : Step(t)) \/ DropSegmented)

SpecSegmented == InitSegmented /\ [][NextSegmented]_<<vars, large>>

(***************************************************************************)
(* Properties                                                              *)
(***************************************************************************)
Moving == OnTheWay \cup {Piece(Head(op[t].left), 0, op[t].size) :
                            t \in {u \in Thread : pc[u] = "push"}}

\* As long as the allocator is in a defined state every block in use and
\* every single-block carrier belongs to exactly one caller or to a thread
\* that is moving it, large or small, whatever grew into what.
EachHasOneOwner ==
    Defined =>
        LET pieces == held \cup Moving
        IN  /\ used \cup {<<r, 0>> : r \in region} = {<<p.at, p.block>> : p \in pieces}
            /\ \A p, q \in pieces : <<p.at, p.block>> = <<q.at, q.block>> => p = q

\* Single-block carriers are linked while mapped, and unmapped when dropped.
LinkedWhileMapped ==
    Defined =>
        /\ sbc \subseteq region
        /\ \A r \in region \ sbc : \E t \in Thread : pc[t] = "push" /\ op[t].left = <<r>>

\* No carrier is lost: each one that was mapped, slab or single block, is in a
\* list, where allocations and deallocations find it and Drop gives it back.
MappedAreListed == CarriersAreListed /\ LinkedWhileMapped

\* deallocate's comment: the block of a layout as large as the threshold
\* "would have to be in a single-block carrier".
LargeAreInSingleBlocks == \A t \in Thread : pc[t] # "panic"

\* dealloc_sized's comment: "Since the slabs are super-aligned, we can mask off
\* the low bits of the given pointer to find our carrier".
SizedAreInSlabs == \A t \in Thread : pc[t] # "undefined"
=============================================================================
