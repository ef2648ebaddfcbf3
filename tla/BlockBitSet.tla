---------------------------- MODULE BlockBitSet ----------------------------
(***************************************************************************)
(* A slab carrier: equal blocks, and a bit for each of them in a vector of *)
(* atomic words in front of the blocks.  Threads allocate and free without *)
(* a lock: alloc_block walks over the bits, loads a word for each bit and  *)
(* tries to set the bit with a compare-and-exchange; a failed exchange     *)
(* moves on to the next bit.                                               *)
(***************************************************************************)
EXTENDS Integers, FiniteSets, FiniteSetsExt, Functions

CONSTANTS Thread,
          Bits,         \* bits in a word of the vector
          WordSize,     \* size of such a word, and of the bit set's header
          CarrierHeader,\* size of the slab carrier's header
          Slabs,        \* sizes of a slab, and sizes of its blocks
          Blocks

ASSUME BitSetAssumption ==
    /\ Bits \in Nat \ {0} /\ WordSize \in Nat \ {0} /\ CarrierHeader \in Nat
    /\ Slabs \subseteq Nat /\ Blocks \subseteq Nat \ {0}
    /\ \E largest \in Slabs : \A s \in Slabs : s <= largest

VARIABLES slab, block,  \* byte_len and block_byte_len of the carrier
          word,         \* the bit vector: set bits of each word
          held,         \* blocks callers hold: the index and who allocated it
          pc,           \* "idle", "load", "exchange" or "err", for each thread
          at,           \* word, bit and loaded value of a thread's walk
          disturbed     \* has another thread changed a bit during the walk

vars == <<slab, block, word, held, pc, at, disturbed>>

(***************************************************************************)
(* The layout of the slab                                                  *)
(***************************************************************************)
\* Blocks that fit in size, beside words for their bits and the header.
BlockLen(size, bytes) ==
    LET usable == size - WordSize
        unit   == WordSize + bytes * Bits
        full   == usable \div unit
        rest   == usable - full * unit
    IN  full * Bits + (IF rest > WordSize THEN (rest - WordSize) \div bytes ELSE 0)

\* One word more if the number of full words is a multiple of the word's bits:
\* the blocks that do not fill a word may be left without a bit.
SubsetLen(len) ==
    LET full == len \div Bits IN IF full % Bits = 0 THEN full + 1 ELSE full

block_len == BlockLen(slab, block)
subset_len == SubsetLen(block_len)

\* Variant: the last bit of a word is never tried.
SubsetBitLenShort(i) == Max({0, Min({Bits, block_len - Bits * i}) - 1})

SubsetBitLen(i) == Min({Bits, block_len - Bits * i})

HeadOffset == CarrierHeader + WordSize + subset_len * WordSize
BlockOffset(i) == HeadOffset + i * block
IndexOf(offset) == (offset - HeadOffset) \div block

SetBit(i, bit) == i * Bits + bit

(***************************************************************************)
(* Allocation                                                              *)
(***************************************************************************)
\* Neither of the assertions of write() fails.
Init ==
    /\ slab \in Slabs /\ block \in Blocks
    /\ block_len > 1
    /\ word = [i \in 0..subset_len - 1 |-> {}]
    /\ held = {}
    /\ pc = [t \in Thread |-> "idle"]
    /\ at = [t \in Thread |-> [sub |-> 0, bit |-> 0, current |-> {}]]
    /\ disturbed = [t \in Thread |-> FALSE]

Walk(sub, bit, current) == [sub |-> sub, bit |-> bit, current |-> current]

\* The walk goes to the next bit, the next word, or ends without a block.
Advance(t) ==
    LET w == at[t]
    IN  CASE w.bit + 1 < SubsetBitLen(w.sub) ->
               pc' = [pc EXCEPT ![t] = "load"] /\ at' = [at EXCEPT ![t] = Walk(w.sub, w.bit + 1, {})]
          [] w.bit + 1 >= SubsetBitLen(w.sub) /\ w.sub + 1 < subset_len ->
               pc' = [pc EXCEPT ![t] = "load"] /\ at' = [at EXCEPT ![t] = Walk(w.sub + 1, 0, {})]
          [] OTHER ->
               pc' = [pc EXCEPT ![t] = "err"] /\ at' = [at EXCEPT ![t] = Walk(0, 0, {})]

Disturbs(t) == disturbed' = [u \in Thread |-> disturbed[u] \/ (u # t /\ pc[u] # "idle")]

\* A thread starts alloc_block, also when it gave up before.
Start(t) ==
    /\ pc[t] \in {"idle", "err"}
    /\ pc' = [pc EXCEPT ![t] = "load"]
    /\ at' = [at EXCEPT ![t] = Walk(0, 0, {})]
    /\ disturbed' = [disturbed EXCEPT ![t] = FALSE]
    /\ UNCHANGED <<slab, block, word, held>>

\* Variant: a lost exchange starts the walk over the word again.
StartWordAgain(t) ==
    /\ pc' = [pc EXCEPT ![t] = "load"]
    /\ at' = [at EXCEPT ![t] = Walk(at[t].sub, 0, {})]

\* A lost exchange is not tried again.
Lost(t) == Advance(t)

\* A bit that is set is skipped.  The last word may have no bits at all.
Load(t) ==
    LET w == at[t]
    IN  /\ pc[t] = "load"
        /\ IF SubsetBitLen(w.sub) = 0 \/ w.bit \in word[w.sub] THEN Advance(t)
           ELSE /\ pc' = [pc EXCEPT ![t] = "exchange"]
                /\ at' = [at EXCEPT ![t].current = word[w.sub]]
        /\ UNCHANGED <<slab, block, word, held, disturbed>>

\* Variant: the bit is stored whatever the word is by now.
StoreAnyway(t) == TRUE
Exchanged(t) == word[at[t].sub] = at[t].current

Exchange(t) ==
    LET w == at[t]
    IN  /\ pc[t] = "exchange"
        /\ \/ /\ Exchanged(t)
              /\ word' = [word EXCEPT ![w.sub] = w.current \cup {w.bit}]
              /\ held' = held \cup {<<SetBit(w.sub, w.bit), t>>}
              /\ pc' = [pc EXCEPT ![t] = "idle"]
              /\ at' = [at EXCEPT ![t] = Walk(0, 0, {})]
              /\ Disturbs(t)
           \/ /\ ~Exchanged(t)
              /\ Lost(t)
              /\ UNCHANGED <<word, held, disturbed>>
        /\ UNCHANGED <<slab, block>>

\* free_block gets a pointer back to its index; the bit is cleared in one
\* atomic step.
FreeSlabBlock(t, b) ==
    LET index == IndexOf(BlockOffset(b[1]))
    IN  /\ pc[t] = "idle"
        /\ b \in held
        /\ held' = held \ {b}
        /\ word' = [word EXCEPT ![index \div Bits] = @ \ {index % Bits}]
        /\ Disturbs(t)
        /\ UNCHANGED <<slab, block, pc, at>>

Next == \E t \in Thread : Start(t) \/ Load(t) \/ Exchange(t) \/ \E b \in held : FreeSlabBlock(t, b)

Spec == Init /\ [][Next]_vars

\* A thread inside alloc_block is not stopped for ever.
Fairness == \A t \in Thread : WF_vars(Load(t)) /\ WF_vars(Exchange(t))
FairSpec == Spec /\ Fairness

(***************************************************************************)
(* Properties                                                              *)
(***************************************************************************)
\* What callers hold are pieces of the slab behind its bit vector that never
\* overlap: the lock-free bit set implements an allocator.
Abstract == INSTANCE AbstractAllocator
                WITH Space <- (CarrierHeader + 2 * WordSize)..(Max(Slabs) - 1),
                     held <- {[ptr |-> BlockOffset(b[1]), size |-> block, by |-> b[2]] : b \in held}
KeepsBlocksApart == Abstract!Spec

\* A walk of alloc_block that no other thread disturbed fails only when every
\* block that has a bit in the vector is allocated.
HaveBits == {i \in 0..block_len - 1 : i < subset_len * Bits}
ErrIsJustified ==
    \A t \in Thread :
        pc[t] = "err" => disturbed[t] \/ \A i \in HaveBits : \E u \in Thread : <<i, u>> \in held

\* alloc_block's comment says more: an error "means that either all blocks were
\* already allocated or a neighboring bit that was in the same subset ... was
\* flipped".  It is false where a block has no bit.
ErrMeansAllAllocated ==
    \A t \in Thread : pc[t] = "err" => disturbed[t] \/ Cardinality(held) = block_len

\* No walk goes on for ever: a thread inside alloc_block returns, also when it
\* loses every exchange, as each one moves it on.
AllocReturns == \A t \in Thread : pc[t] \in {"load", "exchange"} ~> pc[t] \in {"idle", "err"}

\* write()'s comment: `size` "is the amount of space available for blocks, and
\* should already have accounted for the layout of `Self`".  Every block that
\* the bit vector can hand out ends inside the slab.
BlocksFitTheSlab ==
    \A i \in HaveBits : BlockOffset(i) + block <= slab
=============================================================================
