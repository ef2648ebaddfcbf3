--------------------------- MODULE SizeClassAlloc ---------------------------
(***************************************************************************)
(* The allocator of process heaps: for every size class a list of slab     *)
(* carriers under a reader-writer lock.  Requests are filled by the first  *)
(* carrier of the class that has a block; when none has, a new carrier is  *)
(* made under the write lock.  Blocks are freed without any lock.          *)
(*                                                                         *)
(* A thread's walk over one carrier (alloc_block, see BlockBitSet) begins  *)
(* and ends in different steps; it may fail when the carrier is full, or   *)
(* when another thread set or cleared a bit of it in between.              *)
(*                                                                         *)
(* SegmentedAlloc has the same code for the requests below its threshold;  *)
(* that module completes this one into a specification.                    *)
(***************************************************************************)
EXTENDS Integers, Sequences, FiniteSets, FiniteSetsExt, Functions

CONSTANTS Thread,
          Carrier,        \* where the operating system may map slabs
          Classes,        \* size_classes: ascending sizes in bytes
          First,          \* where the first slab of each class happens to be mapped
          Sizes,          \* sizes of the requests
          Blocks,         \* blocks in a slab
          MaxHeld         \* bound on the allocations held at once

ASSUME SizeClassAssumption ==
    /\ Classes \in Seq(Nat \ {0}) /\ Classes # <<>>
    /\ \A i, j \in 1..Len(Classes) : i < j => Classes[i] < Classes[j]
    /\ First \in [DOMAIN Classes -> Carrier] /\ IsInjective(First)
    /\ Sizes \subseteq Nat \ {0} /\ Blocks \in Nat /\ Blocks > 1

VARIABLES class,        \* the index of the class of each carrier, 0: not mapped
          carriers,     \* for each class, its list of carriers
          lock,         \* for each class, the readers and the writer
          used,         \* the blocks in use
          held,         \* what callers hold: carrier, block, size of the layout
          pc, op        \* what each thread does, and its locals

vars == <<class, carriers, lock, used, held, pc, op>>

Index == DOMAIN Classes
NoOp == [size |-> 0, index |-> 0, left |-> <<>>, walked |-> <<>>,
         disturbed |-> FALSE, old |-> {}]

max_size_class == Classes[Len(Classes)]

\* Variant: the closest class, also when it is smaller than the request.
LargestBelow(size) == Max({1} \cup {i \in Index : Classes[i] <= size})

\* binary_search_next_largest (see NextLargest) among the classes.
ClassFor(size) == Min({i \in Index : Classes[i] >= size})

\* new: every class has one carrier.
Init ==
    /\ class = [c \in Carrier |-> IF \E i \in Index : First[i] = c
                                  THEN CHOOSE i \in Index : First[i] = c ELSE 0]
    /\ carriers = [i \in Index |-> <<First[i]>>]
    /\ lock = [i \in Index |-> [readers |-> {}, writer |-> {}]]
    /\ used = {}
    /\ held = {}
    /\ pc = [t \in Thread |-> "idle"]
    /\ op = [t \in Thread |-> NoOp]

FreeBlocks(c) == {b \in 1..Blocks : <<c, b>> \notin used}
Goto(t, label, o) == pc' = [pc EXCEPT ![t] = label] /\ op' = [op EXCEPT ![t] = o]

\* Every thread inside the walk of carrier c sees that a bit has changed.
Disturb(t, c, o) ==
    op' = [u \in Thread |->
             IF u = t THEN o
             ELSE [op[u] EXCEPT !.disturbed = @ \/ (pc[u] = "walk" /\ Head(op[u].left) = c)]]

Piece(c, b, size) == [at |-> c, block |-> b, size |-> size]

(***************************************************************************)
(* allocate                                                                *)
(***************************************************************************)
\* An error when the request is larger than the largest class; otherwise the
\* class is found and its lock asked for.
Allocate(t, size) ==
    /\ pc[t] = "idle"
    /\ Cardinality(held) < MaxHeld
    /\ size <= max_size_class
    /\ Goto(t, "read", [NoOp EXCEPT !.size = size, !.index = ClassFor(size)])
    /\ UNCHANGED <<class, carriers, lock, used, held>>

ReadLock(t) ==
    LET i == op[t].index
    IN  /\ pc[t] = "read"
        /\ lock[i].writer = {}
        /\ lock' = [lock EXCEPT ![i].readers = @ \cup {t}]
        /\ Goto(t, "next", [op[t] EXCEPT !.left = carriers[i], !.walked = carriers[i]])
        /\ UNCHANGED <<class, carriers, used, held>>

\* The loop over the list: walk the next carrier, or drop the read lock and
\* ask for the write lock.
NextCarrier(t) ==
    LET i == op[t].index
    IN  /\ pc[t] = "next"
        /\ IF op[t].left # <<>> THEN Goto(t, "walk", [op[t] EXCEPT !.disturbed = FALSE]) /\ lock' = lock
           ELSE /\ Goto(t, "write", op[t])
                /\ lock' = [lock EXCEPT ![i].readers = @ \ {t}]
        /\ UNCHANGED <<class, carriers, used, held>>

\* The block b of carrier c is the thread's: allocate returns it, or
\* reallocate goes on to free the old one.
Take(t, c, b) ==
    /\ used' = used \cup {<<c, b>>}
    /\ IF op[t].old = {}
       THEN /\ held' = held \cup {Piece(c, b, op[t].size)}
            /\ pc' = [pc EXCEPT ![t] = "idle"]
            /\ Disturb(t, c, NoOp)
       ELSE /\ held' = held
            /\ pc' = [pc EXCEPT ![t] = "free_old"]
            /\ Disturb(t, c, [op[t] EXCEPT !.left = <<c>>, !.index = b])

\* Variant: the read lock is kept when a block was found.
KeepReadLock(t) == lock
DropReadLock(t) == [lock EXCEPT ![op[t].index].readers = @ \ {t}]

\* alloc_block finds a free block.
WalkFinds(t) ==
    /\ pc[t] = "walk"
    /\ \E b \in FreeBlocks(Head(op[t].left)) : Take(t, Head(op[t].left), b)
    /\ lock' = DropReadLock(t)
    /\ UNCHANGED <<class, carriers>>

\* alloc_block finds none: the carrier is full, or another thread was faster.
WalkFails(t) ==
    /\ pc[t] = "walk"
    /\ FreeBlocks(Head(op[t].left)) = {} \/ op[t].disturbed
    /\ Goto(t, "next", [op[t] EXCEPT !.left = Tail(@)])
    /\ UNCHANGED <<class, carriers, lock, used, held>>

\* Variant: a reader does not keep the writer out.
WriterOnly(i) == lock[i].writer = {}
Unlocked(i) == lock[i].writer = {} /\ lock[i].readers = {}

WriteLock(t) ==
    LET i == op[t].index
    IN  /\ pc[t] = "write"
        /\ Unlocked(i)
        /\ lock' = [lock EXCEPT ![i].writer = {t}]
        /\ Goto(t, "create", op[t])
        /\ UNCHANGED <<class, carriers, used, held>>

\* Variant: the carrier is used and not put in the list.
DoNotPush(i, c) == carriers
PushFront(i, c) == [carriers EXCEPT ![i] = <<c>> \o @]

\* create_carrier, a block of it, and the carrier in front of the list; the
\* write lock is released on return.
CreateCarrier(t) ==
    LET i == op[t].index
    IN  /\ pc[t] = "create"
        /\ \E c \in Carrier :
              /\ class[c] = 0
              /\ class' = [class EXCEPT ![c] = i]
              /\ carriers' = PushFront(i, c)
              /\ \E b \in FreeBlocks(c) : Take(t, c, b)
        /\ lock' = [lock EXCEPT ![i].writer = {}]

\* mmap fails: an error, and the lock is released; what was to be reallocated
\* stays with the caller.
MapFails(t) ==
    LET i == op[t].index
    IN  /\ pc[t] = "create"
        /\ lock' = [lock EXCEPT ![i].writer = {}]
        /\ held' = held \cup op[t].old
        /\ Goto(t, "idle", NoOp)
        /\ UNCHANGED <<class, carriers, used>>

(***************************************************************************)
(* reallocate, and the free of a block                                     *)
(***************************************************************************)
SameClass(p, size) == ClassFor(p.size) = ClassFor(size)

\* In the same class nothing is done; otherwise another block is allocated
\* and the old one is out of the caller's hands until that is done.
Reallocate(t, p, size) ==
    /\ pc[t] = "idle"
    /\ size <= max_size_class
    /\ IF SameClass(p, size)
       THEN held' = (held \ {p}) \cup {[p EXCEPT !.size = size]} /\ UNCHANGED <<pc, op>>
       ELSE /\ held' = held \ {p}
            /\ Goto(t, "read", [NoOp EXCEPT !.size = size, !.index = ClassFor(size), !.old = {p}])
    /\ UNCHANGED <<class, carriers, lock, used>>

\* Variant: the bit that is cleared is always the first one.
FreedFirst(p) == used \ {<<p.at, 1>>}
Freed(p) == used \ {<<p.at, p.block>>}

\* The carrier's header is found from the pointer; its bit is cleared.
FreeBlock(t, p, o) == used' = Freed(p) /\ Disturb(t, p.at, o)

\* Drop, when nobody uses the allocator any more: the slabs in the lists are
\* unmapped and the lists cleared.
Drop ==
    /\ pc = [t \in Thread |-> "idle"] /\ held = {}
    /\ class' = [c \in Carrier |->
                   IF \E i \in Index : c \in Range(carriers[i]) THEN 0 ELSE class[c]]
    /\ carriers' = [i \in Index |-> <<>>]
    /\ pc' = [t \in Thread |-> "dropped"]
    /\ UNCHANGED <<lock, used, held, op>>

(***************************************************************************)
(* Properties                                                              *)
(***************************************************************************)
\* The blocks threads have taken and not yet returned.
OnTheWay ==
    {Piece(Head(op[t].left), op[t].index, op[t].size) :
        t \in {u \in Thread : pc[u] = "free_old"}}
    \cup UNION {op[t].old : t \in Thread}

\* What callers hold fits in a block of the carrier's class, also after
\* reallocate kept the block, and a carrier is only in the list of its class.
BlocksAreLargeEnough ==
    /\ \A p \in held : p.at \in Carrier => class[p.at] # 0 /\ p.size <= Classes[class[p.at]]
    /\ \A i \in Index : \A k \in DOMAIN carriers[i] : class[carriers[i][k]] = i

\* create_carrier's comment: "You must make sure to add the carrier to the free
\* list of the allocator, or it will not be used, and will not be freed": Drop
\* leaves nothing mapped.
CarriersAreListed ==
    IF \E t \in Thread : pc[t] = "dropped" THEN \A c \in Carrier : class[c] = 0
    ELSE \A c \in Carrier : class[c] # 0 =>
           Cardinality({k \in DOMAIN carriers[class[c]] : carriers[class[c]][k] = c}) = 1

\* While a thread reads a list nobody changes it: allocate keeps the read lock
\* for the whole walk.
ListIsStable ==
    \A t \in Thread : pc[t] \in {"next", "walk"} => carriers[op[t].index] = op[t].walked

\* Nobody waits for a lock, or leaves the allocator, while holding one: a
\* reader is walking the list of that class and the writer is creating a
\* carrier for it, alone.  So the locks of the classes never deadlock.
LocksAreReleased ==
    \A i \in Index :
        /\ \A t \in lock[i].readers : pc[t] \in {"next", "walk"} /\ op[t].index = i
        /\ \A t \in lock[i].writer : pc[t] = "create" /\ op[t].index = i
        /\ lock[i].writer # {} => lock[i].readers = {} /\ Cardinality(lock[i].writer) = 1

\* allocate's comment: the list is locked while a carrier is created "to avoid
\* other readers from trying to create their own carriers at the same time".
NobodyElseCreated ==
    \A t \in Thread : pc[t] = "create" => carriers[op[t].index] = op[t].walked
=============================================================================
