------------------------ MODULE SegmentedAllocProofs ------------------------
(***************************************************************************)
(* The allocator of process heaps, for any number of threads, classes and  *)
(* carriers: the inductive invariant, what a step of one thread leaves to  *)
(* the others, the steps of a request that a size class serves, of single- *)
(* block carriers, deallocations, reallocations and Drop, and what the     *)
(* invariant says of locks, lists and owners.  Then the search for the     *)
(* class of a request.                                                     *)
(***************************************************************************)
EXTENDS SegmentedAlloc, NextLargest, WellFoundedInduction, TLAPS

(***************************************************************************)
(* The inductive invariant                                                 *)
(***************************************************************************)
Label == {"idle", "read", "next", "walk", "write", "create", "free_old",
          "map_large", "push", "panic", "undefined", "dropped"}
Pieces == [at : Carrier \cup Region, block : Nat, size : Nat]
Locals == [size : Nat, index : Nat, left : Seq(Carrier \cup Region), walked : Seq(Carrier),
           disturbed : BOOLEAN, old : SUBSET Pieces]

AllocTypeOK ==
    /\ class \in [Carrier -> Index \cup {0}]
    /\ carriers \in [Index -> Seq(Carrier)]
    /\ lock \in [Index -> [readers : SUBSET Thread, writer : SUBSET Thread]]
    /\ used \subseteq Carrier \X (Nat \ {0})
    /\ held \subseteq Pieces
    /\ pc \in [Thread -> Label]
    /\ op \in [Thread -> Locals]
    /\ region \subseteq Region
    /\ sbc \subseteq Region

\* The class of a piece of a slab is the class for its size.
Fits(p) ==
    IF p.at \in Carrier THEN p.size <= max_size_class /\ class[p.at] = ClassFor(p.size)
    ELSE p.block = 0

\* What a thread's locals are at each point of allocate and reallocate.
Sized == {"read", "next", "walk", "write", "create"}
LocalsOK(t) ==
    /\ pc[t] \in Sized => op[t].size <= max_size_class /\ op[t].index = ClassFor(op[t].size)
    /\ pc[t] \in {"next", "walk"} =>
         \A k \in DOMAIN op[t].left : op[t].left[k] \in Carrier /\ class[op[t].left[k]] = op[t].index
    /\ pc[t] = "walk" => op[t].left # <<>>
    /\ pc[t] \in {"idle", "dropped", "panic", "undefined"} => op[t].old = {}
    /\ pc[t] = "push" => \E r \in Region : op[t].left = <<r>>
    /\ pc[t] = "free_old" =>
         /\ \E c \in Carrier \cup Region : op[t].left = <<c>>
         /\ Fits(Piece(Head(op[t].left), op[t].index, op[t].size))
         /\ op[t].old # {}
    /\ \A p, q \in op[t].old : p = q
    /\ \A p \in op[t].old : Fits(p)

\* The locks are where the program counters say.
Locked ==
    /\ \A t \in Thread : pc[t] \in {"next", "walk"} => t \in lock[op[t].index].readers
    /\ \A t \in Thread : pc[t] = "create" => lock[op[t].index].writer = {t}
    /\ \A i \in Index : lock[i].writer = {} \/ \E t \in Thread : lock[i].writer = {t}

\* A carrier has one place in the list of its class, and in no other.
Listed ==
    /\ \A i \in Index : \A k \in DOMAIN carriers[i] : class[carriers[i][k]] = i
    /\ \A c \in Carrier : class[c] # 0 => \E k \in DOMAIN carriers[class[c]] : carriers[class[c]][k] = c
    /\ \A i \in Index : \A j, k \in DOMAIN carriers[i] : carriers[i][j] = carriers[i][k] => j = k
    /\ \A t \in Thread : pc[t] = "dropped" => (\A u \in Thread : pc[u] = "dropped") /\ \A c \in Carrier : class[c] = 0

\* Who owns a piece: the callers, or a thread, as the one it has to free or as
\* the one it has got.
Place(p) == <<p.at, p.block>>
Old == [t \in Thread |-> op[t].old]
Got == [t \in Thread |->
          IF pc[t] = "free_old" THEN {Piece(Head(op[t].left), op[t].index, op[t].size)}
          ELSE IF pc[t] = "push" THEN {Piece(Head(op[t].left), 0, op[t].size)} ELSE {}]
InUse == used \cup {<<r, 0>> : r \in region}

\* Every place in use has one owner, and nothing else has.
Owned(places, h, o, g) ==
    /\ \A x : x \in places <=> \/ \E p \in h : Place(p) = x
                               \/ \E t \in Thread : \E p \in o[t] \cup g[t] : Place(p) = x
    /\ \A p, q \in h : Place(p) = Place(q) => p = q
    /\ \A p \in h : \A t \in Thread : \A q \in o[t] \cup g[t] : Place(p) # Place(q)
    /\ \A t, u \in Thread : \A p \in o[t], q \in g[u] : Place(p) # Place(q)
    /\ \A t, u \in Thread : \A p \in o[t], q \in o[u] : Place(p) = Place(q) => t = u /\ p = q
    /\ \A t, u \in Thread : \A p \in g[t], q \in g[u] : Place(p) = Place(q) => t = u /\ p = q

Owners == Owned(InUse, held, Old, Got)

AllocInv ==
    /\ AllocTypeOK
    /\ \A t \in Thread : LocalsOK(t)
    /\ \A p \in held : Fits(p)
    /\ LocksAreReleased /\ Locked /\ ListIsStable /\ Listed
    /\ Defined => Owners /\ LinkedWhileMapped

(***************************************************************************)
(* Classes and sizes                                                       *)
(***************************************************************************)
\* The sizes of the smallest sets.
LEMMA SmallSets ==
    ASSUME NEW x
    PROVE  Cardinality({}) = 0 /\ Cardinality({x}) = 1
  <1> DEFINE Counts(f) == f = [T \in SUBSET {x} |-> IF T = {} THEN 0 ELSE 1 + f[T \ {CHOOSE y : y \in T}]]
             g == [T \in SUBSET {x} |-> IF T = {} THEN 0 ELSE 1]
             c == CHOOSE f : Counts(f)
  <1>1. Cardinality({}) = 0
    BY Zenon DEF Cardinality
  <1>2. ASSUME NEW T \in SUBSET {x}, T # {} PROVE T = {x} /\ T \ {CHOOSE y : y \in T} = {}
    BY Zenon, <1>2
  <1>3. Counts(g)
    BY <1>2
  <1>4. Cardinality({x}) = c[{x}]
    BY Zenon DEF Cardinality
  <1> HIDE DEF g
  <1>5. Counts(c)
    BY Zenon, <1>3
  <1> HIDE DEF c
  <1>6. c[{x}] = 1 + c[{x} \ {CHOOSE y : y \in {x}}] /\ c[{}] = 0
    BY Zenon, <1>5
  <1> QED BY <1>1, <1>2, <1>4, <1>6

LEMMA IndexFacts ==
    /\ Index = 1..Len(Classes) /\ Len(Classes) \in Nat /\ Len(Classes) \in Index
    /\ max_size_class \in Nat /\ \A i \in Index : Classes[i] \in Nat
  BY SizeClassAssumption DEF Index, max_size_class

\* A set of naturals that is not empty has a smallest member.
LEMMA SmallestMember ==
    ASSUME NEW S \in SUBSET Nat, S # {}
    PROVE  Min(S) \in S /\ \A m \in S : Min(S) <= m
  <1>1. PICK n \in S : \A m \in S : ~(<<m, n>> \in OpToRel(<, Nat))
    BY Zenon, NatLessThanWellFounded, WFMin
  <1>2. \A m \in S : n <= m
    <2> TAKE m \in S
    <2>1. ~(m < n)
      BY Zenon, <1>1 DEF OpToRel
    <2> QED BY <2>1
  <1> QED BY Zenon, <1>2 DEF Min

\* The class for a size is large enough.
LEMMA ClassForFacts ==
    ASSUME NEW n \in Nat, n <= max_size_class
    PROVE  /\ ClassFor(n) \in Index /\ ClassFor(n) \in Nat /\ ClassFor(n) # 0
           /\ n <= Classes[ClassFor(n)]
           /\ \A i \in Index : Classes[i] >= n => ClassFor(n) <= i
  <1> DEFINE S == {i \in Index : Classes[i] >= n}
  <1>1. S \in SUBSET Nat /\ Len(Classes) \in S
    BY IndexFacts DEF max_size_class
  <1>2. ClassFor(n) \in S /\ \A i \in S : ClassFor(n) <= i
    BY Zenon, <1>1, SmallestMember DEF ClassFor
  <1> QED BY <1>2, IndexFacts

(***************************************************************************)
(* What a step of one thread leaves to the others                          *)
(***************************************************************************)
Moves(t, l, o) ==
    /\ pc' \in [Thread -> Label] /\ op' \in [Thread -> Locals]
    /\ pc'[t] = l /\ op'[t] = o
    /\ \A u \in Thread \ {t} :
         /\ pc'[u] = pc[u]
         /\ op'[u].size = op[u].size /\ op'[u].index = op[u].index
         /\ op'[u].left = op[u].left /\ op'[u].walked = op[u].walked
         /\ op'[u].old = op[u].old

LEMMA GotoMoves ==
    ASSUME AllocTypeOK, NEW t \in Thread, NEW l \in Label, NEW o \in Locals, Goto(t, l, o)
    PROVE  Moves(t, l, o)
  BY Zenon DEF AllocTypeOK, Goto, Moves

LEMMA DisturbMoves ==
    ASSUME AllocTypeOK, NEW t \in Thread, NEW l \in Label, NEW o \in Locals, NEW c,
           pc' = [pc EXCEPT ![t] = l], Disturb(t, c, o)
    PROVE  Moves(t, l, o)
  <1>1. pc' \in [Thread -> Label] /\ pc'[t] = l /\ \A u \in Thread \ {t} : pc'[u] = pc[u]
    BY Zenon DEF AllocTypeOK
  <1>2. op'[t] = o
    BY Zenon DEF Disturb
  <1>3. ASSUME NEW u \in Thread, u # t
        PROVE  /\ op'[u] \in Locals
               /\ op'[u].size = op[u].size /\ op'[u].index = op[u].index
               /\ op'[u].left = op[u].left /\ op'[u].walked = op[u].walked
               /\ op'[u].old = op[u].old
    <2> DEFINE d == op[u].disturbed \/ (pc[u] = "walk" /\ Head(op[u].left) = c)
    <2>1. op'[u] = [op[u] EXCEPT !.disturbed = d]
      BY Zenon, <1>3 DEF Disturb
    <2>2. d \in BOOLEAN /\ op[u] \in Locals
      BY Zenon DEF AllocTypeOK, Locals
    <2> HIDE DEF d
    <2> QED BY Zenon, <2>1, <2>2 DEF Locals
  <1>4. op' \in [Thread -> Locals]
    <2>1. op' = [u \in Thread |-> op'[u]]
      BY Zenon DEF Disturb
    <2> QED BY Zenon, <1>2, <1>3, <2>1
  <1> QED BY Zenon, <1>1, <1>2, <1>3, <1>4 DEF Moves

LEMMA NoOpTyped == NoOp \in Locals /\ NoOp.old = {}
  BY DEF NoOp, Locals

(***************************************************************************)
(* Steps that leave a part of the state alone                              *)
(***************************************************************************)
\* No mapped carrier changes its class.
ClassesStay ==
    /\ class' \in [Carrier -> Index \cup {0}]
    /\ \A c \in Carrier : class[c] # 0 => class'[c] = class[c]

LEMMA FitsKept ==
    ASSUME ClassesStay, NEW p \in Pieces, Fits(p)
    PROVE  Fits(p)'
  <1>1. CASE p.at \in Carrier
    <2>1. p.size \in Nat /\ p.size <= max_size_class /\ class[p.at] = ClassFor(p.size)
      BY Zenon, <1>1 DEF Fits, Pieces
    <2>2. class[p.at] # 0
      BY Zenon, <2>1, ClassForFacts
    <2> QED BY Zenon, <1>1, <2>1, <2>2 DEF Fits, ClassesStay
  <1>2. CASE p.at \notin Carrier
    BY Zenon, <1>2 DEF Fits
  <1> QED BY Zenon, <1>1, <1>2

LEMMA HeldFits ==
    ASSUME AllocInv, ClassesStay
    PROVE  \A p \in held : Fits(p)'
  BY Zenon, FitsKept DEF AllocInv, AllocTypeOK

\* The locals of the other threads are as before.
LEMMA OthersOK ==
    ASSUME AllocInv, ClassesStay, NEW t \in Thread, NEW l, NEW o, Moves(t, l, o),
           NEW u \in Thread, u # t
    PROVE  LocalsOK(u)'
  <1>0. /\ LocalsOK(u) /\ op[u] \in Locals /\ pc'[u] = pc[u]
        /\ op'[u].size = op[u].size /\ op'[u].index = op[u].index
        /\ op'[u].left = op[u].left /\ op'[u].old = op[u].old
    BY Zenon DEF AllocInv, AllocTypeOK, Moves
  <1>1. pc'[u] \in Sized => op'[u].size <= max_size_class /\ op'[u].index = ClassFor(op'[u].size)
    BY Zenon, <1>0 DEF LocalsOK
  <1>2. ASSUME pc'[u] \in {"next", "walk"}, NEW k \in DOMAIN op'[u].left
        PROVE  op'[u].left[k] \in Carrier /\ class'[op'[u].left[k]] = op'[u].index
    <2>1. op[u].left[k] \in Carrier /\ class[op[u].left[k]] = op[u].index
      BY Zenon, <1>0, <1>2 DEF LocalsOK
    <2>2. op[u].index # 0
      BY Zenon, <1>0, <1>2, ClassForFacts DEF LocalsOK, Sized, Locals
    <2> QED BY Zenon, <1>0, <2>1, <2>2 DEF ClassesStay
  <1>3. /\ pc'[u] = "walk" => op'[u].left # <<>>
        /\ pc'[u] \in {"idle", "dropped", "panic", "undefined"} => op'[u].old = {}
        /\ pc'[u] = "push" => \E r \in Region : op'[u].left = <<r>>
        /\ \A p, q \in op'[u].old : p = q
    BY Zenon, <1>0 DEF LocalsOK
  <1>4. ASSUME pc'[u] = "free_old"
        PROVE  /\ \E c \in Carrier \cup Region : op'[u].left = <<c>>
               /\ Fits(Piece(Head(op[u].left), op[u].index, op[u].size))'
               /\ op'[u].old # {}
    <2>1. PICK c \in Carrier \cup Region : op[u].left = <<c>>
      BY Zenon, <1>0, <1>4 DEF LocalsOK
    <2>2. Piece(c, op[u].index, op[u].size) \in Pieces
      BY Zenon, <1>0 DEF Piece, Pieces, Locals
    <2>p. PICK p \in Pieces : p = Piece(c, op[u].index, op[u].size)
      BY Zenon, <2>2
    <2>3. Head(op[u].left) = c /\ Head(op'[u].left) = c
      BY <1>0, <2>1
    <2>4. Fits(p) /\ op[u].old # {}
      BY Zenon, <1>0, <1>4, <2>p, <2>3 DEF LocalsOK
    <2>5. Fits(p)'
      BY Zenon, <2>4, FitsKept
    <2>6. Piece(Head(op'[u].left), op'[u].index, op'[u].size) = p
      BY Zenon, <1>0, <2>p, <2>3
    <2> QED BY Zenon, <1>0, <2>1, <2>4, <2>5, <2>6 DEF Fits
  <1>5. \A p \in op'[u].old : Fits(p)'
    BY Zenon, <1>0, FitsKept DEF LocalsOK, Locals
  <1> QED BY Zenon, <1>0, <1>1, <1>2, <1>3, <1>4, <1>5 DEF LocalsOK

\* A thread that neither takes nor releases a lock.
LEMMA LocksKept ==
    ASSUME AllocInv, NEW t \in Thread, NEW l, NEW o, Moves(t, l, o), lock' = lock,
           pc[t] \in {"next", "walk"} <=> l \in {"next", "walk"},
           pc[t] = "create" <=> l = "create",
           pc[t] \in {"next", "walk", "create"} => o.index = op[t].index
    PROVE  LocksAreReleased' /\ Locked'
  <1>1. ASSUME NEW u \in Thread
        PROVE  /\ pc[u] \in {"next", "walk"} <=> pc'[u] \in {"next", "walk"}
               /\ pc[u] = "create" <=> pc'[u] = "create"
               /\ pc[u] \in {"next", "walk", "create"} => op'[u].index = op[u].index
    BY Zenon DEF Moves
  <1>2. \A i \in Index : lock[i].readers \subseteq Thread /\ lock[i].writer \subseteq Thread
    BY Zenon DEF AllocInv, AllocTypeOK
  <1>3. LocksAreReleased'
    BY <1>1, <1>2 DEF AllocInv, LocksAreReleased
  <1>4. Locked'
    BY Zenon, <1>1 DEF AllocInv, Locked
  <1> QED BY Zenon, <1>3, <1>4

LEMMA ListsStable ==
    ASSUME AllocInv, NEW t \in Thread, NEW l, NEW o, Moves(t, l, o), carriers' = carriers,
           l \in {"next", "walk"} => o.walked = carriers[o.index]
    PROVE  ListIsStable'
  BY DEF AllocInv, ListIsStable, Moves

LEMMA ListedKept ==
    ASSUME AllocInv, NEW t \in Thread, NEW l, NEW o, Moves(t, l, o),
           class' = class, carriers' = carriers, l # "dropped", pc[t] # "dropped"
    PROVE  Listed'
  <1>1. \A u \in Thread : pc'[u] # "dropped"
    BY DEF AllocInv, Listed, Moves
  <1> QED BY <1>1 DEF AllocInv, Listed

(***************************************************************************)
(* Ownership                                                               *)
(***************************************************************************)
GotAt(l, o) ==
    IF l = "free_old" THEN {Piece(Head(o.left), o.index, o.size)}
    ELSE IF l = "push" THEN {Piece(Head(o.left), 0, o.size)} ELSE {}

\* A step changes the owners' tables only for its thread.
TablesMove(t, l, o) ==
    /\ Old' = [Old EXCEPT ![t] = o.old]
    /\ Got' = [Got EXCEPT ![t] = GotAt(l, o)]
    /\ Old[t] = op[t].old /\ Got[t] = GotAt(pc[t], op[t])

LEMMA OwnersMove ==
    ASSUME NEW t \in Thread, NEW l, NEW o, Moves(t, l, o)
    PROVE  TablesMove(t, l, o)
  <1>1. \A u \in Thread : Got[u] = GotAt(pc[u], op[u])
    BY Zenon DEF Got, GotAt
  <1>2. \A u \in Thread : Got'[u] = GotAt(pc'[u], op'[u])
    BY Zenon DEF Got, GotAt
  <1>3. \A u \in Thread \ {t} : GotAt(pc'[u], op'[u]) = GotAt(pc[u], op[u])
    BY Zenon DEF Moves, GotAt
  <1>4. Got' = [Got EXCEPT ![t] = GotAt(l, o)]
    <2>1. Got' = [u \in Thread |-> Got'[u]] /\ Got = [u \in Thread |-> Got[u]]
      BY Zenon DEF Got
    <2> QED BY <1>1, <1>2, <1>3, <2>1 DEF Moves
  <1>5. Old' = [Old EXCEPT ![t] = o.old] /\ Old[t] = op[t].old
    BY Zenon DEF Old, Moves
  <1> QED BY Zenon, <1>1, <1>4, <1>5 DEF TablesMove

LEMMA TablesTyped == AllocInv => Old \in [Thread -> SUBSET Pieces] /\ Got \in [Thread -> SUBSET Pieces]
  <1> SUFFICES ASSUME AllocInv
               PROVE  Old \in [Thread -> SUBSET Pieces] /\ Got \in [Thread -> SUBSET Pieces]
    BY Zenon
  <1>1. ASSUME NEW t \in Thread
        PROVE  op[t].old \in SUBSET Pieces /\ GotAt(pc[t], op[t]) \in SUBSET Pieces
    <2>1. op[t] \in Locals /\ LocalsOK(t)
      BY Zenon DEF AllocInv, AllocTypeOK
    <2>2. ASSUME pc[t] \in {"push", "free_old"} PROVE Head(op[t].left) \in Carrier \cup Region
      <3>1. PICK c \in Carrier \cup Region : op[t].left = <<c>>
        BY Zenon, <2>1, <2>2 DEF LocalsOK
      <3> QED BY <3>1
    <2>3. op[t].old \in SUBSET Pieces /\ op[t].size \in Nat /\ op[t].index \in Nat
      BY Zenon, <2>1 DEF Locals
    <2>4. \A c \in Carrier \cup Region, b \in Nat : Piece(c, b, op[t].size) \in Pieces
      BY Zenon, <2>3 DEF Piece, Pieces
    <2>5. pc[t] \in {"push", "free_old"} =>
             /\ Piece(Head(op[t].left), op[t].index, op[t].size) \in Pieces
             /\ Piece(Head(op[t].left), 0, op[t].size) \in Pieces
      BY Zenon, <2>2, <2>3, <2>4
    <2> QED BY Zenon, <2>3, <2>5 DEF GotAt
  <1>2. Got = [t \in Thread |-> GotAt(pc[t], op[t])]
    BY Zenon DEF Got, GotAt
  <1>3. Old \in [Thread -> SUBSET Pieces]
    BY Zenon, <1>1 DEF Old
  <1>4. Got \in [Thread -> SUBSET Pieces]
    BY Zenon, <1>1, <1>2
  <1> QED BY Zenon, <1>3, <1>4

\* What comes to the callers, to a thread, or back, and what is freed.
LEMMA CallersGet ==
    ASSUME NEW places, NEW h, NEW o, NEW g, Owned(places, h, o, g),
           NEW p, Place(p) \notin places
    PROVE  Owned(places \cup {Place(p)}, h \cup {p}, o, g)
  <1>1. \A q \in h : Place(q) # Place(p)
    BY Zenon DEF Owned
  <1>2. \A t \in Thread : \A q \in o[t] \cup g[t] : Place(q) # Place(p)
    BY Zenon DEF Owned
  <1> QED BY Zenon, <1>1, <1>2 DEF Owned

LEMMA ThreadGets ==
    ASSUME NEW places, NEW h, NEW o, NEW g \in [Thread -> SUBSET Pieces], Owned(places, h, o, g),
           NEW t \in Thread, g[t] = {}, NEW p \in Pieces, Place(p) \notin places
    PROVE  Owned(places \cup {Place(p)}, h, o, [g EXCEPT ![t] = {p}])
  <1> DEFINE f == [g EXCEPT ![t] = {p}]
  <1>1. f[t] = {p} /\ \A u \in Thread : u # t => f[u] = g[u]
    BY Zenon
  <1>2. \A q \in h : Place(q) # Place(p)
    BY Zenon DEF Owned
  <1>3. \A u \in Thread : \A q \in o[u] \cup g[u] : Place(q) # Place(p)
    BY Zenon DEF Owned
  <1> HIDE DEF f
  <1>4. \A x : x \in places \cup {Place(p)} <=>
                 \/ \E q \in h : Place(q) = x
                 \/ \E u \in Thread : \E q \in o[u] \cup f[u] : Place(q) = x
    <2> TAKE x
    <2>1. (\E u \in Thread : \E q \in o[u] \cup f[u] : Place(q) = x) <=>
             \/ x = Place(p)
             \/ \E u \in Thread : \E q \in o[u] \cup g[u] : Place(q) = x
      BY Zenon, <1>1
    <2> QED BY Zenon, <2>1 DEF Owned
  <1>5. /\ \A a \in h : \A u \in Thread : \A b \in o[u] \cup f[u] : Place(a) # Place(b)
        /\ \A u, v \in Thread : \A a \in o[u], b \in f[v] : Place(a) # Place(b)
        /\ \A u, v \in Thread : \A a \in f[u], b \in f[v] : Place(a) = Place(b) => u = v /\ a = b
    BY <1>1, <1>2, <1>3 DEF Owned
  <1>6. Owned(places \cup {Place(p)}, h, o, f)
    BY Zenon, <1>4, <1>5 DEF Owned
  <1> QED BY Zenon, <1>6 DEF f

LEMMA ThreadReturnsGot ==
    ASSUME NEW places, NEW h, NEW o, NEW g \in [Thread -> SUBSET Pieces], Owned(places, h, o, g),
           NEW t \in Thread
    PROVE  Owned(places, h \cup g[t], o, [g EXCEPT ![t] = {}])
  <1> DEFINE f == [g EXCEPT ![t] = {}]
  <1>1. f[t] = {} /\ \A u \in Thread : u # t => f[u] = g[u]
    BY Zenon
  <1> HIDE DEF f
  <1>2. \A x : x \in places <=> \/ \E q \in h \cup g[t] : Place(q) = x
                                \/ \E u \in Thread : \E q \in o[u] \cup f[u] : Place(q) = x
    BY Zenon, <1>1 DEF Owned
  <1>3. /\ \A a, b \in h \cup g[t] : Place(a) = Place(b) => a = b
        /\ \A a \in h \cup g[t] : \A u \in Thread : \A b \in o[u] \cup f[u] : Place(a) # Place(b)
    BY <1>1 DEF Owned
  <1>4. /\ \A u, v \in Thread : \A a \in o[u], b \in f[v] : Place(a) # Place(b)
        /\ \A u, v \in Thread : \A a \in f[u], b \in f[v] : Place(a) = Place(b) => u = v /\ a = b
    BY <1>1 DEF Owned
  <1>5. Owned(places, h \cup g[t], o, f)
    BY Zenon, <1>2, <1>3, <1>4 DEF Owned
  <1> QED BY Zenon, <1>5 DEF f

LEMMA ThreadReturnsOld ==
    ASSUME NEW places, NEW h, NEW g, NEW o \in [Thread -> SUBSET Pieces], Owned(places, h, o, g),
           NEW t \in Thread
    PROVE  Owned(places, h \cup o[t], [o EXCEPT ![t] = {}], g)
  <1> DEFINE f == [o EXCEPT ![t] = {}]
  <1>1. f[t] = {} /\ \A u \in Thread : u # t => f[u] = o[u]
    BY Zenon
  <1> HIDE DEF f
  <1>2. \A x : x \in places <=> \/ \E q \in h \cup o[t] : Place(q) = x
                                \/ \E u \in Thread : \E q \in f[u] \cup g[u] : Place(q) = x
    BY Zenon, <1>1 DEF Owned
  <1>3. /\ \A a, b \in h \cup o[t] : Place(a) = Place(b) => a = b
        /\ \A a \in h \cup o[t] : \A u \in Thread : \A b \in f[u] \cup g[u] : Place(a) # Place(b)
    BY <1>1 DEF Owned
  <1>4. /\ \A u, v \in Thread : \A a \in f[u], b \in g[v] : Place(a) # Place(b)
        /\ \A u, v \in Thread : \A a \in f[u], b \in f[v] : Place(a) = Place(b) => u = v /\ a = b
    BY <1>1 DEF Owned
  <1>5. Owned(places, h \cup o[t], f, g)
    BY Zenon, <1>2, <1>3, <1>4 DEF Owned
  <1> QED BY Zenon, <1>5 DEF f

LEMMA CallerGivesBack ==
    ASSUME NEW places, NEW h \in SUBSET Pieces, NEW g, NEW o \in [Thread -> SUBSET Pieces],
           Owned(places, h, o, g), NEW t \in Thread, o[t] = {}, NEW p \in h
    PROVE  Owned(places, h \ {p}, [o EXCEPT ![t] = {p}], g)
  <1> DEFINE f == [o EXCEPT ![t] = {p}]
  <1>1. f[t] = {p} /\ \A u \in Thread : u # t => f[u] = o[u]
    BY Zenon
  <1> HIDE DEF f
  <1>2. \A x : x \in places <=> \/ \E q \in h \ {p} : Place(q) = x
                                \/ \E u \in Thread : \E q \in f[u] \cup g[u] : Place(q) = x
    BY <1>1 DEF Owned
  <1>3. \A a \in h \ {p} : \A u \in Thread : \A b \in f[u] \cup g[u] : Place(a) # Place(b)
    BY <1>1 DEF Owned
  <1>4. /\ \A u, v \in Thread : \A a \in f[u], b \in g[v] : Place(a) # Place(b)
        /\ \A u, v \in Thread : \A a \in f[u], b \in f[v] : Place(a) = Place(b) => u = v /\ a = b
    BY <1>1 DEF Owned
  <1>5. \A a, b \in h \ {p} : Place(a) = Place(b) => a = b
    BY Zenon DEF Owned
  <1>6. Owned(places, h \ {p}, f, g)
    BY Zenon, <1>2, <1>3, <1>4, <1>5 DEF Owned
  <1> QED BY Zenon, <1>6 DEF f

LEMMA CallerFrees ==
    ASSUME NEW places, NEW h, NEW o, NEW g, Owned(places, h, o, g), NEW p \in h
    PROVE  Owned(places \ {Place(p)}, h \ {p}, o, g)
  <1>1. \A x : x \in places \ {Place(p)} <=>
                 \/ \E q \in h \ {p} : Place(q) = x
                 \/ \E u \in Thread : \E q \in o[u] \cup g[u] : Place(q) = x
    BY Zenon DEF Owned
  <1> QED BY Zenon, <1>1 DEF Owned

LEMMA ThreadFrees ==
    ASSUME NEW places, NEW h, NEW g, NEW o \in [Thread -> SUBSET Pieces],
           Owned(places, h, o, g), NEW t \in Thread, NEW p, o[t] = {p}
    PROVE  Owned(places \ {Place(p)}, h, [o EXCEPT ![t] = {}], g)
  <1> DEFINE f == [o EXCEPT ![t] = {}]
  <1>1. f[t] = {} /\ \A u \in Thread : u # t => f[u] = o[u]
    BY Zenon
  <1> HIDE DEF f
  <1>2. \A x : x \in places \ {Place(p)} <=>
                 \/ \E q \in h : Place(q) = x
                 \/ \E u \in Thread : \E q \in f[u] \cup g[u] : Place(q) = x
    BY <1>1 DEF Owned
  <1>3. /\ \A a \in h : \A u \in Thread : \A b \in f[u] \cup g[u] : Place(a) # Place(b)
        /\ \A u, v \in Thread : \A a \in f[u], b \in g[v] : Place(a) # Place(b)
        /\ \A u, v \in Thread : \A a \in f[u], b \in f[v] : Place(a) = Place(b) => u = v /\ a = b
    BY <1>1 DEF Owned
  <1>4. Owned(places \ {Place(p)}, h, f, g)
    BY Zenon, <1>2, <1>3 DEF Owned
  <1> QED BY Zenon, <1>4 DEF f

LEMMA CallerResizes ==
    ASSUME NEW places, NEW h, NEW o, NEW g, Owned(places, h, o, g),
           NEW p \in h, NEW q, Place(q) = Place(p)
    PROVE  Owned(places, (h \ {p}) \cup {q}, o, g)
  <1>1. \A x : (\E a \in (h \ {p}) \cup {q} : Place(a) = x) <=> \E a \in h : Place(a) = x
    BY Zenon
  <1>2. \A a, b \in (h \ {p}) \cup {q} : Place(a) = Place(b) => a = b
    BY Zenon DEF Owned
  <1>3. \A a \in (h \ {p}) \cup {q} : \E b \in h : Place(a) = Place(b)
    BY Zenon
  <1> QED BY <1>1, <1>2, <1>3 DEF Owned

(***************************************************************************)
(* A step of one thread, from its parts                                    *)
(***************************************************************************)
SharedTyped ==
    /\ carriers' \in [Index -> Seq(Carrier)]
    /\ lock' \in [Index -> [readers : SUBSET Thread, writer : SUBSET Thread]]
    /\ used' \subseteq Carrier \X (Nat \ {0})
    /\ held' \subseteq Pieces
    /\ region' \subseteq Region
    /\ sbc' \subseteq Region

LEMMA Together ==
    ASSUME AllocInv, NEW t \in Thread, NEW l, NEW o, Moves(t, l, o),
           ClassesStay, SharedTyped, LocalsOK(t)', \A p \in held' : Fits(p)',
           LocksAreReleased', Locked', ListIsStable', Listed',
           Defined' => Owners' /\ LinkedWhileMapped'
    PROVE  AllocInv'
  <1>1. AllocTypeOK'
    BY Zenon DEF AllocTypeOK, SharedTyped, ClassesStay, Moves
  <1>2. \A u \in Thread : LocalsOK(u)'
    BY Zenon, OthersOK
  <1>3. (\A p \in held : Fits(p))'
    BY Zenon
  <1> QED BY Zenon, <1>1, <1>2, <1>3 DEF AllocInv

LEMMA OwnersPrimed == Owned(InUse', held', Old', Got') => Owners'
  BY Zenon DEF Owners, Owned

LEMMA LinkedKept ==
    ASSUME AllocInv, Defined, NEW t \in Thread, NEW l, NEW o, Moves(t, l, o),
           region' = region, sbc' = sbc, pc[t] # "push"
    PROVE  LinkedWhileMapped'
  <1>1. /\ sbc \subseteq region
        /\ \A r \in region \ sbc : \E u \in Thread : pc[u] = "push" /\ op[u].left = <<r>>
    BY Zenon DEF AllocInv, LinkedWhileMapped
  <1>2. \A u \in Thread : pc[u] = "push" => pc'[u] = "push" /\ op'[u].left = op[u].left
    BY Zenon DEF Moves
  <1>3. ASSUME NEW r \in region' \ sbc'
        PROVE  \E u \in Thread : pc'[u] = "push" /\ op'[u].left = <<r>>
    BY Zenon, <1>1, <1>2, <1>3
  <1> QED BY Zenon, <1>1, <1>3 DEF LinkedWhileMapped

LEMMA UnchangedTyped ==
    ASSUME AllocInv, UNCHANGED <<class, carriers, lock, used, held, region, sbc>>
    PROVE  ClassesStay /\ SharedTyped /\ InUse' = InUse
  BY Zenon DEF AllocInv, AllocTypeOK, ClassesStay, SharedTyped, InUse

\* A thread that has the same pieces before and after.
LEMMA SameOwners ==
    ASSUME AllocInv, Defined, NEW t \in Thread, NEW l, NEW o, Moves(t, l, o),
           InUse' = InUse, held' = held, o.old = op[t].old,
           pc[t] \notin {"push", "free_old"}, l \notin {"push", "free_old"}
    PROVE  Owners'
  <1>1. GotAt(l, o) = GotAt(pc[t], op[t])
    BY Zenon DEF GotAt
  <1>2. /\ Old' = [Old EXCEPT ![t] = o.old] /\ Old[t] = op[t].old
        /\ Got' = [Got EXCEPT ![t] = GotAt(l, o)] /\ Got[t] = GotAt(pc[t], op[t])
    <2>1. TablesMove(t, l, o)
      BY ONLY Zenon, OwnersMove, Moves(t, l, o), t \in Thread
    <2> QED BY ONLY Zenon, <2>1 DEF TablesMove
  <1>3. Old' = [Old EXCEPT ![t] = Old[t]] /\ Got' = [Got EXCEPT ![t] = Got[t]]
    BY Zenon, <1>1, <1>2
  <1>4. Old \in [Thread -> SUBSET Pieces] /\ Got \in [Thread -> SUBSET Pieces]
    BY Zenon, TablesTyped
  <1>5. Old' = Old /\ Got' = Got
    BY Zenon, <1>3, <1>4
  <1> QED BY Zenon, <1>5, OwnersPrimed DEF AllocInv, Owners

\* A step that only moves its thread on, with the same pieces and locks.
LEMMA QuietStep ==
    ASSUME AllocInv, Defined, NEW t \in Thread, NEW l, NEW o, Moves(t, l, o),
           UNCHANGED <<class, carriers, lock, used, held, region, sbc>>,
           pc[t] \in {"next", "walk"} <=> l \in {"next", "walk"},
           l \in {"next", "walk"} => o.index = op[t].index /\ o.walked = op[t].walked,
           pc[t] \notin {"create", "push", "free_old", "dropped"},
           l \notin {"create", "push", "free_old", "dropped"},
           o.old = op[t].old, LocalsOK(t)'
    PROVE  AllocInv'
  <1>1. ClassesStay /\ SharedTyped /\ InUse' = InUse
    BY Zenon, UnchangedTyped
  <1>2. \A p \in held' : Fits(p)'
    BY Zenon, <1>1, HeldFits
  <1>3. LocksAreReleased' /\ Locked'
    BY Zenon, LocksKept
  <1>4. l \in {"next", "walk"} => o.walked = carriers[o.index]
    BY Zenon DEF AllocInv, ListIsStable
  <1>5. ListIsStable' /\ Listed'
    BY Zenon, <1>4, ListsStable, ListedKept
  <1>7. Owners'
    BY Zenon, <1>1, SameOwners
  <1>8. LinkedWhileMapped'
    BY Zenon, LinkedKept
  <1> QED BY Zenon, <1>1, <1>2, <1>3, <1>5, <1>7, <1>8, Together

(***************************************************************************)
(* allocate and the locks                                                  *)
(***************************************************************************)
\* What the invariant says of one thread.
LEMMA ThreadFacts ==
    ASSUME AllocInv, NEW t \in Thread
    PROVE  /\ op[t] \in Locals /\ pc[t] \in Label /\ LocalsOK(t) /\ AllocTypeOK
           /\ pc[t] \in Sized => /\ op[t].index \in Index /\ op[t].index # 0
                                 /\ op[t].size <= Classes[op[t].index]
                                 /\ op[t].index = ClassFor(op[t].size)
                                 /\ op[t].size <= max_size_class
  <1>1. op[t] \in Locals /\ pc[t] \in Label /\ LocalsOK(t) /\ AllocTypeOK
    BY Zenon DEF AllocInv, AllocTypeOK
  <1>2. ASSUME pc[t] \in Sized
        PROVE  /\ op[t].index \in Index /\ op[t].index # 0
               /\ op[t].size <= Classes[op[t].index]
               /\ op[t].index = ClassFor(op[t].size)
               /\ op[t].size <= max_size_class
    <2>1. op[t].size \in Nat /\ op[t].size <= max_size_class /\ op[t].index = ClassFor(op[t].size)
      BY Zenon, <1>1, <1>2 DEF LocalsOK, Locals
    <2> QED BY Zenon, <2>1, ClassForFacts
  <1> QED BY Zenon, <1>1, <1>2

LEMMA AllocateSafe ==
    ASSUME AllocInv, Defined, NEW t \in Thread, NEW size \in Sizes,
           (size < sbc_threshold /\ Allocate(t, size) /\ UNCHANGED large) \/ AllocLarge(t, size)
    PROVE  AllocInv'
  <1>0. size \in Nat /\ pc[t] = "idle" /\ op[t].old = {}
    BY Zenon, SizeClassAssumption, ThreadFacts DEF Allocate, AllocLarge, LocalsOK
  <1>1. CASE size < sbc_threshold /\ Allocate(t, size) /\ UNCHANGED large
    <2> DEFINE o == [NoOp EXCEPT !.size = size, !.index = ClassFor(size)]
    <2>1. size <= max_size_class /\ ClassFor(size) \in Nat
      BY Zenon, <1>0, <1>1, ClassForFacts DEF Allocate
    <2>2. o \in Locals /\ o.old = {} /\ o.size = size /\ o.index = ClassFor(size)
      BY Zenon, <1>0, <2>1, NoOpTyped DEF Locals
    <2>3. Moves(t, "read", o)
      BY Zenon, <1>1, <2>2, GotoMoves DEF Allocate, Label, AllocInv
    <2> HIDE DEF o
    <2>4. LocalsOK(t)'
      BY Zenon, <2>1, <2>2, <2>3 DEF LocalsOK, Moves
    <2>5. UNCHANGED <<class, carriers, lock, used, held, region, sbc>>
      BY Zenon, <1>1 DEF Allocate, large
    <2> QED BY Zenon, <1>0, <2>2, <2>3, <2>4, <2>5, QuietStep
  <1>2. CASE AllocLarge(t, size)
    <2> DEFINE o == [NoOp EXCEPT !.size = size]
    <2>2. o \in Locals /\ o.old = {}
      BY Zenon, <1>0, NoOpTyped DEF Locals
    <2>3. Moves(t, "map_large", o)
      BY Zenon, <1>2, <2>2, GotoMoves DEF AllocLarge, Label, AllocInv
    <2> HIDE DEF o
    <2>4. LocalsOK(t)'
      BY Zenon, <2>2, <2>3 DEF LocalsOK, Moves, Sized
    <2>5. UNCHANGED <<class, carriers, lock, used, held, region, sbc>>
      BY Zenon, <1>2 DEF AllocLarge
    <2> QED BY Zenon, <1>0, <2>2, <2>3, <2>4, <2>5, QuietStep
  <1> QED BY Zenon, <1>1, <1>2

LEMMA WalkFailsSafe ==
    ASSUME AllocInv, Defined, NEW t \in Thread, WalkFails(t), UNCHANGED large
    PROVE  AllocInv'
  <1> DEFINE o == [op[t] EXCEPT !.left = Tail(op[t].left)]
  <1>0. op[t] \in Locals /\ LocalsOK(t) /\ AllocTypeOK /\ pc[t] = "walk"
    BY Zenon, ThreadFacts DEF WalkFails
  <1>1. /\ op[t].left \in Seq(Carrier \cup Region) /\ op[t].left # <<>>
        /\ \A k \in DOMAIN op[t].left : op[t].left[k] \in Carrier /\ class[op[t].left[k]] = op[t].index
    BY Zenon, <1>0 DEF LocalsOK, Locals
  <1>2. /\ Tail(op[t].left) \in Seq(Carrier \cup Region)
        /\ \A k \in DOMAIN Tail(op[t].left) :
              k + 1 \in DOMAIN op[t].left /\ Tail(op[t].left)[k] = op[t].left[k + 1]
    BY <1>1
  <1>3. /\ o \in Locals /\ o.left = Tail(op[t].left) /\ o.index = op[t].index /\ o.size = op[t].size
        /\ o.walked = op[t].walked /\ o.old = op[t].old
    BY Zenon, <1>0, <1>2 DEF Locals
  <1>4. Moves(t, "next", o)
    BY Zenon, <1>0, <1>3, GotoMoves DEF WalkFails, Label
  <1>5. UNCHANGED <<class, carriers, lock, used, held, region, sbc>>
    BY Zenon DEF WalkFails, large
  <1> HIDE DEF o
  <1>6. \A k \in DOMAIN o.left : o.left[k] \in Carrier /\ class'[o.left[k]] = o.index
    BY <1>1, <1>2, <1>3, <1>5
  <1>7. \A p \in op[t].old : Fits(p)'
    BY Zenon, <1>0, <1>5 DEF LocalsOK, Fits
  <1>8. LocalsOK(t)'
    BY Zenon, <1>0, <1>3, <1>4, <1>6, <1>7 DEF LocalsOK, Moves, Sized
  <1> QED BY Zenon, <1>0, <1>3, <1>4, <1>5, <1>8, QuietStep

LEMMA ReadLockSafe ==
    ASSUME AllocInv, Defined, NEW t \in Thread, ReadLock(t), UNCHANGED large
    PROVE  AllocInv'
  <1> DEFINE i == op[t].index
             o == [op[t] EXCEPT !.left = carriers[i], !.walked = carriers[i]]
  <1>0. op[t] \in Locals /\ LocalsOK(t) /\ AllocTypeOK /\ pc[t] = "read"
        /\ i \in Index /\ carriers[i] \in Seq(Carrier)
    BY Zenon, ThreadFacts DEF ReadLock, Sized, AllocTypeOK
  <1>s. carriers[i] \in Seq(Carrier \cup Region)
    BY <1>0
  <1>1. /\ o \in Locals /\ o.left = carriers[i] /\ o.index = i /\ o.size = op[t].size
        /\ o.walked = carriers[i] /\ o.old = op[t].old /\ i = op[t].index
    BY Zenon, <1>0, <1>s DEF Locals
  <1>2. Moves(t, "next", o)
    BY Zenon, <1>0, <1>1, GotoMoves DEF ReadLock, Label
  <1>3. /\ UNCHANGED <<class, carriers, used, held, region, sbc>>
        /\ lock[i].writer = {}
        /\ lock' = [lock EXCEPT ![i].readers = lock[i].readers \cup {t}]
    BY Zenon DEF ReadLock, large
  <1> HIDE DEF o
  <1>4. /\ lock' \in [Index -> [readers : SUBSET Thread, writer : SUBSET Thread]]
        /\ lock'[i].readers = lock[i].readers \cup {t} /\ lock'[i].writer = {}
        /\ \A j \in Index : lock'[j].writer = lock[j].writer /\ (j # i => lock'[j] = lock[j])
    BY Zenon, <1>0, <1>3 DEF AllocTypeOK
  <1> HIDE DEF i
  <1>5. ClassesStay /\ SharedTyped /\ InUse' = InUse
    BY Zenon, <1>0, <1>3, <1>4 DEF AllocTypeOK, ClassesStay, SharedTyped, InUse
  <1>6. LocalsOK(t)'
    <2>1. \A k \in DOMAIN o.left : o.left[k] \in Carrier /\ class'[o.left[k]] = o.index
      BY <1>0, <1>1, <1>3 DEF AllocInv, Listed
    <2>2. \A p \in op[t].old : Fits(p)'
      BY Zenon, <1>0, <1>3 DEF LocalsOK, Fits
    <2> QED BY Zenon, <1>0, <1>1, <1>2, <2>1, <2>2 DEF LocalsOK, Moves, Sized
  <1>7. LocksAreReleased'
    <2>1. \A u \in Thread : u # t => pc'[u] = pc[u] /\ op'[u].index = op[u].index
      BY Zenon, <1>2 DEF Moves
    <2>2. pc'[t] = "next" /\ op'[t].index = i
      BY Zenon, <1>1, <1>2 DEF Moves
    <2>3. \A j \in Index : t \notin lock[j].readers /\ t \notin lock[j].writer
                           /\ lock[j].readers \subseteq Thread /\ lock[j].writer \subseteq Thread
      BY Zenon, <1>0 DEF AllocInv, LocksAreReleased, AllocTypeOK
    <2> QED BY <1>4, <2>1, <2>2, <2>3 DEF AllocInv, LocksAreReleased
  <1>8. Locked'
    <2>1. \A u \in Thread : u # t => pc'[u] = pc[u] /\ op'[u].index = op[u].index
      BY <1>2 DEF Moves
    <2>2. pc'[t] = "next" /\ op'[t].index = i
      BY <1>1, <1>2 DEF Moves
    <2>3. \A u \in Thread : pc[u] \in Sized => op[u].index \in Index
      BY Zenon, ThreadFacts
    <2> QED BY <1>4, <2>1, <2>2, <2>3 DEF AllocInv, Locked, Sized
  <1>9. ListIsStable' /\ Listed'
    BY Zenon, <1>0, <1>1, <1>2, <1>3, ListsStable, ListedKept
  <1>10. Owners'
    BY Zenon, <1>0, <1>1, <1>2, <1>3, <1>5, SameOwners
  <1>11. LinkedWhileMapped'
    BY Zenon, <1>0, <1>2, <1>3, LinkedKept
  <1>12. \A p \in held' : Fits(p)'
    BY Zenon, <1>3, <1>5, HeldFits
  <1> QED BY Zenon, <1>2, <1>5, <1>6, <1>7, <1>8, <1>9, <1>10, <1>11, <1>12, Together

\* A reader gives its lock back.
LEMMA ReaderLeaves ==
    ASSUME AllocInv, NEW t \in Thread, NEW l, NEW o, Moves(t, l, o),
           pc[t] \in {"next", "walk"}, l \notin {"next", "walk", "create"},
           lock' = [lock EXCEPT ![op[t].index].readers = @ \ {t}]
    PROVE  /\ lock' \in [Index -> [readers : SUBSET Thread, writer : SUBSET Thread]]
           /\ LocksAreReleased' /\ Locked'
  <1>0. PICK i \in Index : i = op[t].index
    BY Zenon, ThreadFacts DEF Sized
  <1>1. /\ lock' \in [Index -> [readers : SUBSET Thread, writer : SUBSET Thread]]
        /\ lock'[i].readers = lock[i].readers \ {t}
        /\ \A j \in Index : /\ lock'[j].writer = lock[j].writer
                            /\ j # i => lock'[j].readers = lock[j].readers
    BY Zenon, <1>0 DEF AllocInv, AllocTypeOK
  <1>2. /\ \A u \in Thread : u # t => pc'[u] = pc[u] /\ op'[u].index = op[u].index
        /\ pc'[t] = l
    BY Zenon DEF Moves
  <1>3. \A j \in Index : /\ t \notin lock[j].writer
                         /\ t \in lock[j].readers => j = i
                         /\ lock[j].readers \subseteq Thread /\ lock[j].writer \subseteq Thread
    BY <1>0 DEF AllocInv, LocksAreReleased, AllocTypeOK
  <1>4. LocksAreReleased'
    BY <1>1, <1>2, <1>3 DEF AllocInv, LocksAreReleased
  <1>5. \A u \in Thread : pc[u] \in {"next", "walk", "create"} => op[u].index \in Index
    BY Zenon, ThreadFacts DEF Sized
  <1>6. Locked'
    BY <1>1, <1>2, <1>5 DEF AllocInv, Locked
  <1> QED BY Zenon, <1>1, <1>4, <1>6

\* The writer gives its lock back.
LEMMA WriterLeaves ==
    ASSUME AllocInv, NEW t \in Thread, NEW l, NEW o, Moves(t, l, o),
           pc[t] = "create", l \notin {"next", "walk", "create"},
           lock' = [lock EXCEPT ![op[t].index].writer = {}]
    PROVE  /\ lock' \in [Index -> [readers : SUBSET Thread, writer : SUBSET Thread]]
           /\ LocksAreReleased' /\ Locked'
  <1>0. PICK i \in Index : i = op[t].index
    BY Zenon, ThreadFacts DEF Sized
  <1>1. /\ lock' \in [Index -> [readers : SUBSET Thread, writer : SUBSET Thread]]
        /\ lock'[i].writer = {}
        /\ \A j \in Index : /\ lock'[j].readers = lock[j].readers
                            /\ j # i => lock'[j].writer = lock[j].writer
    BY Zenon, <1>0 DEF AllocInv, AllocTypeOK
  <1>2. /\ \A u \in Thread : u # t => pc'[u] = pc[u] /\ op'[u].index = op[u].index
        /\ pc'[t] = l
    BY Zenon DEF Moves
  <1>3. \A j \in Index : /\ t \notin lock[j].readers
                         /\ t \in lock[j].writer => j = i
                         /\ lock[j].readers \subseteq Thread /\ lock[j].writer \subseteq Thread
    BY Zenon, <1>0 DEF AllocInv, LocksAreReleased, AllocTypeOK
  <1>4. LocksAreReleased'
    BY <1>1, <1>2, <1>3 DEF AllocInv, LocksAreReleased
  <1>5. \A u \in Thread : pc[u] \in {"next", "walk", "create"} => op[u].index \in Index
    BY Zenon, ThreadFacts DEF Sized
  <1>6. ASSUME NEW u \in Thread, pc'[u] = "create" PROVE lock'[op'[u].index].writer = {u}
    <2>1. u # t /\ pc[u] = "create" /\ op'[u].index = op[u].index /\ op[u].index \in Index
      BY Zenon, <1>2, <1>5, <1>6
    <2>2. lock[op[u].index].writer = {u} /\ lock[i].writer = {t}
      BY Zenon, <1>0, <2>1 DEF AllocInv, Locked
    <2> QED BY <1>1, <2>1, <2>2
  <1>7. Locked'
    BY <1>1, <1>2, <1>5, <1>6 DEF AllocInv, Locked
  <1> QED BY Zenon, <1>1, <1>4, <1>7

LEMMA NextCarrierSafe ==
    ASSUME AllocInv, Defined, NEW t \in Thread, NextCarrier(t), UNCHANGED large
    PROVE  AllocInv'
  <1>0. op[t] \in Locals /\ LocalsOK(t) /\ AllocTypeOK /\ pc[t] = "next"
    BY Zenon, ThreadFacts DEF NextCarrier
  <1>1. CASE op[t].left # <<>>
    <2> DEFINE o == [op[t] EXCEPT !.disturbed = FALSE]
    <2>1. /\ o \in Locals /\ o.left = op[t].left /\ o.index = op[t].index /\ o.size = op[t].size
          /\ o.walked = op[t].walked /\ o.old = op[t].old
      BY Zenon, <1>0 DEF Locals
    <2>2. Moves(t, "walk", o)
      BY Zenon, <1>0, <1>1, <2>1, GotoMoves DEF NextCarrier, Label
    <2>3. UNCHANGED <<class, carriers, lock, used, held, region, sbc>>
      BY Zenon, <1>1 DEF NextCarrier, large
    <2> HIDE DEF o
    <2>4. \A p \in op[t].old : Fits(p)'
      BY Zenon, <1>0, <2>3 DEF LocalsOK, Fits
    <2>5. LocalsOK(t)'
      BY Zenon, <1>0, <1>1, <2>1, <2>2, <2>3, <2>4 DEF LocalsOK, Moves, Sized
    <2> QED BY Zenon, <1>0, <2>1, <2>2, <2>3, <2>5, QuietStep
  <1>2. CASE op[t].left = <<>>
    <2>1. Moves(t, "write", op[t])
      BY Zenon, <1>0, <1>2, GotoMoves DEF NextCarrier, Label
    <2>2. /\ UNCHANGED <<class, carriers, used, held, region, sbc>>
          /\ lock' = [lock EXCEPT ![op[t].index].readers = @ \ {t}]
      BY Zenon, <1>2 DEF NextCarrier, large
    <2>3. /\ lock' \in [Index -> [readers : SUBSET Thread, writer : SUBSET Thread]]
          /\ LocksAreReleased' /\ Locked'
      BY Zenon, <1>0, <2>1, <2>2, ReaderLeaves
    <2>4. ClassesStay /\ SharedTyped /\ InUse' = InUse
      BY Zenon, <1>0, <2>2, <2>3 DEF AllocTypeOK, ClassesStay, SharedTyped, InUse
    <2>5. \A p \in op[t].old : Fits(p)'
      BY Zenon, <1>0, <2>2 DEF LocalsOK, Fits
    <2>6. LocalsOK(t)'
      BY Zenon, <1>0, <2>1, <2>5 DEF LocalsOK, Moves, Sized
    <2>7. ListIsStable' /\ Listed'
      BY Zenon, <1>0, <2>1, <2>2, ListsStable, ListedKept
    <2>8. Owners'
      <3>1. PICK o \in Locals : o = op[t]
        BY Zenon, <1>0
      <3>2. Moves(t, "write", o) /\ o.old = op[t].old
        BY Zenon, <2>1, <3>1
      <3> QED BY Zenon, <1>0, <2>2, <2>4, <3>2, SameOwners
    <2>9. LinkedWhileMapped'
      BY Zenon, <1>0, <2>1, <2>2, LinkedKept
    <2>10. \A p \in held' : Fits(p)'
      BY Zenon, <2>2, <2>4, HeldFits
    <2> QED BY Zenon, <2>1, <2>3, <2>4, <2>6, <2>7, <2>8, <2>9, <2>10, Together
  <1> QED BY Zenon, <1>1, <1>2

LEMMA WriteLockSafe ==
    ASSUME AllocInv, Defined, NEW t \in Thread, WriteLock(t), UNCHANGED large
    PROVE  AllocInv'
  <1>0. /\ op[t] \in Locals /\ LocalsOK(t) /\ AllocTypeOK /\ pc[t] = "write"
        /\ op[t].index \in Index
    BY Zenon, ThreadFacts DEF WriteLock, Sized
  <1>i. PICK i \in Index : i = op[t].index
    BY Zenon, <1>0
  <1>1. Moves(t, "create", op[t])
    BY Zenon, <1>0, GotoMoves DEF WriteLock, Label
  <1>2. /\ UNCHANGED <<class, carriers, used, held, region, sbc>>
        /\ lock[i].writer = {} /\ lock[i].readers = {}
        /\ lock' = [lock EXCEPT ![i].writer = {t}]
    BY Zenon, <1>i DEF WriteLock, Unlocked, large
  <1>3. /\ lock' \in [Index -> [readers : SUBSET Thread, writer : SUBSET Thread]]
        /\ lock'[i].writer = {t}
        /\ \A j \in Index : /\ lock'[j].readers = lock[j].readers
                            /\ j # i => lock'[j].writer = lock[j].writer
    BY Zenon, <1>0, <1>2 DEF AllocTypeOK
  <1>4. /\ \A u \in Thread : u # t => pc'[u] = pc[u] /\ op'[u].index = op[u].index
        /\ pc'[t] = "create" /\ op'[t].index = i
    BY Zenon, <1>1, <1>i DEF Moves
  <1>5. \A j \in Index : t \notin lock[j].readers /\ t \notin lock[j].writer
                         /\ lock[j].readers \subseteq Thread /\ lock[j].writer \subseteq Thread
    BY Zenon, <1>0 DEF AllocInv, LocksAreReleased, AllocTypeOK
  <1>6. Cardinality({t}) = 1
    BY Zenon, SmallSets
  <1>7. LocksAreReleased'
    BY <1>2, <1>3, <1>4, <1>5, <1>6 DEF AllocInv, LocksAreReleased
  <1>8. \A u \in Thread : pc[u] \in {"next", "walk", "create"} => op[u].index \in Index
    BY Zenon, ThreadFacts DEF Sized
  <1>9. Locked'
    BY <1>2, <1>3, <1>4, <1>8 DEF AllocInv, Locked
  <1>10. ClassesStay /\ SharedTyped /\ InUse' = InUse
    BY Zenon, <1>0, <1>2, <1>3 DEF AllocTypeOK, ClassesStay, SharedTyped, InUse
  <1>11. \A p \in op[t].old : Fits(p)'
    BY Zenon, <1>0, <1>2 DEF LocalsOK, Fits
  <1>12. LocalsOK(t)'
    BY Zenon, <1>0, <1>1, <1>11 DEF LocalsOK, Moves, Sized
  <1>13. ListIsStable' /\ Listed'
    BY Zenon, <1>0, <1>1, <1>2, ListsStable, ListedKept
  <1>14. Owners'
    <2>1. PICK o \in Locals : o = op[t]
      BY Zenon, <1>0
    <2>2. Moves(t, "create", o) /\ o.old = op[t].old
      BY Zenon, <1>1, <2>1
    <2> QED BY Zenon, <1>0, <1>2, <1>10, <2>2, SameOwners
  <1>15. LinkedWhileMapped'
    BY Zenon, <1>0, <1>1, <1>2, LinkedKept
  <1>16. \A p \in held' : Fits(p)'
    BY Zenon, <1>2, <1>10, HeldFits
  <1> QED BY Zenon, <1>1, <1>7, <1>9, <1>10, <1>12, <1>13, <1>14, <1>15, <1>16, Together

(***************************************************************************)
(* A block is found, or cannot be had                                      *)
(***************************************************************************)
LEMMA TakeSafe ==
    ASSUME AllocInv, Defined, NEW t \in Thread, NEW c \in Carrier, NEW b \in FreeBlocks(c),
           Take(t, c, b), UNCHANGED large, ClassesStay,
           pc[t] \in {"walk", "create"}, class'[c] = op[t].index
    PROVE  \E l \in {"idle", "free_old"}, o \in Locals :
              /\ Moves(t, l, o) /\ LocalsOK(t)' /\ Owners'
              /\ \A p \in held' : Fits(p)'
              /\ used' \subseteq Carrier \X (Nat \ {0}) /\ held' \subseteq Pieces
  <1>0. /\ op[t] \in Locals /\ LocalsOK(t) /\ AllocTypeOK
        /\ op[t].size \in Nat /\ op[t].size <= max_size_class
        /\ op[t].index = ClassFor(op[t].size)
    BY Zenon, ThreadFacts DEF Sized, Locals
  <1>b. b \in Nat \ {0} /\ <<c, b>> \notin used
    BY SizeClassAssumption DEF FreeBlocks
  <1>p. PICK p \in Pieces : p = Piece(c, b, op[t].size)
    <2>1. Piece(c, b, op[t].size) \in Pieces
      BY Zenon, <1>0, <1>b DEF Piece, Pieces
    <2> QED BY Zenon, <2>1
  <1>1. p.at = c /\ p.block = b /\ p.size = op[t].size /\ Place(p) = <<c, b>>
    BY Zenon, <1>p DEF Piece, Place
  <1>2. Fits(p)'
    BY Zenon, <1>0, <1>1 DEF Fits
  <1>3. \A q \in held : Fits(q)'
    BY Zenon, HeldFits
  <1>4. /\ used' = used \cup {<<c, b>>} /\ used' \subseteq Carrier \X (Nat \ {0})
        /\ region' = region /\ region \subseteq Region /\ held \subseteq Pieces
    <2>1. used' = used \cup {<<c, b>>}
      BY Zenon DEF Take
    <2>2. used \subseteq Carrier \X (Nat \ {0}) /\ region \subseteq Region /\ held \subseteq Pieces
      BY Zenon, <1>0 DEF AllocTypeOK
    <2>3. <<c, b>> \in Carrier \X (Nat \ {0})
      BY Zenon, <1>b
    <2>4. region' = region
      BY Zenon DEF large
    <2> QED BY Zenon, <2>1, <2>2, <2>3, <2>4
  <1>5. Place(p) \notin InUse
    BY <1>1, <1>b, <1>4, RegionAssumption DEF InUse
  <1>6. InUse' = InUse \cup {Place(p)}
    BY Zenon, <1>1, <1>4 DEF InUse
  <1>7. Old \in [Thread -> SUBSET Pieces] /\ Got \in [Thread -> SUBSET Pieces]
    BY Zenon, TablesTyped
  <1>8. Owned(InUse, held, Old, Got)
    BY Zenon DEF AllocInv, Owners
  <1>9. Got[t] = {} /\ Old[t] = op[t].old
    BY Zenon DEF Got, Old
  <1>10. CASE op[t].old = {}
    <2>1. held' = held \cup {p} /\ pc' = [pc EXCEPT ![t] = "idle"] /\ Disturb(t, c, NoOp)
      BY Zenon, <1>p, <1>10 DEF Take
    <2>2. Moves(t, "idle", NoOp)
      BY Zenon, <1>0, <2>1, DisturbMoves, NoOpTyped DEF Label
    <2>3. LocalsOK(t)'
      BY Zenon, <2>2, NoOpTyped DEF LocalsOK, Moves, Sized
    <2>4. /\ Old' = [Old EXCEPT ![t] = NoOp.old]
          /\ Got' = [Got EXCEPT ![t] = GotAt("idle", NoOp)]
      <3>1. TablesMove(t, "idle", NoOp)
        BY ONLY Zenon, OwnersMove, <2>2, t \in Thread
      <3> QED BY ONLY Zenon, <3>1 DEF TablesMove
    <2>5. Old' = Old /\ Got' = Got
      BY Zenon, <1>7, <1>9, <1>10, <2>4, NoOpTyped DEF GotAt
    <2>6. Owned(InUse', held', Old, Got)
      BY Zenon, <1>5, <1>6, <1>8, <2>1, CallersGet
    <2>7. Owners'
      BY Zenon, <2>5, <2>6, OwnersPrimed
    <2> QED BY Zenon, <1>2, <1>3, <1>4, <2>1, <2>2, <2>3, <2>7, NoOpTyped
  <1>11. CASE op[t].old # {}
    <2>o. PICK o \in Locals : o = [op[t] EXCEPT !.left = <<c>>, !.index = b]
      <3>1. <<c>> \in Seq(Carrier \cup Region) /\ b \in Nat
        BY <1>b
      <3>2. [op[t] EXCEPT !.left = <<c>>, !.index = b] \in Locals
        BY Zenon, <1>0, <3>1 DEF Locals
      <3> QED BY Zenon, <3>2
    <2>1. /\ held' = held /\ pc' = [pc EXCEPT ![t] = "free_old"] /\ Disturb(t, c, o)
      BY Zenon, <1>11, <2>o DEF Take
    <2>2. /\ o.left = <<c>> /\ o.index = b /\ o.size = op[t].size
          /\ o.old = op[t].old
      BY Zenon, <1>0, <2>o DEF Locals
    <2>3. Moves(t, "free_old", o)
      BY Zenon, <1>0, <2>1, <2>2, DisturbMoves DEF Label
    <2>4. Head(o.left) = c /\ Piece(Head(o.left), o.index, o.size) = p
      BY <1>p, <2>2
    <2>5. LocalsOK(t)'
      <3>1. \A q \in op[t].old : Fits(q)'
        BY Zenon, <1>0, FitsKept DEF LocalsOK, Locals
      <3>2. Fits(Piece(Head(op[t].left), op[t].index, op[t].size))'
        BY Zenon, <1>2, <2>3, <2>4 DEF Moves, Fits
      <3>3. \A q, r \in o.old : q = r
        BY Zenon, <1>0, <2>2 DEF LocalsOK
      <3> QED BY Zenon, <1>11, <2>2, <2>3, <3>1, <3>2, <3>3 DEF LocalsOK, Moves, Sized
    <2>6. /\ Old' = [Old EXCEPT ![t] = o.old]
          /\ Got' = [Got EXCEPT ![t] = GotAt("free_old", o)]
      <3>1. TablesMove(t, "free_old", o)
        BY ONLY Zenon, OwnersMove, <2>3, t \in Thread
      <3> QED BY ONLY Zenon, <3>1 DEF TablesMove
    <2>7. Old' = Old /\ Got' = [Got EXCEPT ![t] = {p}]
      BY Zenon, <1>7, <1>9, <2>2, <2>4, <2>6 DEF GotAt
    <2>8. Owned(InUse \cup {Place(p)}, held, Old, [Got EXCEPT ![t] = {p}])
      BY Zenon, <1>5, <1>7, <1>8, <1>9, ThreadGets
    <2>9. Owners'
      BY Zenon, <1>6, <2>1, <2>7, <2>8, OwnersPrimed
    <2> QED BY Zenon, <1>2, <1>3, <1>4, <2>1, <2>2, <2>3, <2>5, <2>9
  <1> QED BY Zenon, <1>10, <1>11

LEMMA WalkFindsSafe ==
    ASSUME AllocInv, Defined, NEW t \in Thread, WalkFinds(t), UNCHANGED large
    PROVE  AllocInv'
  <1>0. /\ op[t] \in Locals /\ LocalsOK(t) /\ AllocTypeOK /\ pc[t] = "walk"
        /\ lock' = [lock EXCEPT ![op[t].index].readers = @ \ {t}]
        /\ class' = class /\ carriers' = carriers /\ region' = region /\ sbc' = sbc
    BY Zenon, ThreadFacts DEF WalkFinds, DropReadLock, large
  <1>1. PICK c \in Carrier : c = Head(op[t].left) /\ class[c] = op[t].index
    <2>1. /\ op[t].left \in Seq(Carrier \cup Region) /\ op[t].left # <<>>
          /\ \A k \in DOMAIN op[t].left : op[t].left[k] \in Carrier /\ class[op[t].left[k]] = op[t].index
      BY Zenon, <1>0 DEF LocalsOK, Locals
    <2>2. 1 \in DOMAIN op[t].left /\ Head(op[t].left) = op[t].left[1]
      BY <2>1
    <2> QED BY Zenon, <2>1, <2>2
  <1>2. PICK b \in FreeBlocks(c) : Take(t, c, b)
    BY Zenon, <1>1 DEF WalkFinds
  <1>3. ClassesStay
    BY Zenon, <1>0 DEF ClassesStay, AllocTypeOK
  <1>4. PICK l \in {"idle", "free_old"}, o \in Locals :
              /\ Moves(t, l, o) /\ LocalsOK(t)' /\ Owners'
              /\ \A p \in held' : Fits(p)'
              /\ used' \subseteq Carrier \X (Nat \ {0}) /\ held' \subseteq Pieces
    BY Zenon, <1>0, <1>1, <1>2, <1>3, TakeSafe
  <1>5. /\ lock' \in [Index -> [readers : SUBSET Thread, writer : SUBSET Thread]]
        /\ LocksAreReleased' /\ Locked'
    BY Zenon, <1>0, <1>4, ReaderLeaves
  <1>6. SharedTyped
    BY Zenon, <1>0, <1>4, <1>5 DEF SharedTyped, AllocTypeOK
  <1>7. ListIsStable' /\ Listed'
    BY Zenon, <1>0, <1>4, ListsStable, ListedKept
  <1>8. LinkedWhileMapped'
    BY Zenon, <1>0, <1>4, LinkedKept
  <1> QED BY Zenon, <1>3, <1>4, <1>5, <1>6, <1>7, <1>8, Together

\* Nothing can be mapped: the old piece goes back to the caller.
LEMMA FailureReturnsOld ==
    ASSUME AllocInv, Defined, NEW t \in Thread, pc[t] \in {"create", "map_large"},
           Goto(t, "idle", NoOp), held' = held \cup op[t].old,
           UNCHANGED <<class, carriers, used, region, sbc>>
    PROVE  /\ Moves(t, "idle", NoOp) /\ LocalsOK(t)' /\ Owners'
           /\ \A p \in held' : Fits(p)'
           /\ held' \subseteq Pieces /\ ClassesStay
           /\ ListIsStable' /\ Listed' /\ LinkedWhileMapped'
  <1>0. op[t] \in Locals /\ LocalsOK(t) /\ AllocTypeOK
    BY Zenon, ThreadFacts
  <1>1. Moves(t, "idle", NoOp)
    BY Zenon, <1>0, GotoMoves, NoOpTyped DEF Label
  <1>2. LocalsOK(t)'
    BY Zenon, <1>1, NoOpTyped DEF LocalsOK, Moves, Sized
  <1>3. ClassesStay
    BY Zenon, <1>0 DEF ClassesStay, AllocTypeOK
  <1>4. op[t].old \subseteq Pieces /\ held \subseteq Pieces
    BY Zenon, <1>0 DEF Locals, AllocTypeOK
  <1>5. \A p \in op[t].old : Fits(p)'
    BY Zenon, <1>0, <1>3, <1>4, FitsKept DEF LocalsOK
  <1>6. \A p \in held' : Fits(p)'
    BY Zenon, <1>3, <1>5, HeldFits
  <1>7. /\ Old' = [Old EXCEPT ![t] = NoOp.old] /\ Old[t] = op[t].old
        /\ Got' = [Got EXCEPT ![t] = GotAt("idle", NoOp)] /\ Got[t] = GotAt(pc[t], op[t])
    <2>1. TablesMove(t, "idle", NoOp)
      BY ONLY Zenon, OwnersMove, <1>1, t \in Thread
    <2> QED BY ONLY Zenon, <2>1 DEF TablesMove
  <1>8. Old \in [Thread -> SUBSET Pieces] /\ Got \in [Thread -> SUBSET Pieces]
    BY Zenon, TablesTyped
  <1>9. Old' = [Old EXCEPT ![t] = {}] /\ Got' = Got
    BY Zenon, <1>7, <1>8, NoOpTyped DEF GotAt
  <1>10. Owned(InUse, held \cup Old[t], [Old EXCEPT ![t] = {}], Got)
    BY Zenon, <1>8, ThreadReturnsOld DEF AllocInv, Owners
  <1>11. InUse' = InUse
    BY Zenon DEF InUse
  <1>12. Owners'
    BY Zenon, <1>7, <1>9, <1>10, <1>11, OwnersPrimed
  <1>13. ListIsStable' /\ Listed' /\ LinkedWhileMapped'
    BY Zenon, <1>1, ListsStable, ListedKept, LinkedKept
  <1> QED BY Zenon, <1>1, <1>2, <1>3, <1>4, <1>6, <1>12, <1>13

LEMMA MapFailsSafe ==
    ASSUME AllocInv, Defined, NEW t \in Thread, MapFails(t), UNCHANGED large
    PROVE  AllocInv'
  <1>1. /\ pc[t] = "create" /\ Goto(t, "idle", NoOp) /\ held' = held \cup op[t].old
        /\ UNCHANGED <<class, carriers, used, region, sbc>>
        /\ lock' = [lock EXCEPT ![op[t].index].writer = {}]
    BY Zenon DEF MapFails, large
  <1>2. /\ Moves(t, "idle", NoOp) /\ LocalsOK(t)' /\ Owners'
        /\ \A p \in held' : Fits(p)'
        /\ held' \subseteq Pieces /\ ClassesStay
        /\ ListIsStable' /\ Listed' /\ LinkedWhileMapped'
    BY Zenon, <1>1, FailureReturnsOld
  <1>3. /\ lock' \in [Index -> [readers : SUBSET Thread, writer : SUBSET Thread]]
        /\ LocksAreReleased' /\ Locked'
    BY Zenon, <1>1, <1>2, WriterLeaves
  <1>4. SharedTyped
    BY Zenon, <1>1, <1>2, <1>3 DEF SharedTyped, AllocInv, AllocTypeOK
  <1> QED BY Zenon, <1>2, <1>3, <1>4, Together

LEMMA MapLargeFailsSafe ==
    ASSUME AllocInv, Defined, NEW t \in Thread, MapLargeFails(t)
    PROVE  AllocInv'
  <1>1. /\ pc[t] = "map_large" /\ Goto(t, "idle", NoOp) /\ held' = held \cup op[t].old
        /\ UNCHANGED <<class, carriers, used, region, sbc>> /\ lock' = lock
    BY Zenon DEF MapLargeFails
  <1>2. /\ Moves(t, "idle", NoOp) /\ LocalsOK(t)' /\ Owners'
        /\ \A p \in held' : Fits(p)'
        /\ held' \subseteq Pieces /\ ClassesStay
        /\ ListIsStable' /\ Listed' /\ LinkedWhileMapped'
    BY Zenon, <1>1, FailureReturnsOld
  <1>3. LocksAreReleased' /\ Locked'
    BY Zenon, <1>1, <1>2, LocksKept
  <1>4. SharedTyped
    BY Zenon, <1>1, <1>2 DEF SharedTyped, AllocInv, AllocTypeOK
  <1> QED BY Zenon, <1>2, <1>3, <1>4, Together

\* A carrier in front of a list.
LEMMA ConsFacts ==
    ASSUME NEW c \in Carrier, NEW s \in Seq(Carrier)
    PROVE  /\ <<c>> \o s \in Seq(Carrier) /\ (<<c>> \o s)[1] = c
           /\ \A k \in DOMAIN (<<c>> \o s) : k # 1 => k - 1 \in DOMAIN s /\ (<<c>> \o s)[k] = s[k - 1]
           /\ \A k \in DOMAIN s : k + 1 \in DOMAIN (<<c>> \o s) /\ (<<c>> \o s)[k + 1] = s[k]
           /\ 1 \in DOMAIN (<<c>> \o s) /\ DOMAIN (<<c>> \o s) \subseteq Nat
           /\ DOMAIN s \subseteq Nat /\ 0 \notin DOMAIN s
  OBVIOUS

LEMMA PushFrontListed ==
    ASSUME AllocInv, NEW i \in Index, NEW c \in Carrier, class[c] = 0,
           class' = [class EXCEPT ![c] = i], carriers' = PushFront(i, c),
           \A u \in Thread : pc[u] # "dropped" /\ pc'[u] # "dropped"
    PROVE  Listed' /\ carriers' \in [Index -> Seq(Carrier)]
  <1>0. /\ class \in [Carrier -> Index \cup {0}] /\ carriers \in [Index -> Seq(Carrier)] /\ 0 \notin Index
        /\ \A j \in Index : \A k \in DOMAIN carriers[j] : carriers[j][k] \in Carrier
    <2>1. class \in [Carrier -> Index \cup {0}] /\ carriers \in [Index -> Seq(Carrier)]
      BY Zenon DEF AllocInv, AllocTypeOK
    <2>2. 0 \notin Index
      BY IndexFacts
    <2>3. \A q \in Seq(Carrier) : \A k \in DOMAIN q : q[k] \in Carrier
      OBVIOUS
    <2> QED BY Zenon, <2>1, <2>2, <2>3
  <1> DEFINE s == carriers[i]
             n == <<c>> \o s
  <1>1. carriers'[i] = n /\ \A j \in Index : j # i => carriers'[j] = carriers[j]
    BY Zenon, <1>0 DEF PushFront
  <1>2. /\ n \in Seq(Carrier) /\ n[1] = c
        /\ \A k \in DOMAIN n : k # 1 => k - 1 \in DOMAIN s /\ n[k] = s[k - 1]
        /\ \A k \in DOMAIN s : k + 1 \in DOMAIN n /\ n[k + 1] = s[k]
        /\ 1 \in DOMAIN n /\ DOMAIN n \subseteq Nat
    BY <1>0, ConsFacts
  <1>3. carriers' \in [Index -> Seq(Carrier)]
    BY Zenon, <1>0, <1>2 DEF PushFront
  <1>4. /\ class'[c] = i /\ \A d \in Carrier : d # c => class'[d] = class[d]
        /\ \A j \in Index : \A k \in DOMAIN carriers[j] : carriers[j][k] # c
    BY <1>0 DEF AllocInv, Listed
  <1> HIDE DEF n
  <1>5. ASSUME NEW j \in Index, NEW k \in DOMAIN carriers'[j] PROVE class'[carriers'[j][k]] = j
    <2>1. CASE j # i
      BY <1>0, <1>1, <1>4, <2>1, <1>5 DEF AllocInv, Listed
    <2>2. CASE j = i /\ k = 1
      BY Zenon, <1>1, <1>2, <1>4, <2>2
    <2>3. CASE j = i /\ k # 1
      <3>1. k - 1 \in DOMAIN s /\ n[k] = s[k - 1]
        BY Zenon, <1>1, <1>2, <1>5, <2>3
      <3>2. s[k - 1] \in Carrier /\ s[k - 1] # c /\ class[s[k - 1]] = i
        BY <1>0, <1>4, <3>1 DEF AllocInv, Listed
      <3> QED BY <1>1, <1>4, <2>3, <3>1, <3>2
    <2> QED BY Zenon, <2>1, <2>2, <2>3
  <1>6. ASSUME NEW d \in Carrier, class'[d] # 0
        PROVE  \E k \in DOMAIN carriers'[class'[d]] : carriers'[class'[d]][k] = d
    <2>1. CASE d = c
      <3>1. class'[d] = i /\ 1 \in DOMAIN carriers'[i] /\ carriers'[i][1] = d
        BY Zenon, <1>1, <1>2, <1>4, <2>1
      <3> QED BY Zenon, <3>1
    <2>2. CASE d # c
      <3>1. class'[d] = class[d] /\ class[d] \in Index
        BY Zenon, <1>0, <1>4, <1>6, <2>2
      <3>2. PICK k \in DOMAIN carriers[class[d]] : carriers[class[d]][k] = d
        BY Zenon, <1>6, <3>1 DEF AllocInv, Listed
      <3>3. CASE class[d] = i
        <4>1. k + 1 \in DOMAIN n /\ n[k + 1] = d
          BY Zenon, <1>2, <3>2, <3>3
        <4>2. class'[d] = i /\ k + 1 \in DOMAIN carriers'[i] /\ carriers'[i][k + 1] = d
          BY Zenon, <1>1, <3>1, <3>3, <4>1
        <4> QED BY Zenon, <4>2
      <3>4. CASE class[d] # i
        BY Zenon, <1>1, <3>1, <3>2, <3>4
      <3> QED BY Zenon, <3>3, <3>4
    <2> QED BY Zenon, <2>1, <2>2
  <1>7. ASSUME NEW j \in Index, NEW k \in DOMAIN carriers'[j], NEW m \in DOMAIN carriers'[j],
               carriers'[j][k] = carriers'[j][m]
        PROVE  k = m
    <2>1. CASE j # i
      BY <1>1, <1>7, <2>1 DEF AllocInv, Listed
    <2>2. CASE j = i
      <3>1. k \in DOMAIN n /\ m \in DOMAIN n /\ n[k] = n[m] /\ k \in Nat /\ m \in Nat
        BY Zenon, <1>1, <1>2, <1>7, <2>2
      <3>2. CASE k = 1 \/ m = 1
        BY <1>2, <1>4, <3>1, <3>2
      <3>3. CASE k # 1 /\ m # 1
        <4>1. /\ k - 1 \in DOMAIN s /\ m - 1 \in DOMAIN s /\ s[k - 1] = s[m - 1]
          BY Zenon, <1>2, <3>1, <3>3
        <4>2. k - 1 = m - 1
          BY <4>1 DEF AllocInv, Listed
        <4> QED BY <3>1, <4>2
      <3> QED BY Zenon, <3>2, <3>3
    <2> QED BY Zenon, <2>1, <2>2
  <1> QED BY Zenon, <1>3, <1>5, <1>6, <1>7 DEF Listed

LEMMA CreateCarrierSafe ==
    ASSUME AllocInv, Defined, NEW t \in Thread, CreateCarrier(t), UNCHANGED large
    PROVE  AllocInv'
  <1>0. /\ op[t] \in Locals /\ LocalsOK(t) /\ AllocTypeOK /\ pc[t] = "create"
        /\ op[t].index \in Index
        /\ lock' = [lock EXCEPT ![op[t].index].writer = {}]
        /\ region' = region /\ sbc' = sbc
    BY Zenon, ThreadFacts DEF CreateCarrier, large, Sized
  <1>i. PICK i \in Index : i = op[t].index
    BY Zenon, <1>0
  <1>1. PICK c \in Carrier :
            /\ class[c] = 0 /\ class' = [class EXCEPT ![c] = i]
            /\ carriers' = PushFront(i, c) /\ \E b \in FreeBlocks(c) : Take(t, c, b)
    BY Zenon, <1>i DEF CreateCarrier
  <1>b. PICK b \in FreeBlocks(c) : Take(t, c, b)
    BY Zenon, <1>1
  <1>2. ClassesStay /\ class'[c] = op[t].index
    BY Zenon, <1>0, <1>i, <1>1 DEF ClassesStay, AllocTypeOK
  <1>3. PICK l \in {"idle", "free_old"}, o \in Locals :
              /\ Moves(t, l, o) /\ LocalsOK(t)' /\ Owners'
              /\ \A p \in held' : Fits(p)'
              /\ used' \subseteq Carrier \X (Nat \ {0}) /\ held' \subseteq Pieces
    BY Zenon, <1>0, <1>b, <1>2, TakeSafe
  <1>4. /\ lock' \in [Index -> [readers : SUBSET Thread, writer : SUBSET Thread]]
        /\ LocksAreReleased' /\ Locked'
    BY Zenon, <1>0, <1>3, WriterLeaves
  <1>5. \A u \in Thread : pc[u] # "dropped" /\ pc'[u] # "dropped"
    <2>1. \A u \in Thread : pc[u] # "dropped"
      BY Zenon, <1>0 DEF AllocInv, Listed
    <2> QED BY Zenon, <1>3, <2>1 DEF Moves
  <1>6. Listed' /\ carriers' \in [Index -> Seq(Carrier)]
    BY Zenon, <1>1, <1>5, PushFrontListed
  <1>7. SharedTyped
    BY Zenon, <1>0, <1>3, <1>4, <1>6 DEF SharedTyped, AllocTypeOK
  <1>8. ASSUME NEW u \in Thread, pc'[u] \in {"next", "walk"}
        PROVE  carriers'[op'[u].index] = op'[u].walked
    <2>1. /\ u # t /\ pc[u] \in {"next", "walk"} /\ op'[u].index = op[u].index
          /\ op'[u].walked = op[u].walked
      BY Zenon, <1>3, <1>8 DEF Moves
    <2>2. op[u].index \in Index /\ u \in lock[op[u].index].readers
      BY Zenon, <2>1, ThreadFacts DEF AllocInv, Locked, Sized
    <2>3. lock[i].writer = {t}
      BY Zenon, <1>0, <1>i DEF AllocInv, Locked
    <2>4. op[u].index # i
      BY Zenon, <2>2, <2>3 DEF AllocInv, LocksAreReleased
    <2>5. carriers'[op[u].index] = carriers[op[u].index]
      BY Zenon, <1>0, <1>1, <2>2, <2>4 DEF PushFront, AllocTypeOK
    <2> QED BY Zenon, <2>1, <2>5 DEF AllocInv, ListIsStable
  <1>9. ListIsStable'
    BY Zenon, <1>8 DEF ListIsStable
  <1>10. LinkedWhileMapped'
    BY Zenon, <1>0, <1>3, LinkedKept
  <1> QED BY Zenon, <1>2, <1>3, <1>4, <1>6, <1>7, <1>9, <1>10, Together


(***************************************************************************)
(* Single-block carriers                                                   *)
(***************************************************************************)
LEMMA MapLargeSafe ==
    ASSUME AllocInv, Defined, NEW t \in Thread, MapLarge(t)
    PROVE  AllocInv'
  <1>0. /\ op[t] \in Locals /\ LocalsOK(t) /\ AllocTypeOK /\ pc[t] = "map_large"
        /\ op[t].size \in Nat
        /\ class' = class /\ carriers' = carriers /\ lock' = lock /\ used' = used
        /\ held' = held /\ sbc' = sbc
    BY Zenon, ThreadFacts DEF MapLarge, Locals
  <1>1. PICK r \in Region : /\ r \notin region /\ region' = region \cup {r}
                            /\ Goto(t, "push", [op[t] EXCEPT !.left = <<r>>])
    BY Zenon DEF MapLarge
  <1>o. PICK o \in Locals : o = [op[t] EXCEPT !.left = <<r>>]
    <2>1. <<r>> \in Seq(Carrier \cup Region)
      OBVIOUS
    <2>2. [op[t] EXCEPT !.left = <<r>>] \in Locals
      BY Zenon, <1>0, <2>1 DEF Locals
    <2> QED BY Zenon, <2>2
  <1>2. o.left = <<r>> /\ o.size = op[t].size /\ o.old = op[t].old
    BY Zenon, <1>0, <1>o DEF Locals
  <1>3. Moves(t, "push", o)
    BY Zenon, <1>0, <1>1, <1>o, GotoMoves DEF Label
  <1>4. ClassesStay /\ SharedTyped
    BY Zenon, <1>0, <1>1 DEF ClassesStay, SharedTyped, AllocTypeOK
  <1>5. LocalsOK(t)'
    <2>1. \A p \in op[t].old : Fits(p)'
      BY Zenon, <1>0 DEF LocalsOK, Fits
    <2> QED BY Zenon, <1>0, <1>2, <1>3, <2>1 DEF LocalsOK, Moves, Sized
  <1>6. \A p \in held' : Fits(p)'
    BY Zenon, <1>0, <1>4, HeldFits
  <1>7. LocksAreReleased' /\ Locked' /\ ListIsStable' /\ Listed'
    BY Zenon, <1>0, <1>3, LocksKept, ListsStable, ListedKept
  <1>p. PICK p \in Pieces : p = Piece(r, 0, op[t].size)
    <2>1. Piece(r, 0, op[t].size) \in Pieces
      BY Zenon, <1>0 DEF Piece, Pieces
    <2> QED BY Zenon, <2>1
  <1>8. Place(p) = <<r, 0>> /\ InUse' = InUse \cup {Place(p)} /\ Place(p) \notin InUse
    <2>1. Place(p) = <<r, 0>>
      BY Zenon, <1>p DEF Piece, Place
    <2>2. InUse' = InUse \cup {<<r, 0>>}
      BY Zenon, <1>0, <1>1 DEF InUse
    <2>3. <<r, 0>> \notin used
      BY Zenon, <1>0, RegionAssumption DEF AllocTypeOK
    <2> QED BY <1>1, <2>1, <2>2, <2>3 DEF InUse
  <1>9. /\ Old' = [Old EXCEPT ![t] = o.old] /\ Old[t] = op[t].old
        /\ Got' = [Got EXCEPT ![t] = GotAt("push", o)] /\ Got[t] = GotAt(pc[t], op[t])
    <2>1. TablesMove(t, "push", o)
      BY ONLY Zenon, OwnersMove, <1>3, t \in Thread
    <2> QED BY ONLY Zenon, <2>1 DEF TablesMove
  <1>10. Old \in [Thread -> SUBSET Pieces] /\ Got \in [Thread -> SUBSET Pieces]
    BY Zenon, TablesTyped
  <1>11. Got[t] = {} /\ GotAt("push", o) = {p} /\ Old' = Old
    BY <1>0, <1>2, <1>p, <1>9, <1>10 DEF GotAt
  <1>12. Owned(InUse', held, Old, [Got EXCEPT ![t] = {p}])
    BY Zenon, <1>8, <1>10, <1>11, ThreadGets DEF AllocInv, Owners
  <1>13. Owners'
    BY Zenon, <1>0, <1>9, <1>11, <1>12, OwnersPrimed
  <1>14. LinkedWhileMapped'
    <2>1. /\ sbc \subseteq region
          /\ \A s \in region \ sbc : \E u \in Thread : pc[u] = "push" /\ op[u].left = <<s>>
      BY Zenon DEF AllocInv, LinkedWhileMapped
    <2>2. \A u \in Thread : pc[u] = "push" => pc'[u] = "push" /\ op'[u].left = op[u].left
      BY Zenon, <1>0, <1>3 DEF Moves
    <2>3. pc'[t] = "push" /\ op'[t].left = <<r>>
      BY Zenon, <1>2, <1>3 DEF Moves
    <2>4. ASSUME NEW s \in region' \ sbc'
          PROVE  \E u \in Thread : pc'[u] = "push" /\ op'[u].left = <<s>>
      BY Zenon, <1>0, <1>1, <2>1, <2>2, <2>3, <2>4
    <2> QED BY Zenon, <1>0, <1>1, <2>1, <2>4 DEF LinkedWhileMapped
  <1> QED BY Zenon, <1>3, <1>4, <1>5, <1>6, <1>7, <1>13, <1>14, Together

\* The carrier a thread is going to link is mapped.
LEMMA PushedIsMapped ==
    ASSUME AllocInv, Defined, NEW t \in Thread, pc[t] = "push"
    PROVE  \E r \in region : op[t].left = <<r>> /\ Head(op[t].left) = r
  <1>1. PICK r \in Region : op[t].left = <<r>>
    BY Zenon, ThreadFacts DEF LocalsOK
  <1>2. Head(op[t].left) = r
    BY <1>1
  <1>3. Got[t] = {Piece(r, 0, op[t].size)}
    BY Zenon, <1>2 DEF Got
  <1>4. Place(Piece(r, 0, op[t].size)) = <<r, 0>>
    BY Zenon DEF Piece, Place
  <1>5. <<r, 0>> \in InUse
    BY Zenon, <1>3, <1>4 DEF AllocInv, Owners, Owned
  <1>6. <<r, 0>> \notin used
    BY Zenon, RegionAssumption DEF AllocInv, AllocTypeOK
  <1> QED BY Zenon, <1>1, <1>2, <1>5, <1>6 DEF InUse

LEMMA PushLargeSafe ==
    ASSUME AllocInv, Defined, NEW t \in Thread, PushLarge(t)
    PROVE  AllocInv'
  <1>0. /\ op[t] \in Locals /\ LocalsOK(t) /\ AllocTypeOK /\ pc[t] = "push"
        /\ op[t].size \in Nat /\ op[t].old \subseteq Pieces
        /\ class' = class /\ carriers' = carriers /\ lock' = lock /\ used' = used
        /\ region' = region
    BY Zenon, ThreadFacts DEF PushLarge, Locals
  <1>1. PICK r \in region : op[t].left = <<r>> /\ Head(op[t].left) = r
    BY Zenon, <1>0, PushedIsMapped
  <1>2. r \in Region /\ r \notin Carrier /\ sbc' = sbc \cup {r}
    BY Zenon, <1>0, <1>1, RegionAssumption DEF AllocTypeOK, PushLarge, Link
  <1>p. PICK p \in Pieces : p = Piece(r, 0, op[t].size)
    <2>1. Piece(r, 0, op[t].size) \in Pieces
      BY Zenon, <1>0, <1>2 DEF Piece, Pieces
    <2> QED BY Zenon, <2>1
  <1>3. Fits(p)' /\ ClassesStay /\ InUse' = InUse
    BY Zenon, <1>0, <1>2, <1>p DEF Fits, Piece, ClassesStay, AllocTypeOK, InUse
  <1>4. Old \in [Thread -> SUBSET Pieces] /\ Got \in [Thread -> SUBSET Pieces]
    BY Zenon, TablesTyped
  <1>5. GotAt(pc[t], op[t]) = {p}
    BY Zenon, <1>0, <1>1, <1>p DEF GotAt
  <1>6. \E l \in {"idle", "free_old"}, o \in Locals :
           /\ Moves(t, l, o) /\ LocalsOK(t)' /\ Owners'
           /\ held' \subseteq Pieces /\ \A q \in held' : Fits(q)'
    <2>1. CASE op[t].old = {}
      <3>1. held' = held \cup {p} /\ Goto(t, "idle", NoOp)
        BY Zenon, <1>1, <1>p, <2>1 DEF PushLarge
      <3>2. Moves(t, "idle", NoOp)
        BY Zenon, <1>0, <3>1, GotoMoves, NoOpTyped DEF Label
      <3>3. LocalsOK(t)'
        BY Zenon, <3>2, NoOpTyped DEF LocalsOK, Moves, Sized
      <3>4. held' \subseteq Pieces /\ \A q \in held' : Fits(q)'
        BY Zenon, <1>0, <1>3, <3>1, HeldFits DEF AllocTypeOK
      <3>5. /\ Old' = [Old EXCEPT ![t] = NoOp.old] /\ Old[t] = op[t].old
            /\ Got' = [Got EXCEPT ![t] = GotAt("idle", NoOp)] /\ Got[t] = GotAt(pc[t], op[t])
        <4>1. TablesMove(t, "idle", NoOp)
          BY ONLY Zenon, OwnersMove, <3>2, t \in Thread
        <4> QED BY ONLY Zenon, <4>1 DEF TablesMove
      <3>6. Old' = Old /\ Got' = [Got EXCEPT ![t] = {}] /\ Got[t] = {p}
        BY Zenon, <1>4, <1>5, <2>1, <3>5, NoOpTyped DEF GotAt
      <3>7. Owned(InUse, held \cup Got[t], Old, [Got EXCEPT ![t] = {}])
        BY Zenon, <1>4, ThreadReturnsGot DEF AllocInv, Owners
      <3>8. Owners'
        BY Zenon, <1>3, <3>1, <3>6, <3>7, OwnersPrimed
      <3> QED BY Zenon, <3>2, <3>3, <3>4, <3>8, NoOpTyped
    <2>2. CASE op[t].old # {}
      <3>o. PICK o \in Locals : o = [op[t] EXCEPT !.index = 0]
        <4>1. [op[t] EXCEPT !.index = 0] \in Locals
          BY Zenon, <1>0 DEF Locals
        <4> QED BY Zenon, <4>1
      <3>1. held' = held /\ Goto(t, "free_old", o)
        BY Zenon, <2>2, <3>o DEF PushLarge
      <3>2. Moves(t, "free_old", o)
        BY Zenon, <1>0, <3>1, GotoMoves DEF Label
      <3>3. o.left = op[t].left /\ o.size = op[t].size /\ o.old = op[t].old /\ o.index = 0
        BY Zenon, <1>0, <3>o DEF Locals
      <3>4. Piece(Head(o.left), o.index, o.size) = p
        BY Zenon, <1>1, <1>p, <3>3
      <3>5. LocalsOK(t)'
        <4>1. \A q \in op[t].old : Fits(q)'
          BY Zenon, <1>0, <1>3, FitsKept DEF LocalsOK
        <4>2. Fits(Piece(Head(op[t].left), op[t].index, op[t].size))'
          BY Zenon, <1>3, <3>2, <3>4 DEF Moves, Fits
        <4>3. \A q, s \in o.old : q = s
          BY Zenon, <1>0, <3>3 DEF LocalsOK
        <4> QED BY Zenon, <1>1, <1>2, <2>2, <3>2, <3>3, <4>1, <4>2, <4>3 DEF LocalsOK, Moves, Sized
      <3>6. held' \subseteq Pieces /\ \A q \in held' : Fits(q)'
        BY Zenon, <1>0, <1>3, <3>1, HeldFits DEF AllocTypeOK
      <3>7. /\ Old' = [Old EXCEPT ![t] = o.old] /\ Old[t] = op[t].old
            /\ Got' = [Got EXCEPT ![t] = GotAt("free_old", o)] /\ Got[t] = GotAt(pc[t], op[t])
        <4>1. TablesMove(t, "free_old", o)
          BY ONLY Zenon, OwnersMove, <3>2, t \in Thread
        <4> QED BY ONLY Zenon, <4>1 DEF TablesMove
      <3>8. GotAt("free_old", o) = {p}
        BY Zenon, <3>4 DEF GotAt
      <3>9. Old' = Old /\ Got' = Got
        BY Zenon, <1>4, <1>5, <3>3, <3>7, <3>8
      <3>10. Owners'
        BY Zenon, <1>3, <3>1, <3>9, OwnersPrimed DEF AllocInv, Owners
      <3> QED BY Zenon, <3>2, <3>5, <3>6, <3>10
    <2> QED BY Zenon, <2>1, <2>2
  <1>7. PICK l \in {"idle", "free_old"}, o \in Locals :
           /\ Moves(t, l, o) /\ LocalsOK(t)' /\ Owners'
           /\ held' \subseteq Pieces /\ \A q \in held' : Fits(q)'
    BY Zenon, <1>6
  <1>8. LocksAreReleased' /\ Locked' /\ ListIsStable' /\ Listed'
    BY Zenon, <1>0, <1>7, LocksKept, ListsStable, ListedKept
  <1>9. SharedTyped
    BY Zenon, <1>0, <1>2, <1>7 DEF SharedTyped, AllocTypeOK
  <1>10. LinkedWhileMapped'
    <2>1. /\ sbc \subseteq region
          /\ \A s \in region \ sbc : \E u \in Thread : pc[u] = "push" /\ op[u].left = <<s>>
      BY Zenon DEF AllocInv, LinkedWhileMapped
    <2>2. \A u \in Thread : u # t => pc'[u] = pc[u] /\ op'[u].left = op[u].left
      BY Zenon, <1>7 DEF Moves
    <2>3. ASSUME NEW s \in region' \ sbc'
          PROVE  \E u \in Thread : pc'[u] = "push" /\ op'[u].left = <<s>>
      <3>1. s \in region \ sbc /\ s # r
        BY Zenon, <1>0, <1>2, <2>3
      <3>2. PICK u \in Thread : pc[u] = "push" /\ op[u].left = <<s>>
        BY Zenon, <2>1, <3>1
      <3>3. u # t
        BY <1>1, <3>1, <3>2
      <3> QED BY Zenon, <2>2, <3>2, <3>3
    <2> QED BY Zenon, <1>0, <1>1, <1>2, <2>1, <2>3 DEF LinkedWhileMapped
  <1> QED BY Zenon, <1>3, <1>7, <1>8, <1>9, <1>10, Together

(***************************************************************************)
(* deallocate, and the free at the end of a reallocation                   *)
(***************************************************************************)
\* Freeing a piece frees its place and nothing else, or ends in a state that
\* is not defined.
LEMMA DeallocFacts ==
    ASSUME AllocInv, Defined, NEW t \in Thread, NEW p \in Pieces, Fits(p), DeallocPiece(t, p)
    PROVE  /\ used' \subseteq Carrier \X (Nat \ {0}) /\ region' \subseteq Region /\ sbc' \subseteq Region
           /\ \E l \in {"idle", "panic", "undefined"} :
                 /\ Moves(t, l, NoOp)
                 /\ l = "idle" => /\ InUse' = InUse \ {Place(p)}
                                  /\ sbc' \subseteq region' /\ region' \ sbc' \subseteq region \ sbc
  <1>0. /\ AllocTypeOK /\ NoOp \in Locals /\ {"idle", "panic", "undefined"} \subseteq Label
        /\ sbc \subseteq region /\ sbc \subseteq Region /\ region \subseteq Region
        /\ used \subseteq Carrier \X (Nat \ {0})
    BY Zenon, ThreadFacts, NoOpTyped DEF Label, AllocInv, LinkedWhileMapped, AllocTypeOK
  <1>1. CASE IsLarge(p) /\ p.at \in sbc
    <2>1. region' = region \ {p.at} /\ sbc' = sbc \ {p.at} /\ used' = used /\ Goto(t, "idle", NoOp)
      BY Zenon, <1>1 DEF DeallocPiece, DeallocLarge, Unmap
    <2>2. Moves(t, "idle", NoOp)
      BY Zenon, <1>0, <2>1, GotoMoves
    <2>3. p.at \notin Carrier /\ p.block = 0
      BY Zenon, <1>0, <1>1, RegionAssumption DEF Fits
    <2>4. Place(p) = <<p.at, 0>> /\ Place(p) \notin used
      BY Zenon, <1>0, <2>3 DEF Place
    <2>5. InUse' = InUse \ {Place(p)}
      BY <2>1, <2>4 DEF InUse
    <2> QED BY Zenon, <1>0, <2>1, <2>2, <2>5
  <1>2. CASE IsLarge(p) /\ p.at \notin sbc
    <2>1. region' = region /\ sbc' = sbc /\ used' = used /\ Goto(t, "panic", NoOp)
      BY Zenon, <1>2 DEF DeallocPiece, DeallocLarge, large
    <2>2. Moves(t, "panic", NoOp)
      BY Zenon, <1>0, <2>1, GotoMoves
    <2> QED BY Zenon, <1>0, <2>1, <2>2
  <1>3. CASE ~IsLarge(p) /\ p.at \in Carrier
    <2>1. /\ region' = region /\ sbc' = sbc /\ used' = used \ {Place(p)}
          /\ pc' = [pc EXCEPT ![t] = "idle"] /\ Disturb(t, p.at, NoOp)
      BY Zenon, <1>3 DEF DeallocPiece, DeallocSized, FreeBlock, Freed, Place, large
    <2>2. Moves(t, "idle", NoOp)
      BY Zenon, <1>0, <2>1, DisturbMoves
    <2>3. Place(p) \notin {<<r, 0>> : r \in region}
      BY Zenon, <1>0, <1>3, RegionAssumption DEF Place
    <2>4. InUse' = InUse \ {Place(p)}
      BY Zenon, <2>1, <2>3 DEF InUse
    <2> QED BY Zenon, <1>0, <2>1, <2>2, <2>4
  <1>4. CASE ~IsLarge(p) /\ p.at \notin Carrier
    <2>1. region' = region /\ sbc' = sbc /\ used' = used /\ Goto(t, "undefined", NoOp)
      BY Zenon, <1>4 DEF DeallocPiece, DeallocSized, large
    <2>2. Moves(t, "undefined", NoOp)
      BY Zenon, <1>0, <2>1, GotoMoves
    <2> QED BY Zenon, <1>0, <2>1, <2>2
  <1> QED BY Zenon, <1>1, <1>2, <1>3, <1>4

\* What a thread that ends its operation by freeing a piece leaves.
LEMMA FreeEnds ==
    ASSUME AllocInv, Defined, NEW t \in Thread, pc[t] \in {"idle", "free_old"},
           NEW p \in Pieces, Fits(p), DeallocPiece(t, p),
           held' \subseteq Pieces, \A q \in held' : Fits(q)',
           UNCHANGED <<class, carriers, lock>>,
           InUse' = InUse \ {Place(p)} /\ Moves(t, "idle", NoOp) => Owners'
    PROVE  AllocInv'
  <1>1. used' \subseteq Carrier \X (Nat \ {0}) /\ region' \subseteq Region /\ sbc' \subseteq Region
    BY Zenon, DeallocFacts
  <1>2. PICK l \in {"idle", "panic", "undefined"} :
           /\ Moves(t, l, NoOp)
           /\ l = "idle" => /\ InUse' = InUse \ {Place(p)}
                            /\ sbc' \subseteq region' /\ region' \ sbc' \subseteq region \ sbc
    BY Zenon, DeallocFacts
  <1>3. ClassesStay /\ SharedTyped
    BY Zenon, <1>1, ThreadFacts DEF ClassesStay, SharedTyped, AllocTypeOK
  <1>4. LocalsOK(t)'
    BY Zenon, <1>2, NoOpTyped DEF LocalsOK, Moves, Sized
  <1>5. LocksAreReleased' /\ Locked' /\ ListIsStable' /\ Listed'
    BY Zenon, <1>2, LocksKept, ListsStable, ListedKept
  <1>6. ASSUME Defined' PROVE Owners' /\ LinkedWhileMapped'
    <2>1. l = "idle"
      BY Zenon, <1>2, <1>6 DEF Defined, Moves
    <2>2. \A r \in region \ sbc : \E u \in Thread : pc[u] = "push" /\ op[u].left = <<r>>
      BY Zenon DEF AllocInv, LinkedWhileMapped
    <2>3. \A u \in Thread : pc[u] = "push" => pc'[u] = "push" /\ op'[u].left = op[u].left
      BY Zenon, <1>2 DEF Moves
    <2>4. ASSUME NEW r \in region' \ sbc'
          PROVE  \E u \in Thread : pc'[u] = "push" /\ op'[u].left = <<r>>
      BY Zenon, <1>2, <2>1, <2>2, <2>3, <2>4
    <2>5. LinkedWhileMapped'
      BY Zenon, <1>2, <2>1, <2>4 DEF LinkedWhileMapped
    <2>6. Owners'
      BY Zenon, <1>2, <2>1
    <2> QED BY Zenon, <2>5, <2>6
  <1> QED BY Zenon, <1>2, <1>3, <1>4, <1>5, <1>6, Together

LEMMA DeallocateSafe ==
    ASSUME AllocInv, Defined, NEW t \in Thread, NEW p \in held, DeallocateSegmented(t, p)
    PROVE  AllocInv'
  <1>1. /\ pc[t] = "idle" /\ DeallocPiece(t, p) /\ held' = held \ {p}
        /\ UNCHANGED <<class, carriers, lock>> /\ op[t].old = {}
        /\ p \in Pieces /\ held \subseteq Pieces /\ Fits(p)
    BY Zenon, ThreadFacts DEF DeallocateSegmented, LocalsOK, AllocInv, AllocTypeOK
  <1>2. ClassesStay
    BY Zenon, <1>1, ThreadFacts DEF ClassesStay, AllocTypeOK
  <1>3. held' \subseteq Pieces /\ \A q \in held' : Fits(q)'
    BY Zenon, <1>1, <1>2, HeldFits
  <1>4. ASSUME InUse' = InUse \ {Place(p)}, Moves(t, "idle", NoOp) PROVE Owners'
    <2>1. /\ Old' = [Old EXCEPT ![t] = NoOp.old] /\ Old[t] = op[t].old
          /\ Got' = [Got EXCEPT ![t] = GotAt("idle", NoOp)] /\ Got[t] = GotAt(pc[t], op[t])
      <3>1. TablesMove(t, "idle", NoOp)
        BY ONLY Zenon, OwnersMove, <1>4, t \in Thread
      <3> QED BY ONLY Zenon, <3>1 DEF TablesMove
    <2>2. Old \in [Thread -> SUBSET Pieces] /\ Got \in [Thread -> SUBSET Pieces]
      BY Zenon, TablesTyped
    <2>3. Old' = Old /\ Got' = Got
      BY Zenon, <1>1, <2>1, <2>2, NoOpTyped DEF GotAt
    <2>4. Owned(InUse \ {Place(p)}, held \ {p}, Old, Got)
      BY Zenon, CallerFrees DEF AllocInv, Owners
    <2> QED BY Zenon, <1>1, <1>4, <2>3, <2>4, OwnersPrimed
  <1> QED BY Zenon, <1>1, <1>3, <1>4, FreeEnds

LEMMA FreeOldSafe ==
    ASSUME AllocInv, Defined, NEW t \in Thread, FreeOldSegmented(t)
    PROVE  AllocInv'
  <1> DEFINE n == Piece(Head(op[t].left), op[t].index, op[t].size)
  <1>0. /\ pc[t] = "free_old" /\ held' = held \cup {n} /\ UNCHANGED <<class, carriers, lock>>
        /\ op[t] \in Locals /\ LocalsOK(t) /\ AllocTypeOK
        /\ op[t].old \subseteq Pieces /\ op[t].index \in Nat /\ op[t].size \in Nat
    BY Zenon, ThreadFacts DEF FreeOldSegmented, Locals
  <1>1. PICK p \in op[t].old : DeallocPiece(t, p)
    BY Zenon DEF FreeOldSegmented
  <1>2. op[t].old = {p} /\ p \in Pieces /\ Fits(p) /\ Fits(n)
    BY Zenon, <1>0, <1>1 DEF LocalsOK
  <1>3. n \in Pieces
    <2>1. PICK c \in Carrier \cup Region : op[t].left = <<c>>
      BY Zenon, <1>0 DEF LocalsOK
    <2>2. Head(op[t].left) = c
      BY <2>1
    <2> QED BY Zenon, <1>0, <2>2 DEF Piece, Pieces
  <1>c. PICK q \in Pieces : q = n
    BY Zenon, <1>3
  <1>4. ClassesStay
    BY Zenon, <1>0 DEF ClassesStay, AllocTypeOK
  <1>5. Fits(q)'
    BY Zenon, <1>2, <1>4, <1>c, FitsKept
  <1>6. held' \subseteq Pieces /\ \A s \in held' : Fits(s)'
    BY Zenon, <1>0, <1>4, <1>5, <1>c, HeldFits DEF AllocTypeOK
  <1>7. ASSUME InUse' = InUse \ {Place(p)}, Moves(t, "idle", NoOp) PROVE Owners'
    <2>1. /\ Old' = [Old EXCEPT ![t] = NoOp.old] /\ Old[t] = op[t].old
          /\ Got' = [Got EXCEPT ![t] = GotAt("idle", NoOp)] /\ Got[t] = GotAt(pc[t], op[t])
      <3>1. TablesMove(t, "idle", NoOp)
        BY ONLY Zenon, OwnersMove, <1>7, t \in Thread
      <3> QED BY ONLY Zenon, <3>1 DEF TablesMove
    <2>2. Old \in [Thread -> SUBSET Pieces] /\ Got \in [Thread -> SUBSET Pieces]
      BY Zenon, TablesTyped
    <2>3. /\ Old' = [Old EXCEPT ![t] = {}] /\ Old[t] = {p}
          /\ Got' = [Got EXCEPT ![t] = {}] /\ Got[t] = {n}
      BY Zenon, <1>0, <1>2, <2>1, NoOpTyped DEF GotAt
    <2>4. Owned(InUse \ {Place(p)}, held, [Old EXCEPT ![t] = {}], Got)
      BY Zenon, <2>2, <2>3, ThreadFrees DEF AllocInv, Owners
    <2>5. Owned(InUse \ {Place(p)}, held \cup Got[t], [Old EXCEPT ![t] = {}], [Got EXCEPT ![t] = {}])
      BY Zenon, <2>2, <2>4, ThreadReturnsGot
    <2> QED BY Zenon, <1>0, <1>7, <2>3, <2>5, OwnersPrimed
  <1> QED BY Zenon, <1>0, <1>1, <1>2, <1>6, <1>7, FreeEnds

(***************************************************************************)
(* grow and shrink                                                         *)
(***************************************************************************)
\* Another piece is asked for; the old one is the thread's until it has it.
LEMMA ReallocMovesSafe ==
    ASSUME AllocInv, Defined, NEW t \in Thread, pc[t] = "idle", NEW p \in held,
           NEW l \in {"read", "map_large"}, NEW o \in Locals, o.old = {p},
           l = "read" => o.size <= max_size_class /\ o.index = ClassFor(o.size),
           held' = held \ {p}, Goto(t, l, o),
           UNCHANGED <<class, carriers, lock, used, region, sbc>>
    PROVE  AllocInv'
  <1>0. /\ AllocTypeOK /\ op[t].old = {} /\ p \in Pieces /\ held \subseteq Pieces /\ Fits(p)
    BY Zenon, ThreadFacts DEF LocalsOK, AllocInv, AllocTypeOK
  <1>2. Moves(t, l, o)
    BY Zenon, <1>0, GotoMoves DEF Label
  <1>3. ClassesStay /\ SharedTyped /\ InUse' = InUse
    BY Zenon, <1>0 DEF ClassesStay, SharedTyped, AllocTypeOK, InUse
  <1>4. LocalsOK(t)'
    <2>1. Fits(p)'
      BY Zenon, <1>0, <1>3, FitsKept
    <2> QED BY Zenon, <1>2, <2>1 DEF LocalsOK, Moves, Sized
  <1>5. \A q \in held' : Fits(q)'
    BY Zenon, <1>3, HeldFits
  <1>6. LocksAreReleased' /\ Locked' /\ ListIsStable' /\ Listed'
    BY Zenon, <1>2, LocksKept, ListsStable, ListedKept
  <1>7. LinkedWhileMapped'
    BY Zenon, <1>2, LinkedKept
  <1>8. /\ Old' = [Old EXCEPT ![t] = o.old] /\ Old[t] = op[t].old
        /\ Got' = [Got EXCEPT ![t] = GotAt(l, o)] /\ Got[t] = GotAt(pc[t], op[t])
    <2>1. TablesMove(t, l, o)
      BY ONLY Zenon, OwnersMove, <1>2, t \in Thread
    <2> QED BY ONLY Zenon, <2>1 DEF TablesMove
  <1>9. Old \in [Thread -> SUBSET Pieces] /\ Got \in [Thread -> SUBSET Pieces]
    BY Zenon, TablesTyped
  <1>10. Old' = [Old EXCEPT ![t] = {p}] /\ Old[t] = {} /\ Got' = Got
    BY Zenon, <1>0, <1>8, <1>9 DEF GotAt
  <1>11. Owned(InUse, held \ {p}, [Old EXCEPT ![t] = {p}], Got)
    BY Zenon, <1>0, <1>9, <1>10, CallerGivesBack DEF AllocInv, Owners
  <1>12. Owners'
    BY Zenon, <1>3, <1>10, <1>11, OwnersPrimed
  <1> QED BY Zenon, <1>2, <1>3, <1>4, <1>5, <1>6, <1>7, <1>12, Together

\* The block is kept: its class is also the class for the new size.
LEMMA ReallocStaysSafe ==
    ASSUME AllocInv, Defined, NEW t \in Thread, pc[t] = "idle", NEW p \in held,
           NEW size \in Nat, size <= max_size_class, SameClass(p, size),
           held' = (held \ {p}) \cup {[p EXCEPT !.size = size]},
           UNCHANGED <<pc, op, class, carriers, lock, used, region, sbc>>
    PROVE  AllocInv'
  <1>0. /\ AllocTypeOK /\ op[t] \in Locals /\ LocalsOK(t)
        /\ p \in Pieces /\ held \subseteq Pieces /\ Fits(p)
    BY Zenon, ThreadFacts DEF AllocInv, AllocTypeOK
  <1>q. PICK q \in Pieces : q = [p EXCEPT !.size = size]
    <2>1. [p EXCEPT !.size = size] \in Pieces
      BY Zenon, <1>0 DEF Pieces
    <2> QED BY Zenon, <2>1
  <1>1. q.at = p.at /\ q.block = p.block /\ q.size = size
    BY Zenon, <1>0, <1>q DEF Pieces
  <1>2. ClassesStay /\ SharedTyped /\ InUse' = InUse
    BY Zenon, <1>0, <1>q DEF ClassesStay, SharedTyped, AllocTypeOK, InUse
  <1>3. Fits(q)'
    BY Zenon, <1>0, <1>1 DEF Fits, SameClass
  <1>4. \A s \in held' : Fits(s)'
    BY Zenon, <1>2, <1>3, <1>q, HeldFits
  <1>o. PICK o \in Locals : o = op[t]
    BY Zenon, <1>0
  <1>5. Moves(t, "idle", o)
    BY Zenon, <1>0, <1>o DEF Moves, AllocTypeOK
  <1>6. LocalsOK(t)'
    <2>1. o.old = {}
      BY Zenon, <1>0, <1>o DEF LocalsOK
    <2> QED BY Zenon, <1>5, <2>1 DEF LocalsOK, Moves, Sized
  <1>7. LocksAreReleased' /\ Locked' /\ ListIsStable' /\ Listed'
    BY Zenon, <1>5, LocksKept, ListsStable, ListedKept
  <1>8. LinkedWhileMapped'
    BY Zenon, <1>5, LinkedKept
  <1>9. Old' = Old /\ Got' = Got
    BY Zenon DEF Old, Got
  <1>10. Place(q) = Place(p)
    BY Zenon, <1>1 DEF Place
  <1>11. Owned(InUse, (held \ {p}) \cup {q}, Old, Got)
    BY Zenon, <1>10, CallerResizes DEF AllocInv, Owners
  <1>12. Owners'
    BY Zenon, <1>2, <1>9, <1>11, <1>q, OwnersPrimed
  <1> QED BY Zenon, <1>2, <1>4, <1>5, <1>6, <1>7, <1>8, <1>12, Together

LEMMA ReallocSafe ==
    ASSUME AllocInv, Defined, NEW t \in Thread, NEW p \in held, NEW size \in Sizes,
           ReallocLarge(t, p, size) \/ ReallocSized(t, p, size) \/ ReallocToLarge(t, p, size)
    PROVE  AllocInv'
  <1>0. size \in Nat /\ p \in Pieces
    BY Zenon, SizeClassAssumption DEF AllocInv, AllocTypeOK
  <1>1. CASE ReallocLarge(t, p, size) \/ ReallocToLarge(t, p, size)
    <2>1. /\ pc[t] = "idle" /\ held' = held \ {p}
          /\ Goto(t, "map_large", [NoOp EXCEPT !.size = size, !.old = {p}])
          /\ UNCHANGED <<class, carriers, lock, used, region, sbc>>
      BY Zenon, <1>1 DEF ReallocLarge, ReallocToLarge
    <2>2. /\ [NoOp EXCEPT !.size = size, !.old = {p}] \in Locals
          /\ [NoOp EXCEPT !.size = size, !.old = {p}].old = {p}
      BY Zenon, <1>0, NoOpTyped DEF Locals
    <2> QED BY Zenon, <1>0, <2>1, <2>2, ReallocMovesSafe
  <1>2. CASE ReallocSized(t, p, size)
    <2>1. /\ pc[t] = "idle" /\ size <= max_size_class
          /\ UNCHANGED <<class, carriers, lock, used, region, sbc>>
      BY Zenon, <1>2 DEF ReallocSized, Reallocate, large
    <2>2. CASE SameClass(p, size)
      <3>1. held' = (held \ {p}) \cup {[p EXCEPT !.size = size]} /\ UNCHANGED <<pc, op>>
        BY Zenon, <1>2, <2>2 DEF ReallocSized, Reallocate
      <3> QED BY Zenon, <1>0, <2>1, <2>2, <3>1, ReallocStaysSafe
    <2>3. CASE ~SameClass(p, size)
      <3>1. /\ held' = held \ {p}
            /\ Goto(t, "read", [NoOp EXCEPT !.size = size, !.index = ClassFor(size), !.old = {p}])
        BY Zenon, <1>2, <2>3 DEF ReallocSized, Reallocate
      <3>2. ClassFor(size) \in Nat
        BY Zenon, <1>0, <2>1, ClassForFacts
      <3>o. PICK o \in Locals : o = [NoOp EXCEPT !.size = size, !.index = ClassFor(size), !.old = {p}]
        <4>1. [NoOp EXCEPT !.size = size, !.index = ClassFor(size), !.old = {p}] \in Locals
          BY Zenon, <1>0, <3>2, NoOpTyped DEF Locals
        <4> QED BY Zenon, <4>1
      <3>3. o.size = size /\ o.index = ClassFor(size) /\ o.old = {p}
        BY Zenon, <3>o, NoOpTyped DEF Locals
      <3> QED BY Zenon, <2>1, <3>1, <3>3, <3>o, ReallocMovesSafe
    <2> QED BY Zenon, <2>2, <2>3
  <1> QED BY Zenon, <1>1, <1>2

(***************************************************************************)
(* Drop, the initial states and every step                                 *)
(***************************************************************************)
LEMMA DropSafe ==
    ASSUME AllocInv, Defined, DropSegmented
    PROVE  AllocInv'
  <1>0. /\ AllocTypeOK /\ pc = [t \in Thread |-> "idle"] /\ held = {} /\ held' = {}
        /\ \A t \in Thread : op[t] \in Locals /\ op[t].old = {}
        /\ class' = [c \in Carrier |->
                       IF \E i \in Index : c \in Range(carriers[i]) THEN 0 ELSE class[c]]
        /\ carriers' = [i \in Index |-> <<>>]
        /\ pc' = [t \in Thread |-> "dropped"]
        /\ lock' = lock /\ used' = used /\ op' = op /\ region' = region \ sbc /\ sbc' = {}
    BY Zenon, ThreadFacts DEF DropSegmented, Drop, LocalsOK, AllocInv
  <1>1. \A c \in Carrier : class'[c] = 0
    <2>1. ASSUME NEW c \in Carrier, class[c] # 0
          PROVE  \E i \in Index : c \in Range(carriers[i])
      <3>1. class[c] \in Index
        BY Zenon, <1>0, <2>1 DEF AllocTypeOK
      <3>2. PICK k \in DOMAIN carriers[class[c]] : carriers[class[c]][k] = c
        BY Zenon, <2>1 DEF AllocInv, Listed
      <3>3. c \in Range(carriers[class[c]])
        BY Zenon, <3>2 DEF Range
      <3> QED BY Zenon, <3>1, <3>3
    <2> QED BY Zenon, <1>0, <2>1
  <1>2. AllocTypeOK'
    BY <1>0, <1>1 DEF AllocTypeOK, Label
  <1>3. \A t \in Thread : LocalsOK(t)'
    BY Zenon, <1>0 DEF LocalsOK, Sized
  <1>4. \A i \in Index : lock[i].readers = {} /\ lock[i].writer = {}
    BY <1>0 DEF AllocInv, LocksAreReleased, AllocTypeOK
  <1>5. LocksAreReleased' /\ Locked'
    BY Zenon, <1>0, <1>4 DEF LocksAreReleased, Locked
  <1>6. ListIsStable'
    BY Zenon, <1>0 DEF ListIsStable
  <1>7. Listed'
    <2>1. \A i \in Index : DOMAIN carriers'[i] = {}
      BY <1>0
    <2> QED BY Zenon, <1>0, <1>1, <2>1 DEF Listed
  <1>8. region \ sbc = {} /\ InUse = {}
    <2>1. region \ sbc = {}
      BY Zenon, <1>0 DEF AllocInv, LinkedWhileMapped
    <2>2. \A t \in Thread : Old[t] \cup Got[t] = {}
      BY Zenon, <1>0 DEF Old, Got
    <2>3. \A x : x \notin InUse
      BY Zenon, <1>0, <2>2 DEF AllocInv, Owners, Owned
    <2> QED BY Zenon, <2>1, <2>3
  <1>9. InUse' = {} /\ \A t \in Thread : Old'[t] \cup Got'[t] = {}
    <2>1. used = {}
      BY Zenon, <1>8 DEF InUse
    <2>2. InUse' = {}
      BY Zenon, <1>0, <1>8, <2>1 DEF InUse
    <2> QED BY Zenon, <1>0, <2>2 DEF Old, Got
  <1>10. Owned(InUse', held', Old', Got')
    BY Zenon, <1>0, <1>9 DEF Owned
  <1>11. Owners' /\ LinkedWhileMapped'
    BY Zenon, <1>0, <1>8, <1>10, OwnersPrimed DEF LinkedWhileMapped
  <1> QED BY Zenon, <1>0, <1>2, <1>3, <1>5, <1>6, <1>7, <1>11 DEF AllocInv

LEMMA InitSafe == InitSegmented => AllocInv
  <1> SUFFICES ASSUME InitSegmented PROVE AllocInv
    BY Zenon
  <1>0. /\ carriers = [i \in Index |-> <<First[i]>>]
        /\ lock = [i \in Index |-> [readers |-> {}, writer |-> {}]]
        /\ used = {} /\ held = {} /\ region = {} /\ sbc = {}
        /\ pc = [t \in Thread |-> "idle"] /\ op = [t \in Thread |-> NoOp]
    BY Zenon DEF InitSegmented, Init
  <1>1. First \in [Index -> Carrier] /\ \A i, j \in Index : First[i] = First[j] => i = j
    BY Zenon, SizeClassAssumption DEF Index, IsInjective
  <1>2. /\ class \in [Carrier -> Index \cup {0}]
        /\ \A i \in Index : class[First[i]] = i
        /\ \A c \in Carrier : class[c] # 0 => class[c] \in Index /\ First[class[c]] = c
    BY Zenon, <1>1 DEF InitSegmented, Init
  <1>3. AllocTypeOK
    BY <1>0, <1>1, <1>2, NoOpTyped DEF AllocTypeOK, Label
  <1>4. \A t \in Thread : LocalsOK(t)
    BY Zenon, <1>0, NoOpTyped DEF LocalsOK, Sized
  <1>5. LocksAreReleased /\ Locked /\ ListIsStable
    BY Zenon, <1>0 DEF LocksAreReleased, Locked, ListIsStable
  <1>6. Listed
    <2>1. \A i \in Index : DOMAIN carriers[i] = {1} /\ carriers[i][1] = First[i]
      BY <1>0
    <2>2. \A i \in Index : \A k \in DOMAIN carriers[i] : class[carriers[i][k]] = i
      BY <1>2, <2>1
    <2>3. ASSUME NEW c \in Carrier, class[c] # 0
          PROVE  \E k \in DOMAIN carriers[class[c]] : carriers[class[c]][k] = c
      <3>1. class[c] \in Index /\ First[class[c]] = c
        BY Zenon, <1>2, <2>3
      <3>2. 1 \in DOMAIN carriers[class[c]] /\ carriers[class[c]][1] = c
        BY Zenon, <2>1, <3>1
      <3> QED BY Zenon, <3>2
    <2>4. \A i \in Index : \A j, k \in DOMAIN carriers[i] : carriers[i][j] = carriers[i][k] => j = k
      BY Zenon, <2>1
    <2> QED BY Zenon, <1>0, <2>2, <2>3, <2>4 DEF Listed
  <1>7. Owners /\ LinkedWhileMapped
    <2>1. InUse = {} /\ \A t \in Thread : Old[t] = {} /\ Got[t] = {}
      BY Zenon, <1>0, NoOpTyped DEF InUse, Old, Got
    <2> QED BY Zenon, <1>0, <2>1 DEF Owners, Owned, LinkedWhileMapped
  <1> QED BY Zenon, <1>0, <1>3, <1>4, <1>5, <1>6, <1>7 DEF AllocInv

LEMMA NextSafe == AllocInv /\ [NextSegmented]_<<vars, large>> => AllocInv'
  <1> SUFFICES ASSUME AllocInv, [NextSegmented]_<<vars, large>> PROVE AllocInv'
    BY Zenon
  <1>1. ASSUME Defined, NEW t \in Thread, Step(t) PROVE AllocInv'
    <2>1. CASE AllocSized(t)
      <3> UNCHANGED large
        BY Zenon, <2>1 DEF AllocSized
      <3>1. CASE ReadLock(t)
        BY Zenon, <1>1, <3>1, ReadLockSafe
      <3>2. CASE NextCarrier(t)
        BY Zenon, <1>1, <3>2, NextCarrierSafe
      <3>3. CASE WalkFinds(t)
        BY <1>1, <3>3, WalkFindsSafe
      <3>4. CASE WalkFails(t)
        BY <1>1, <3>4, WalkFailsSafe
      <3>5. CASE WriteLock(t)
        BY <1>1, <3>5, WriteLockSafe
      <3>6. CASE CreateCarrier(t)
        BY <1>1, <3>6, CreateCarrierSafe
      <3>7. CASE MapFails(t)
        BY <1>1, <3>7, MapFailsSafe
      <3>8. CASE \E size \in Sizes : size < sbc_threshold /\ Allocate(t, size)
        BY Zenon, <1>1, <3>8, AllocateSafe
      <3> QED BY Zenon, <2>1, <3>1, <3>2, <3>3, <3>4, <3>5, <3>6, <3>7, <3>8 DEF AllocSized
    <2>2. CASE MapLarge(t)
      BY Zenon, <1>1, <2>2, MapLargeSafe
    <2>3. CASE MapLargeFails(t)
      BY Zenon, <1>1, <2>3, MapLargeFailsSafe
    <2>4. CASE PushLarge(t)
      BY <1>1, <2>4, PushLargeSafe
    <2>5. CASE FreeOldSegmented(t)
      BY <1>1, <2>5, FreeOldSafe
    <2>6. CASE \E size \in Sizes : AllocLarge(t, size)
      BY Zenon, <1>1, <2>6, AllocateSafe
    <2>7. CASE \E p \in held : DeallocateSegmented(t, p)
      BY Zenon, <1>1, <2>7, DeallocateSafe
    <2>8. CASE \E p \in held, size \in Sizes :
                  ReallocLarge(t, p, size) \/ ReallocSized(t, p, size) \/ ReallocToLarge(t, p, size)
      BY Zenon, <1>1, <2>8, ReallocSafe
    <2> QED BY Zenon, <1>1, <2>1, <2>2, <2>3, <2>4, <2>5, <2>6, <2>7, <2>8 DEF Step
  <1>2. CASE UNCHANGED <<vars, large>>
    <2>1. UNCHANGED <<class, carriers, lock, used, held, pc, op, region, sbc>>
      BY Zenon, <1>2 DEF vars, large
    <2>a. /\ AllocTypeOK /\ (\A p \in held : Fits(p)) /\ (\A t \in Thread : LocalsOK(t))
          /\ LocksAreReleased /\ Locked /\ ListIsStable /\ Listed
      BY Zenon DEF AllocInv
    <2>b. \A p : Fits(p)' <=> Fits(p)
      BY Zenon, <2>1 DEF Fits
    <2>2. AllocTypeOK' /\ (\A p \in held' : Fits(p)')
      <3>1. AllocTypeOK'
        BY ONLY Zenon, <2>1, <2>a DEF AllocTypeOK
      <3> QED BY ONLY Zenon, <2>1, <2>a, <2>b, <3>1
    <2>3. \A t \in Thread : LocalsOK(t)'
      <3> TAKE t \in Thread
      <3>1. LocalsOK(t)
        BY Zenon, <2>a
      <3> QED BY ONLY Zenon, <2>1, <2>b, <3>1 DEF LocalsOK
    <2>4. LocksAreReleased' /\ Locked' /\ ListIsStable' /\ Listed'
      <3>1. LocksAreReleased' /\ ListIsStable'
        BY ONLY <2>1, <2>a DEF LocksAreReleased, ListIsStable
      <3>2. Locked'
        BY ONLY Zenon, <2>1, <2>a DEF Locked
      <3>3. Listed'
        BY ONLY <2>1, <2>a DEF Listed
      <3> QED BY ONLY Zenon, <3>1, <3>2, <3>3
    <2>5. InUse' = InUse /\ Old' = Old /\ Got' = Got /\ held' = held
      BY Zenon, <2>1 DEF InUse, Old, Got
    <2>6. ASSUME Defined' PROVE Owners' /\ LinkedWhileMapped'
      <3>1. Defined
        BY Zenon, <2>1, <2>6 DEF Defined
      <3>2. Owners'
        BY Zenon, <2>5, <3>1, OwnersPrimed DEF AllocInv, Owners
      <3> QED BY Zenon, <2>1, <3>1, <3>2 DEF AllocInv, LinkedWhileMapped
    <2> QED BY Zenon, <2>2, <2>3, <2>4, <2>6 DEF AllocInv
  <1> QED BY Zenon, <1>1, <1>2, DropSafe DEF NextSegmented

LEMMA AllocInvariant == SpecSegmented => []AllocInv
  BY InitSafe, NextSafe, PTL DEF SpecSegmented

(***************************************************************************)
(* What it says                                                            *)
(***************************************************************************)
\* The locks of the classes never deadlock: whoever holds one is walking the
\* list, or is creating a carrier alone, and waits for no other lock.
THEOREM LocksAreFree == SpecSegmented => []LocksAreReleased
  <1>1. AllocInv => LocksAreReleased
    BY Zenon DEF AllocInv
  <1> QED BY <1>1, AllocInvariant, PTL

\* allocate walks a list that nobody changes: the read lock is kept for the
\* whole walk.
THEOREM ListsAreStable == SpecSegmented => []ListIsStable
  <1>1. AllocInv => ListIsStable
    BY Zenon DEF AllocInv
  <1> QED BY <1>1, AllocInvariant, PTL

\* Whatever was allocated, grown or shrunk fits in a block of its carrier, and
\* a carrier is in the list of its own class only.
THEOREM BlocksFit == SpecSegmented => []BlocksAreLargeEnough
  <1>1. AllocInv => BlocksAreLargeEnough
    <2> SUFFICES ASSUME AllocInv PROVE BlocksAreLargeEnough
      BY Zenon
    <2>1. ASSUME NEW p \in held, p.at \in Carrier
          PROVE  class[p.at] # 0 /\ p.size <= Classes[class[p.at]]
      <3>1. p.size \in Nat /\ p.size <= max_size_class /\ class[p.at] = ClassFor(p.size)
        BY Zenon, <2>1 DEF AllocInv, AllocTypeOK, Pieces, Fits
      <3> QED BY Zenon, <3>1, ClassForFacts
    <2> QED BY Zenon, <2>1 DEF AllocInv, Listed, BlocksAreLargeEnough
  <1> QED BY <1>1, AllocInvariant, PTL

\* No carrier is lost: a slab is once in the list of its class, a single-block
\* carrier is linked or about to be, and Drop leaves no slab mapped.
THEOREM CarriersStayListed == SpecSegmented => []MappedAreListed
  <1>1. AllocInv => MappedAreListed
    <2> SUFFICES ASSUME AllocInv PROVE MappedAreListed
      OBVIOUS
    <2>1. CASE \E t \in Thread : pc[t] = "dropped"
      BY Zenon, <2>1 DEF AllocInv, Listed, CarriersAreListed, MappedAreListed, LinkedWhileMapped
    <2>2. CASE ~ \E t \in Thread : pc[t] = "dropped"
      <3>1. ASSUME NEW c \in Carrier, class[c] # 0
            PROVE  Cardinality({k \in DOMAIN carriers[class[c]] : carriers[class[c]][k] = c}) = 1
        <4> DEFINE S == {k \in DOMAIN carriers[class[c]] : carriers[class[c]][k] = c}
        <4>1. class[c] \in Index
          BY Zenon, <3>1 DEF AllocInv, AllocTypeOK
        <4>2. PICK k \in DOMAIN carriers[class[c]] : carriers[class[c]][k] = c
          BY Zenon, <3>1 DEF AllocInv, Listed
        <4>3. \A j \in DOMAIN carriers[class[c]] : carriers[class[c]][j] = c => j = k
          BY <4>1, <4>2 DEF AllocInv, Listed
        <4>4. S = {k}
          BY Zenon, <4>2, <4>3
        <4> QED BY Zenon, <4>4, SmallSets
      <3> QED BY Zenon, <2>2, <3>1 DEF AllocInv, CarriersAreListed, MappedAreListed, LinkedWhileMapped
    <2> QED BY Zenon, <2>1, <2>2
  <1> QED BY <1>1, AllocInvariant, PTL

\* Every block in use and every single-block carrier has exactly one owner, a
\* caller or a thread that is moving it, as long as the state is defined.
THEOREM EachPieceHasOneOwner == SpecSegmented => []EachHasOneOwner
  <1>1. AllocInv => EachHasOneOwner
    <2> SUFFICES ASSUME AllocInv, Defined PROVE EachHasOneOwner
      BY Zenon DEF EachHasOneOwner
    <2> DEFINE pieces == held \cup Moving
    <2>1. Owned(InUse, held, Old, Got)
      BY Zenon DEF AllocInv, Owners
    <2>2. \A p : p \in pieces <=> p \in held \/ \E t \in Thread : p \in Old[t] \cup Got[t]
      BY DEF Moving, OnTheWay, Old, Got
    <2>3. \A x : x \in InUse <=> \E p \in pieces : Place(p) = x
      BY Zenon, <2>1, <2>2 DEF Owned
    <2>4. InUse = {<<p.at, p.block>> : p \in pieces}
      BY Zenon, <2>3 DEF Place
    <2>5. ASSUME NEW p \in pieces, NEW q \in pieces, <<p.at, p.block>> = <<q.at, q.block>>
          PROVE  p = q
      <3>1. Place(p) = Place(q)
        BY Zenon, <2>5 DEF Place
      <3> HIDE DEF pieces
      <3>2. p \in held \/ \E t \in Thread : p \in Old[t] \cup Got[t]
        BY Zenon, <2>2
      <3>3. q \in held \/ \E t \in Thread : q \in Old[t] \cup Got[t]
        BY Zenon, <2>2
      <3> QED BY <2>1, <3>1, <3>2, <3>3 DEF Owned
    <2> QED BY Zenon, <2>4, <2>5 DEF EachHasOneOwner, InUse
  <1> QED BY <1>1, AllocInvariant, PTL

(***************************************************************************)
(* The search for the class                                                *)
(***************************************************************************)
SearchInv == SearchTypeOK /\ InBounds /\ Searching /\ Found

\* What the middle of a part of at least two elements is.
LEMMA Halves ==
    ASSUME NEW n \in Nat, n > 1
    PROVE  /\ n \div 2 \in Nat /\ n \div 2 >= 1
           /\ Left(n) \in Nat /\ Left(n) >= 1
           /\ n \div 2 <= Left(n) /\ Left(n) < n
           /\ n \div 2 + Left(n) = n
  BY DEF Left

\* The search starts with the whole slice and no candidate.
LEMMA SearchInitInv == SliceAssumption /\ SearchInit => SearchInv
  <1> SUFFICES ASSUME SliceAssumption, SearchInit PROVE SearchInv
    BY Zenon
  <1> USE DEF SliceAssumption
  <1>1. SearchTypeOK
    BY Zenon, SliceAssumption DEF SearchInit, SearchTypeOK, None
  <1>2. InBounds /\ Searching
    BY SliceAssumption DEF SearchInit, InBounds, Searching, None
  <1>3. Found
    BY SliceAssumption DEF SearchInit, Found, None, Position
  <1> QED
    BY Zenon, <1>1, <1>2, <1>3 DEF SearchInv

\* One iteration keeps the invariant.
LEMMA HalveInv == SliceAssumption /\ SearchInv /\ Halve => SearchInv'
  <1> SUFFICES ASSUME SliceAssumption, SearchInv, Halve PROVE SearchInv'
    BY Zenon
  <1> USE DEF SliceAssumption
  <1> DEFINE mid == base + count \div 2
  <1>1. /\ slice \in [Position -> Values] /\ Sorted(slice) /\ value \in Values
        /\ base \in Nat /\ count \in Nat /\ count > 1 /\ phase = "search"
        /\ base + count <= Length
        /\ last_largest \in Position \cup {None} /\ found \in Position \cup {None}
        /\ UNCHANGED <<slice, value>>
    BY Zenon DEF SearchInv, SearchTypeOK, InBounds, Halve, More
  <1>2. /\ Left(count) \in Nat /\ Left(count) >= 1 /\ Left(count) < count
        /\ count \div 2 \in Nat /\ count \div 2 >= 1
        /\ count \div 2 <= Left(count) /\ count \div 2 + Left(count) = count
    BY Zenon, <1>1, Halves
  <1>3. mid \in Position /\ base \in Position /\ base < mid /\ mid <= base + Left(count)
    BY <1>1, <1>2, SliceAssumption DEF Position
  <1>4. slice[mid] \in Int /\ value \in Int
    BY Zenon, <1>1, <1>3, SliceAssumption
  <1>s. /\ base > 0 => slice[base] < value
        /\ last_largest = None => base + count = Length
        /\ last_largest # None => slice[last_largest] > value /\ base < last_largest /\ last_largest <= base + count
    BY Zenon, <1>1 DEF SearchInv, Searching
  <1>5. CASE slice[mid] = value /\ found' = mid /\ phase' = "done" /\ UNCHANGED <<base, count, last_largest>>
    <2>1. SearchTypeOK'
      BY Zenon, <1>1, <1>3, <1>5 DEF SearchTypeOK
    <2>2. InBounds' /\ Searching'
      BY Zenon, <1>5 DEF InBounds, Searching
    <2>3. mid # None
      BY <1>3 DEF Position, None
    <2>4. Found'
      BY <1>1, <1>4, <1>5, <2>3 DEF Found
    <2> QED
      BY Zenon, <2>1, <2>2, <2>4 DEF SearchInv
  <1>6. CASE slice[mid] > value /\ last_largest' = mid /\ count' = Left(count) /\ UNCHANGED <<base, phase, found>>
    <2>1. SearchTypeOK'
      BY Zenon, <1>1, <1>2, <1>3, <1>6 DEF SearchTypeOK
    <2>2. InBounds'
      BY <1>1, <1>2, <1>6, SliceAssumption DEF InBounds
    <2>3. mid # None
      BY <1>3 DEF Position, None
    <2>4. Searching'
      BY Zenon, <1>1, <1>3, <1>6, <1>s, <2>3 DEF Searching
    <2>5. Found'
      BY Zenon, <1>1, <1>6 DEF Found
    <2> QED
      BY Zenon, <2>1, <2>2, <2>4, <2>5 DEF SearchInv
  <1>7. CASE slice[mid] < value /\ base' = mid /\ count' = Left(count) /\ UNCHANGED <<last_largest, phase, found>>
    <2>1. SearchTypeOK'
      BY <1>1, <1>2, <1>3, <1>7 DEF SearchTypeOK, Position
    <2>2. base' + count' = base + count
      BY <1>1, <1>2, <1>7
    <2>3. InBounds'
      BY Zenon, <1>1, <1>2, <1>7, <2>2 DEF InBounds
    <2>4. ASSUME last_largest # None PROVE mid < last_largest
      <3>1. last_largest \in Position /\ slice[last_largest] > value
        BY Zenon, <1>1, <1>s, <2>4
      <3>2. slice[last_largest] \in Int
        BY Zenon, <1>1, <3>1, SliceAssumption
      <3>3. ~(last_largest <= mid)
        <4>1. ASSUME last_largest <= mid PROVE FALSE
          <5>1. slice[last_largest] <= slice[mid]
            BY Zenon, <1>1, <1>3, <3>1, <4>1 DEF Sorted
          <5> QED
            BY <1>4, <1>7, <3>1, <3>2, <5>1
        <4> QED
          BY Zenon, <4>1
      <3> QED
        BY <1>3, <3>1, <3>3, SliceAssumption DEF Position
    <2>5. Searching'
      BY Zenon, <1>1, <1>7, <1>s, <2>2, <2>4 DEF Searching
    <2>6. Found'
      BY Zenon, <1>1, <1>7 DEF Found
    <2> QED
      BY <2>1, <2>3, <2>5, <2>6 DEF SearchInv
  <1> QED
    BY Zenon, <1>5, <1>6, <1>7 DEF Halve

\* With one element left, it or the last larger one is the answer.
LEMMA FinishInv == SliceAssumption /\ SearchInv /\ Finish => SearchInv'
  <1> SUFFICES ASSUME SliceAssumption, SearchInv, Finish PROVE SearchInv'
    OBVIOUS
  <1> USE DEF SliceAssumption
  <1>1. /\ slice \in [Position -> Values] /\ Sorted(slice) /\ value \in Values
        /\ base \in Nat /\ count = 1 /\ phase = "search"
        /\ base + count <= Length
        /\ last_largest \in Position \cup {None}
        /\ found' = Answer /\ phase' = "done" /\ UNCHANGED <<slice, value, base, count, last_largest>>
    BY DEF SearchInv, SearchTypeOK, InBounds, Finish, More
  <1>s. /\ base > 0 => slice[base] < value
        /\ last_largest = None => base + 1 = Length
        /\ last_largest # None => slice[last_largest] > value /\ base < last_largest /\ last_largest <= base + 1
    BY Zenon, <1>1 DEF SearchInv, Searching
  <1>2. base \in Position
    BY <1>1, SliceAssumption DEF Position
  <1>3. \A i \in Position : slice[i] \in Int
    BY Zenon, <1>1, SliceAssumption
  <1>4. value \in Int
    BY Zenon, <1>1, SliceAssumption
  <1>5. SearchTypeOK'
    BY Zenon, <1>1, <1>2 DEF SearchTypeOK, Answer
  <1>6. InBounds' /\ Searching'
    BY Zenon, <1>1 DEF InBounds, Searching
  <1>7. CASE slice[base] < value /\ last_largest = None
    <2>1. \A i \in Position : i <= base
      BY <1>1, <1>s, <1>7, SliceAssumption DEF Position
    <2>2. \A i \in Position : slice[i] <= slice[base]
      BY Zenon, <1>1, <1>2, <2>1 DEF Sorted
    <2>3. \A i \in Position : slice[i] < value
      BY <1>2, <1>3, <1>4, <1>7, <2>2
    <2>4. Found'
      BY Zenon, <1>1, <1>7, <2>3 DEF Found, Answer
    <2> QED
      BY <1>5, <1>6, <2>4 DEF SearchInv
  <1>8. CASE slice[base] < value /\ last_largest # None
    <2>1. last_largest \in Position /\ last_largest = base + 1
      BY <1>1, <1>s, <1>8, SliceAssumption DEF Position
    <2>2. ASSUME NEW i \in Position, slice[i] >= value PROVE slice[last_largest] <= slice[i]
      <3>1. ~(i <= base)
        <4>1. ASSUME i <= base PROVE FALSE
          <5>1. slice[i] <= slice[base]
            BY Zenon, <1>1, <1>2, <4>1 DEF Sorted
          <5> QED
            BY <1>2, <1>3, <1>4, <1>8, <2>2, <5>1
        <4> QED
          BY Zenon, <4>1
      <3>2. last_largest <= i
        BY <1>1, <2>1, <3>1, SliceAssumption DEF Position
      <3> QED
        BY Zenon, <1>1, <2>1, <3>2 DEF Sorted
    <2>3. slice[last_largest] >= value
      BY <1>3, <1>4, <1>s, <1>8, <2>1
    <2>4. Found'
      BY Zenon, <1>1, <1>8, <2>2, <2>3 DEF Found, Answer
    <2> QED
      BY <1>5, <1>6, <2>4 DEF SearchInv
  <1>9. CASE ~(slice[base] < value)
    <2>1. base = 0
      BY <1>1, <1>s, <1>9
    <2>2. \A i \in Position : slice[base] <= slice[i]
      BY <1>1, <1>2, <2>1, SliceAssumption DEF Sorted, Position
    <2>3. slice[base] >= value /\ base # None
      BY <1>1, <1>2, <1>3, <1>4, <1>9 DEF None
    <2>4. Found'
      BY Zenon, <1>1, <1>9, <2>2, <2>3 DEF Found, Answer
    <2> QED
      BY <1>5, <1>6, <2>4 DEF SearchInv
  <1> QED
    BY Zenon, <1>7, <1>8, <1>9

LEMMA SearchNextInv == SliceAssumption /\ SearchInv /\ [SearchNext]_searchVars => SearchInv'
  <1> SUFFICES ASSUME SliceAssumption, SearchInv, [SearchNext]_searchVars PROVE SearchInv'
    BY Zenon
  <1>1. CASE Halve
    BY Zenon, <1>1, HalveInv
  <1>2. CASE Finish
    BY <1>2, FinishInv
  <1>3. CASE UNCHANGED searchVars
    BY Zenon, <1>3 DEF SearchInv, SearchTypeOK, InBounds, Searching, Found, searchVars, Sorted
  <1> QED
    BY Zenon, <1>1, <1>2, <1>3 DEF SearchNext

\* Whatever the classes are, the search returns the smallest that holds the
\* request, or none when all are too small (size_class_for).
THEOREM SearchIsCorrect == SliceAssumption => (SearchSpec => []Found)
  <1> SUFFICES ASSUME SliceAssumption PROVE SearchSpec => []Found
    BY Zenon
  <1>1. SearchInv => Found
    BY Zenon DEF SearchInv
  <1> QED
    BY SearchInitInv, SearchNextInv, <1>1, PTL DEF SearchSpec

\* The unchecked reads of the search stay inside the slice.
THEOREM SearchStaysInBounds == SliceAssumption => (SearchSpec => []InBounds)
  <1> SUFFICES ASSUME SliceAssumption PROVE SearchSpec => []InBounds
    OBVIOUS
  <1>1. SearchInv => InBounds
    BY Zenon DEF SearchInv
  <1> QED
    BY SearchInitInv, SearchNextInv, <1>1, PTL DEF SearchSpec

\* What the search returns for the size classes is the class the allocator
\* uses: the position after it, since sequences begin at 1.
THEOREM SearchFindsTheClass ==
    ASSUME SearchTypeOK, Found, phase = "done", Length = Len(Classes),
           \A i \in Position : slice[i] = Classes[i + 1],
           value \in Nat, value <= max_size_class
    PROVE  found + 1 = ClassFor(value)
  <1>1. /\ \A i \in Position : i \in Nat /\ i + 1 \in Index
        /\ \A i \in Index : i \in Nat /\ i - 1 \in Position /\ slice[i - 1] = Classes[i]
    BY IndexFacts DEF Position
  <1>2. /\ ClassFor(value) \in Index /\ value <= Classes[ClassFor(value)]
        /\ \A i \in Index : Classes[i] >= value => ClassFor(value) <= i
    BY Zenon, ClassForFacts
  <1> DEFINE k == ClassFor(value)
  <1>3. k - 1 \in Position /\ slice[k - 1] = Classes[k] /\ k \in Nat /\ Classes[k] \in Nat
    BY Zenon, <1>1, <1>2, IndexFacts
  <1>4. slice[k - 1] >= value
    BY Zenon, <1>2, <1>3
  <1>5. found # None
    BY <1>3, <1>4 DEF Found
  <1>6. found \in Position /\ slice[found] >= value /\ slice[found] <= slice[k - 1]
    BY Zenon, <1>3, <1>4, <1>5 DEF Found, SearchTypeOK
  <1>7. found \in Nat /\ found + 1 \in Index /\ slice[found] = Classes[found + 1]
    BY Zenon, <1>1, <1>6
  <1>8. k <= found + 1
    BY Zenon, <1>2, <1>6, <1>7
  <1>9. ~(k < found + 1)
    <2>1. k < found + 1 => Classes[k] < Classes[found + 1]
      BY Zenon, <1>2, <1>7, SizeClassAssumption, IndexFacts
    <2>2. Classes[found + 1] \in Nat
      BY Zenon, <1>7, IndexFacts
    <2> QED BY <1>3, <1>6, <1>7, <2>1, <2>2
  <1> QED BY <1>3, <1>7, <1>8, <1>9

=============================================================================
