-------------------------- MODULE CollectorProofs --------------------------
(* The collector of a process, for any number of roots, objects, messages   *)
(* and collections: the inductive invariant, what moving one object, one    *)
(* word written and one object built leave of it, the steps of the process  *)
(* between two collections, the steps of a collection, and what follows for *)
(* the generations and for references.                                      *)
EXTENDS Collector, TLAPS

-----------------------------------------------------------------------------
(* The inductive invariant.  It speaks of the words the collector follows:  *)
(* the elements of tuples, closures and list cells.                         *)
Addr == (Nat \ {0}) \X (Nat \ {0})
Ref == Addr \cup {Constant}
Pair == [kind : {"tuple", "cons"}, elements : Ref \X Ref]
Marker == [kind : {"moved"}, to : Addr]

IsSeq(s) == s \in Seq(Range(s))

Live(H, a) == a \in Addr /\ a[1] \in DOMAIN H /\ a[2] <= Len(H[a[1]])
Fine(H, w) == w = Constant \/ Live(H, w)

IsPlace(H, h, i) == h \in DOMAIN H /\ i \in 1..Len(H[h])
IsPair(H, h, i) == IsPlace(H, h, i) /\ H[h][i].kind \in {"tuple", "cons"}
Word(H, h, i, j) == H[h][i].elements[j]

(* Heaps of objects whose words can be followed                             *)
Sane(H) ==
  /\ DOMAIN H \subseteq Nat \ {0}
  /\ \A h \in DOMAIN H : IsSeq(H[h])
  /\ \A h \in DOMAIN H : \A i \in 1..Len(H[h]) :
       /\ H[h][i].kind \in {"tuple", "cons"} => H[h][i] \in Pair
       /\ H[h][i].kind = "moved" => H[h][i] \in Marker
  /\ \A h \in DOMAIN H : \A i \in 1..Len(H[h]), j \in 1..2 :
       IsPair(H, h, i) => Fine(H, Word(H, h, i, j))

(* While the process runs: no markers, and no word of the old generation    *)
(* nor of what matured points to anything younger                           *)
Quiet(H, y, o, mark) ==
  /\ \A h \in DOMAIN H : \A i \in 1..Len(H[h]) : H[h][i].kind # "moved"
  /\ \A i, j \in Nat : IsPair(H, o, i) /\ j \in 1..2 =>
       Word(H, o, i, j) = Constant \/ Word(H, o, i, j)[1] = o
  /\ \A i, j \in Nat : IsPair(H, y, i) /\ i <= mark /\ j \in 1..2 =>
       \/ Word(H, y, i, j) = Constant \/ Word(H, y, i, j)[1] = o
       \/ Word(H, y, i, j)[1] = y /\ Word(H, y, i, j)[2] <= mark

(* A collection: where from and where to, what is mature, what was old      *)
Frame == [source |-> gc.source, target |-> gc.target, old |-> old, full |-> gc.full,
          mark |-> high_water_mark, top |-> gc.old_top]

Targets(c) == {c.target} \cup (IF c.full THEN {} ELSE {c.old})
Swept(c, w) == w = Constant \/ w[1] \in Targets(c)
Mature(c, w) == w = Constant \/ w[1] = c.old \/ (w[1] = c.source /\ w[2] <= c.mark)
IsOld(c, w) == w = Constant \/ w[1] = c.old

(* A marker stands in a heap that is swept and leads to the generation the  *)
(* object belongs to                                                        *)
Marked(H, c) ==
  \A h \in DOMAIN H : \A i \in 1..Len(H[h]) : H[h][i].kind = "moved" =>
    /\ h \notin Targets(c) /\ Live(H, H[h][i].to) /\ H[h][i].to[1] \in Targets(c)
    /\ ~c.full => (H[h][i].to[1] = c.old <=> (h = c.source /\ i <= c.mark))

(* What a minor collection tenures refers to nothing that is not mature     *)
Tenures(H, c) ==
  ~c.full =>
    /\ c.mark > 0 => c.old # NoHeap
    /\ c.old # NoHeap => c.top <= Len(H[c.old])
    /\ \A i, j \in Nat : IsPair(H, c.old, i) /\ j \in 1..2 =>
         Mature(c, Word(H, c.old, i, j)) /\ (i <= c.top => IsOld(c, Word(H, c.old, i, j)))
    /\ \A i, j \in Nat : IsPair(H, c.source, i) /\ i <= c.mark /\ j \in 1..2 =>
         Mature(c, Word(H, c.source, i, j))

Before(at, i, j) == i < at[1] \/ (i = at[1] /\ j < at[2])

(* How far the collection is                                                *)
Scans(H, c, phase, at) ==
  /\ phase = "scan" => \A i, j \in Nat : IsPair(H, c.target, i) /\ j \in 1..2 /\ Before(at, i, j) =>
       Swept(c, Word(H, c.target, i, j))
  /\ phase = "tenured" =>
       /\ ~c.full /\ c.old # NoHeap
       /\ \A i, j \in Nat : IsPair(H, c.target, i) /\ j \in 1..2 => Swept(c, Word(H, c.target, i, j))
       /\ \A i, j \in Nat : IsPair(H, c.old, i) /\ j \in 1..2 /\ Before(at, i, j) =>
            IsOld(c, Word(H, c.old, i, j))

RootsSafe(H, c, phase, at, R) ==
  \A s \in DOMAIN R : Fine(H, R[s]) /\ (phase # "roots" \/ s < at[1] => Swept(c, R[s]))

IdleHeaps ==
  /\ young \in Nat \ {0} /\ old \in Nat /\ old # young /\ {young, old} \cap off_heap = {}
  /\ DOMAIN heap = ({young, old} \ {NoHeap}) \cup off_heap

GcHeaps ==
  /\ gc.source \in Nat \ {0} /\ gc.target \in Nat \ {0} /\ old \in Nat
  /\ gc.source # gc.target /\ old # gc.source /\ old # gc.target
  /\ {gc.source, gc.target, old} \cap off_heap = {}
  /\ DOMAIN heap = ({gc.source, gc.target, old} \ {NoHeap}) \cup off_heap
  /\ young = IF gc.full THEN gc.source ELSE gc.target

GcRecord ==
  [phase : {"idle", "roots", "scan", "tenured"}, full : BOOLEAN, source : Nat,
   target : Nat, old_top : Nat, at : Nat \X Nat]

CollectorTypes ==
  /\ roots \in [1..Slots -> Ref] /\ mailbox \in Seq(Addr)
  /\ high_water_mark \in Nat /\ fresh \in Nat /\ \A h \in DOMAIN heap : h < fresh
  /\ gc \in GcRecord
  /\ IF gc.phase = "idle" THEN gc = Idle ELSE gc.at \in Addr
  /\ panic = "none" \/ gc.phase = "idle" \/ gc.full

IdleInv ==
  /\ IdleHeaps /\ Sane(heap) /\ high_water_mark <= Len(heap[young])
  /\ Quiet(heap, young, old, high_water_mark)
  /\ \A s \in DOMAIN roots : Fine(heap, roots[s])

GcSafe(H, c, phase, at, R) ==
  /\ Sane(H) /\ Marked(H, c) /\ Tenures(H, c)
  /\ Scans(H, c, phase, at) /\ RootsSafe(H, c, phase, at, R)

GcInv == GcHeaps /\ GcSafe(heap, Frame, gc.phase, gc.at, roots)

CollectorInv ==
  /\ CollectorTypes
  /\ panic = "none" => IF gc.phase = "idle" THEN IdleInv ELSE GcInv

-----------------------------------------------------------------------------
(* Sequences of objects of any kind                                         *)
LEMMA SeqLen ==
  ASSUME NEW s, IsSeq(s)
  PROVE  Len(s) \in Nat /\ DOMAIN s = 1..Len(s)
  BY DEF IsSeq

LEMMA SeqIntro ==
  ASSUME NEW S, NEW s \in Seq(S)
  PROVE  IsSeq(s)
<1>1. Len(s) \in Nat /\ DOMAIN s = 1..Len(s) /\ s = [i \in 1..Len(s) |-> s[i]]
  OBVIOUS
<1>2. \A i \in 1..Len(s) : s[i] \in Range(s)
  BY Zenon, <1>1 DEF Range
<1>. QED
  BY <1>1, <1>2 DEF IsSeq

LEMMA AppendSeq ==
  ASSUME NEW s, IsSeq(s), NEW o
  PROVE  /\ IsSeq(Append(s, o)) /\ Len(Append(s, o)) = Len(s) + 1
         /\ \A i \in 1..Len(s) : Append(s, o)[i] = s[i]
         /\ Append(s, o)[Len(s) + 1] = o
<1>1. PICK S : s \in Seq(S)
  BY Zenon DEF IsSeq
<1>2. s \in Seq(S \cup {o}) /\ Append(s, o) \in Seq(S \cup {o})
  BY <1>1
<1>3. IsSeq(Append(s, o))
  BY Zenon, <1>2, SeqIntro
<1>. QED
  BY <1>2, <1>3

Replace(s, k, o) == [s EXCEPT ![k] = o]

LEMMA ReplaceSeq ==
  ASSUME NEW s, IsSeq(s), NEW k \in 1..Len(s), NEW o
  PROVE  /\ IsSeq(Replace(s, k, o)) /\ Len(Replace(s, k, o)) = Len(s)
         /\ \A i \in 1..Len(s) : Replace(s, k, o)[i] = IF i = k THEN o ELSE s[i]
<1>1. PICK S : s \in Seq(S)
  BY Zenon DEF IsSeq
<1>2. s \in Seq(S \cup {o}) /\ [s EXCEPT ![k] = o] \in Seq(S \cup {o})
  BY <1>1
<1>3. IsSeq(Replace(s, k, o))
  BY Zenon, <1>2, SeqIntro DEF Replace
<1>. QED
  BY <1>2, <1>3 DEF Replace

-----------------------------------------------------------------------------
LEMMA SaneWord ==
  ASSUME NEW H, Sane(H), NEW h, NEW i, IsPair(H, h, i), NEW j \in 1..2
  PROVE  Fine(H, Word(H, h, i, j))
  BY Zenon DEF Sane, IsPair, IsPlace

(* What it is to move one object: everything but the object stays, and only *)
(* what is no ProcBin becomes a marker                                      *)
Moves(H, K, a, d) ==
  /\ Live(H, a) /\ H[a[1]][a[2]].kind # "moved"
  /\ d \in Addr /\ d[1] \in DOMAIN H /\ d[1] # a[1] /\ d[2] = Len(H[d[1]]) + 1
  /\ DOMAIN K = DOMAIN H
  /\ \A h \in DOMAIN H : IsSeq(K[h]) /\ Len(K[h]) = IF h = d[1] THEN Len(H[h]) + 1 ELSE Len(H[h])
  /\ \A h \in DOMAIN H : \A i \in 1..Len(H[h]) :
       \/ K[h][i] = H[h][i]
       \/ h = a[1] /\ i = a[2] /\ K[h][i] = Moved(d) /\ H[h][i].kind # "procbin"
  /\ \/ K[d[1]][d[2]] = H[a[1]][a[2]] /\ H[a[1]][a[2]].kind # "heap_sub_binary"
     \/ /\ H[a[1]][a[2]].kind = "heap_sub_binary"
        /\ K[d[1]][d[2]].kind = "heapbin" /\ K[d[1]][d[2]].elements = <<>>

IsFrame(c) ==
  /\ c.source \in Nat \ {0} /\ c.target \in Nat \ {0} /\ c.old \in Nat
  /\ c.source # c.target /\ c.old # c.source /\ c.old # c.target
  /\ c.full \in BOOLEAN /\ c.mark \in Nat /\ c.top \in Nat

(* The move goes from a heap that is swept to the generation the object     *)
(* belongs to, ahead of the scan                                            *)
Fits(H, c, phase, at, a, d) ==
  /\ a[1] \notin Targets(c) /\ d[1] \in Targets(c)
  /\ ~c.full => (d[1] = c.old <=> (a[1] = c.source /\ a[2] <= c.mark))
  /\ phase = "tenured" => d[1] = c.old /\ at[1] <= Len(H[c.old])
  /\ phase = "scan" => at[1] <= Len(H[c.target])

Placed(H, c) ==
  c.source \in DOMAIN H /\ c.target \in DOMAIN H /\ (c.old # NoHeap => c.old \in DOMAIN H)

LEMMA MovesLive ==
  ASSUME NEW H, NEW K, NEW a, NEW d, Sane(H), Moves(H, K, a, d)
  PROVE  /\ \A x : Live(H, x) => Live(K, x)
         /\ \A x : Fine(H, x) => Fine(K, x)
         /\ Live(K, d)
<1>1. \A h \in DOMAIN H : Len(H[h]) \in Nat /\ Len(K[h]) \in Nat
  BY Zenon, SeqLen DEF Sane, Moves
<1>2. ASSUME NEW x, Live(H, x) PROVE Live(K, x)
  BY <1>1, <1>2 DEF Live, Moves, Addr
<1>3. Live(K, d)
  BY <1>1 DEF Live, Moves, Addr
<1>. QED
  BY Zenon, <1>2, <1>3 DEF Fine

(* The objects after a move: those there before, the marker, the copy       *)
LEMMA MovesPlaces ==
  ASSUME NEW H, NEW K, NEW a, NEW d, Sane(H), Moves(H, K, a, d),
         NEW h, NEW i, IsPlace(K, h, i)
  PROVE  \/ IsPlace(H, h, i) /\ K[h][i] = H[h][i]
         \/ IsPlace(H, h, i) /\ h = a[1] /\ i = a[2] /\ K[h][i] = Moved(d)
         \/ /\ h = d[1] /\ i = d[2] /\ K[h][i] = H[a[1]][a[2]] /\ IsPlace(H, a[1], a[2])
            /\ K[h][i].kind # "heap_sub_binary"
         \/ h = d[1] /\ i = d[2] /\ K[h][i].kind = "heapbin" /\ K[h][i].elements = <<>>
<1>1. h \in DOMAIN H /\ Len(H[h]) \in Nat /\ i \in 1..Len(K[h])
  BY Zenon, SeqLen DEF Sane, Moves, IsPlace
<1>2. CASE i \in 1..Len(H[h])
  BY Zenon, <1>1, <1>2 DEF Moves, IsPlace
<1>3. CASE i \notin 1..Len(H[h])
  <2>1. h = d[1] /\ i = d[2]
    BY <1>1, <1>3 DEF Moves
  <2>2. IsPlace(H, a[1], a[2])
    BY SeqLen DEF Moves, IsPlace, Live, Addr, Sane
  <2>. QED
    BY Zenon, <2>1, <2>2 DEF Moves
<1>. QED
  BY Zenon, <1>2, <1>3

LEMMA MovesPairs ==
  ASSUME NEW H, NEW K, NEW a, NEW d, Sane(H), Moves(H, K, a, d),
         NEW h, NEW i, IsPair(K, h, i)
  PROVE  \/ IsPair(H, h, i) /\ K[h][i] = H[h][i]
         \/ h = d[1] /\ i = d[2] /\ K[h][i] = H[a[1]][a[2]] /\ IsPair(H, a[1], a[2])
<1>1. IsPlace(K, h, i) /\ K[h][i].kind \in {"tuple", "cons"}
  BY Zenon DEF IsPair
<1>2. Moved(d).kind = "moved"
  BY Zenon DEF Moved
<1>. QED
  BY <1>1, <1>2, MovesPlaces DEF IsPair

LEMMA MovesSane ==
  ASSUME NEW H, NEW K, NEW a, NEW d, Sane(H), Moves(H, K, a, d)
  PROVE  Sane(K)
<1>1. DOMAIN K \subseteq Nat \ {0} /\ \A h \in DOMAIN K : IsSeq(K[h])
  BY Zenon DEF Sane, Moves
<1>2. ASSUME NEW h \in DOMAIN K, NEW i \in 1..Len(K[h])
      PROVE  /\ K[h][i].kind \in {"tuple", "cons"} => K[h][i] \in Pair
             /\ K[h][i].kind = "moved" => K[h][i] \in Marker
  <2>1. IsPlace(K, h, i)
    BY Zenon DEF IsPlace
  <2>2. Moved(d) \in Marker /\ Moved(d).kind = "moved"
    BY Zenon DEF Moved, Marker, Moves
  <2>. QED
    BY <2>1, <2>2, MovesPlaces DEF Sane, IsPlace
<1>3. ASSUME NEW h \in DOMAIN K, NEW i \in 1..Len(K[h]), NEW j \in 1..2, IsPair(K, h, i)
      PROVE  Fine(K, Word(K, h, i, j))
  <2>1. \/ IsPair(H, h, i) /\ Word(K, h, i, j) = Word(H, h, i, j)
        \/ IsPair(H, a[1], a[2]) /\ Word(K, h, i, j) = Word(H, a[1], a[2], j)
    BY <1>3, MovesPairs DEF Word
  <2>2. \A g, k : IsPair(H, g, k) => Fine(H, Word(H, g, k, j))
    BY Zenon DEF Sane, IsPair, IsPlace
  <2>. QED
    BY Zenon, <2>1, <2>2, MovesLive
<1>. QED
  BY Zenon, <1>1, <1>2, <1>3 DEF Sane

LEMMA MovesMarked ==
  ASSUME NEW H, NEW K, NEW a, NEW d, NEW c, NEW phase, NEW at,
         Sane(H), Moves(H, K, a, d), IsFrame(c), Fits(H, c, phase, at, a, d), Marked(H, c)
  PROVE  Marked(K, c)
<1>. SUFFICES ASSUME NEW h \in DOMAIN K, NEW i \in 1..Len(K[h]), K[h][i].kind = "moved"
              PROVE  /\ h \notin Targets(c) /\ Live(K, K[h][i].to) /\ K[h][i].to[1] \in Targets(c)
                     /\ ~c.full => (K[h][i].to[1] = c.old <=> (h = c.source /\ i <= c.mark))
  BY Zenon DEF Marked
<1>1. \/ IsPlace(H, h, i) /\ K[h][i] = H[h][i]
      \/ h = a[1] /\ i = a[2] /\ K[h][i] = Moved(d)
  <2>1. IsPlace(K, h, i)
    BY Zenon DEF IsPlace
  <2>2. H[a[1]][a[2]].kind # "moved"
    BY Zenon DEF Moves
  <2>. QED
    BY <2>1, <2>2, MovesPlaces
<1>2. CASE IsPlace(H, h, i) /\ K[h][i] = H[h][i]
  BY <1>2, MovesLive DEF Marked, IsPlace
<1>3. CASE h = a[1] /\ i = a[2] /\ K[h][i] = Moved(d)
  <2>1. K[h][i].to = d
    BY <1>3 DEF Moved
  <2>. QED
    BY <1>3, <2>1, MovesLive DEF Fits
<1>. QED
  BY Zenon, <1>1, <1>2, <1>3

LEMMA MovesTenures ==
  ASSUME NEW H, NEW K, NEW a, NEW d, NEW c, NEW phase, NEW at, Placed(H, c),
         Sane(H), Moves(H, K, a, d), IsFrame(c), Fits(H, c, phase, at, a, d), Tenures(H, c)
  PROVE  Tenures(K, c)
<1>. SUFFICES ASSUME ~c.full PROVE Tenures(K, c)
  BY Zenon DEF Tenures
<1>1. c.mark > 0 => c.old # NoHeap
  BY Zenon DEF Tenures
<1>2. ASSUME c.old # NoHeap PROVE c.top <= Len(K[c.old])
  <2>1. c.old \in DOMAIN H
    BY Zenon, <1>2 DEF Placed
  <2>2. c.top <= Len(H[c.old]) /\ Len(H[c.old]) \in Nat /\ Len(K[c.old]) \in Nat
    BY Zenon, <1>2, <2>1, SeqLen DEF Tenures, Sane, Moves
  <2>. QED
    BY SMTT(20), <2>1, <2>2 DEF Moves, IsFrame
<1>3. ASSUME NEW i \in Nat, NEW j \in Nat, IsPair(K, c.old, i), j \in 1..2
      PROVE  Mature(c, Word(K, c.old, i, j)) /\ (i <= c.top => IsOld(c, Word(K, c.old, i, j)))
  <2>1. CASE IsPair(H, c.old, i) /\ K[c.old][i] = H[c.old][i]
    BY Zenon, <1>3, <2>1 DEF Tenures, Word
  <2>2. CASE c.old = d[1] /\ i = d[2] /\ K[c.old][i] = H[a[1]][a[2]] /\ IsPair(H, a[1], a[2])
    <3>1. a[1] = c.source /\ a[2] <= c.mark /\ a[2] \in Nat
      BY Zenon, <2>2 DEF Fits, Moves, Live, Addr
    <3>2. Mature(c, Word(H, c.source, a[2], j))
      BY Zenon, <1>3, <2>2, <3>1 DEF Tenures
    <3>3. ~(i <= c.top)
      <4>1. c.old # NoHeap /\ c.old \in DOMAIN H
        BY Zenon, <2>2 DEF Moves, Addr, NoHeap
      <4>2. Len(H[c.old]) \in Nat /\ c.top <= Len(H[c.old])
        BY Zenon, <4>1, SeqLen DEF Sane, Tenures
      <4>. QED
        BY <4>1, <4>2, <2>2 DEF Moves, IsFrame
    <3>. QED
      BY Zenon, <2>2, <3>1, <3>2, <3>3 DEF Word
  <2>. QED
    BY <1>3, <2>1, <2>2, MovesPairs
<1>4. ASSUME NEW i \in Nat, NEW j \in Nat, IsPair(K, c.source, i), i <= c.mark, j \in 1..2
      PROVE  Mature(c, Word(K, c.source, i, j))
  <2>1. d[1] # c.source
    BY Zenon DEF Fits, Targets, IsFrame
  <2>2. IsPair(H, c.source, i) /\ K[c.source][i] = H[c.source][i]
    BY <1>4, <2>1, MovesPairs
  <2>. QED
    BY Zenon, <1>4, <2>2 DEF Tenures, Word
<1>. QED
  BY Zenon, <1>1, <1>2, <1>3, <1>4 DEF Tenures

LEMMA MovesScans ==
  ASSUME NEW H, NEW K, NEW a, NEW d, NEW c, NEW phase, NEW at \in Nat \X Nat, Placed(H, c),
         Sane(H), Moves(H, K, a, d), IsFrame(c), Fits(H, c, phase, at, a, d),
         Scans(H, c, phase, at)
  PROVE  Scans(K, c, phase, at)
<1>1. ASSUME phase = "scan", NEW i \in Nat, NEW j \in Nat, IsPair(K, c.target, i), j \in 1..2,
             Before(at, i, j)
      PROVE  Swept(c, Word(K, c.target, i, j))
  <2>1. at[1] <= Len(H[c.target]) /\ Len(H[c.target]) \in Nat
    BY Zenon, <1>1, SeqLen DEF Fits, Sane, Placed
  <2>2. ~(c.target = d[1] /\ i = d[2])
    BY <2>1, <1>1 DEF Moves, Before
  <2>3. IsPair(H, c.target, i) /\ K[c.target][i] = H[c.target][i]
    BY <1>1, <2>2, MovesPairs
  <2>. QED
    BY Zenon, <1>1, <2>3 DEF Scans, Word
<1>2. ASSUME phase = "tenured"
      PROVE  ~c.full /\ c.old # NoHeap
  BY Zenon, <1>2 DEF Scans
<1>3. ASSUME phase = "tenured", NEW i \in Nat, NEW j \in Nat, IsPair(K, c.target, i), j \in 1..2
      PROVE  Swept(c, Word(K, c.target, i, j))
  <2>1. d[1] # c.target
    BY Zenon, <1>3 DEF Fits, IsFrame
  <2>2. IsPair(H, c.target, i) /\ K[c.target][i] = H[c.target][i]
    BY <1>3, <2>1, MovesPairs
  <2>. QED
    BY Zenon, <1>3, <2>2 DEF Scans, Word
<1>4. ASSUME phase = "tenured", NEW i \in Nat, NEW j \in Nat, IsPair(K, c.old, i), j \in 1..2,
             Before(at, i, j)
      PROVE  IsOld(c, Word(K, c.old, i, j))
  <2>1. at[1] <= Len(H[c.old]) /\ Len(H[c.old]) \in Nat
    BY Zenon, <1>2, <1>4, SeqLen DEF Fits, Sane, Placed
  <2>2. ~(c.old = d[1] /\ i = d[2])
    BY <2>1, <1>4 DEF Moves, Before
  <2>3. IsPair(H, c.old, i) /\ K[c.old][i] = H[c.old][i]
    BY <1>4, <2>2, MovesPairs
  <2>. QED
    BY Zenon, <1>4, <2>3 DEF Scans, Word
<1>. QED
  BY Zenon, <1>1, <1>2, <1>3, <1>4 DEF Scans

LEMMA MovesSafe ==
  ASSUME NEW H, NEW K, NEW a, NEW d, NEW c, NEW phase, NEW at \in Nat \X Nat, NEW R,
         Placed(H, c), IsFrame(c), Moves(H, K, a, d), Fits(H, c, phase, at, a, d),
         GcSafe(H, c, phase, at, R)
  PROVE  GcSafe(K, c, phase, at, R)
<1>1. Sane(K) /\ Marked(K, c) /\ Tenures(K, c) /\ Scans(K, c, phase, at)
  BY Zenon, MovesSane, MovesMarked, MovesTenures, MovesScans DEF GcSafe
<1>2. RootsSafe(K, c, phase, at, R)
  BY Zenon, MovesLive DEF GcSafe, RootsSafe
<1>. QED
  BY Zenon, <1>1, <1>2 DEF GcSafe

-----------------------------------------------------------------------------
(* What it is to replace one word of the heap that is scanned               *)
Writes(K, L, g, k, j, w) ==
  /\ IsPair(K, g, k) /\ j \in 1..2 /\ w \in Ref
  /\ DOMAIN L = DOMAIN K
  /\ \A h \in DOMAIN K : IsSeq(L[h]) /\ Len(L[h]) = Len(K[h])
  /\ \A h \in DOMAIN K : \A i \in 1..Len(K[h]) : (h = g /\ i = k) \/ L[h][i] = K[h][i]
  /\ L[g][k] \in Pair
  /\ L[g][k].elements = [K[g][k].elements EXCEPT ![j] = w]

LEMMA WritesWords ==
  ASSUME NEW K, NEW L, NEW g, NEW k, NEW j, NEW w, Sane(K), Writes(K, L, g, k, j, w),
         NEW h, NEW i, IsPair(L, h, i), NEW m \in 1..2
  PROVE  /\ IsPair(K, h, i)
         /\ \/ h = g /\ i = k /\ m = j /\ Word(L, h, i, m) = w
            \/ ~(h = g /\ i = k /\ m = j) /\ Word(L, h, i, m) = Word(K, h, i, m)
<1>1. IsPlace(K, h, i)
  BY Zenon DEF Writes, IsPair, IsPlace
<1>2. CASE h = g /\ i = k
  <2>1. IsPair(K, h, i) /\ K[g][k] \in Pair
    BY Zenon, <1>2 DEF Writes, Sane, IsPair, IsPlace
  <2>2. K[g][k].elements \in Ref \X Ref
    BY Zenon, <2>1 DEF Pair
  <2>3. L[g][k].elements[m] = IF m = j THEN w ELSE K[g][k].elements[m]
    BY <2>2 DEF Writes
  <2>. QED
    BY Zenon, <1>2, <2>1, <2>3 DEF Word
<1>3. CASE ~(h = g /\ i = k)
  <2>1. L[h][i] = K[h][i]
    BY Zenon, <1>1, <1>3 DEF Writes, IsPlace
  <2>. QED
    BY Zenon, <1>1, <1>3, <2>1 DEF Word, IsPair
<1>. QED
  BY Zenon, <1>2, <1>3

LEMMA WritesLive ==
  ASSUME NEW K, NEW L, NEW g, NEW k, NEW j, NEW w, Sane(K), Writes(K, L, g, k, j, w)
  PROVE  /\ \A x : Live(K, x) => Live(L, x)
         /\ \A x : Fine(K, x) => Fine(L, x)
<1>1. ASSUME NEW x, Live(K, x) PROVE Live(L, x)
  BY Zenon, <1>1 DEF Live, Writes, Addr
<1>. QED
  BY Zenon, <1>1 DEF Fine

LEMMA WritesSane ==
  ASSUME NEW K, NEW L, NEW g, NEW k, NEW j, NEW w, Sane(K), Writes(K, L, g, k, j, w), Fine(K, w)
  PROVE  Sane(L)
<1>1. DOMAIN L \subseteq Nat \ {0} /\ \A h \in DOMAIN L : IsSeq(L[h])
  BY Zenon DEF Sane, Writes
<1>2. ASSUME NEW h \in DOMAIN L, NEW i \in 1..Len(L[h])
      PROVE  /\ L[h][i].kind \in {"tuple", "cons"} => L[h][i] \in Pair
             /\ L[h][i].kind = "moved" => L[h][i] \in Marker
  <2>1. CASE h = g /\ i = k
    BY Zenon, <2>1 DEF Writes, Pair
  <2>2. CASE ~(h = g /\ i = k)
    BY <2>2 DEF Writes, Sane
  <2>. QED
    BY Zenon, <2>1, <2>2
<1>3. ASSUME NEW h \in DOMAIN L, NEW i \in 1..Len(L[h]), NEW m \in 1..2, IsPair(L, h, i)
      PROVE  Fine(L, Word(L, h, i, m))
  <2>1. IsPair(K, h, i) /\ (Word(L, h, i, m) = w \/ Word(L, h, i, m) = Word(K, h, i, m))
    BY <1>3, WritesWords
  <2>2. Fine(K, Word(K, h, i, m))
    BY Zenon, <2>1 DEF Sane, IsPair, IsPlace
  <2>. QED
    BY Zenon, <2>1, <2>2, WritesLive
<1>. QED
  BY Zenon, <1>1, <1>2, <1>3 DEF Sane

LEMMA WritesMarked ==
  ASSUME NEW K, NEW L, NEW g, NEW k, NEW j, NEW w, NEW c, Sane(K), Writes(K, L, g, k, j, w),
         Marked(K, c)
  PROVE  Marked(L, c)
<1>. SUFFICES ASSUME NEW h \in DOMAIN L, NEW i \in 1..Len(L[h]), L[h][i].kind = "moved"
              PROVE  /\ h \notin Targets(c) /\ Live(L, L[h][i].to) /\ L[h][i].to[1] \in Targets(c)
                     /\ ~c.full => (L[h][i].to[1] = c.old <=> (h = c.source /\ i <= c.mark))
  BY Zenon DEF Marked
<1>1. L[g][k].kind # "moved"
  BY Zenon DEF Writes, Pair
<1>2. h \in DOMAIN K /\ i \in 1..Len(K[h]) /\ L[h][i] = K[h][i]
  BY <1>1 DEF Writes
<1>. QED
  BY <1>2, WritesLive DEF Marked

(* The word is the next one of the scan, and what is written was swept      *)
WritesNext(c, phase, g, w) ==
  /\ phase \in {"scan", "tenured"} /\ Swept(c, w)
  /\ phase = "scan" => g = c.target
  /\ phase = "tenured" => g = c.old /\ IsOld(c, w)

LEMMA WritesTenures ==
  ASSUME NEW K, NEW L, NEW g, NEW k, NEW j, NEW w, NEW c, NEW phase, Placed(K, c), IsFrame(c),
         Sane(K), Writes(K, L, g, k, j, w), WritesNext(c, phase, g, w), Tenures(K, c)
  PROVE  Tenures(L, c)
<1>. SUFFICES ASSUME ~c.full PROVE Tenures(L, c)
  BY Zenon DEF Tenures
<1>1. c.mark > 0 => c.old # NoHeap
  BY Zenon DEF Tenures
<1>2. c.old # NoHeap => c.top <= Len(L[c.old])
  BY Zenon DEF Tenures, Placed, Writes
<1>3. ASSUME NEW i \in Nat, NEW m \in Nat, IsPair(L, c.old, i), m \in 1..2
      PROVE  Mature(c, Word(L, c.old, i, m)) /\ (i <= c.top => IsOld(c, Word(L, c.old, i, m)))
  <2>1. IsPair(K, c.old, i)
    BY Zenon, <1>3, WritesWords
  <2>2. CASE c.old = g /\ Word(L, c.old, i, m) = w
    <3>1. IsOld(c, w)
      BY Zenon, <2>2 DEF WritesNext, IsFrame
    <3>. QED
      BY Zenon, <2>2, <3>1 DEF IsOld, Mature
  <2>3. CASE Word(L, c.old, i, m) = Word(K, c.old, i, m)
    BY Zenon, <1>3, <2>1, <2>3 DEF Tenures
  <2>. QED
    BY <1>3, <2>2, <2>3, WritesWords
<1>4. ASSUME NEW i \in Nat, NEW m \in Nat, IsPair(L, c.source, i), i <= c.mark, m \in 1..2
      PROVE  Mature(c, Word(L, c.source, i, m))
  <2>1. c.source # g
    BY Zenon DEF WritesNext, IsFrame
  <2>2. IsPair(K, c.source, i) /\ Word(L, c.source, i, m) = Word(K, c.source, i, m)
    BY <1>4, <2>1, WritesWords
  <2>. QED
    BY Zenon, <1>4, <2>2 DEF Tenures
<1>. QED
  BY Zenon, <1>1, <1>2, <1>3, <1>4 DEF Tenures

LEMMA WritesScans ==
  ASSUME NEW K, NEW L, NEW g, NEW k \in Nat, NEW j \in Nat, NEW w, NEW c, NEW phase, IsFrame(c),
         Sane(K), Writes(K, L, g, k, j, w), WritesNext(c, phase, g, w),
         Scans(K, c, phase, <<k, j>>)
  PROVE  Scans(L, c, phase, <<k, j + 1>>)
<1>0. ASSUME NEW i \in Nat, NEW m \in Nat, Before(<<k, j + 1>>, i, m)
      PROVE  Before(<<k, j>>, i, m) \/ (i = k /\ m = j)
  BY <1>0 DEF Before
<1>1. ASSUME phase = "scan", NEW i \in Nat, NEW m \in Nat, IsPair(L, c.target, i), m \in 1..2,
             Before(<<k, j + 1>>, i, m)
      PROVE  Swept(c, Word(L, c.target, i, m))
  <2>1. IsPair(K, c.target, i) /\ c.target = g
    BY Zenon, <1>1, WritesWords DEF WritesNext
  <2>2. CASE Word(L, c.target, i, m) = w
    BY Zenon, <2>2 DEF WritesNext
  <2>3. CASE ~(i = k /\ m = j) /\ Word(L, c.target, i, m) = Word(K, c.target, i, m)
    <3>1. Before(<<k, j>>, i, m)
      BY Zenon, <1>0, <1>1, <2>3
    <3>. QED
      BY Zenon, <1>1, <2>1, <2>3, <3>1 DEF Scans
  <2>. QED
    BY <1>1, <2>1, <2>2, <2>3, WritesWords
<1>2. ASSUME phase = "tenured"
      PROVE  ~c.full /\ c.old # NoHeap
  BY Zenon, <1>2 DEF Scans
<1>3. ASSUME phase = "tenured", NEW i \in Nat, NEW m \in Nat, IsPair(L, c.target, i), m \in 1..2
      PROVE  Swept(c, Word(L, c.target, i, m))
  <2>1. c.target # g
    BY Zenon, <1>3 DEF WritesNext, IsFrame
  <2>2. IsPair(K, c.target, i) /\ Word(L, c.target, i, m) = Word(K, c.target, i, m)
    BY <1>3, <2>1, WritesWords
  <2>. QED
    BY Zenon, <1>3, <2>2 DEF Scans
<1>4. ASSUME phase = "tenured", NEW i \in Nat, NEW m \in Nat, IsPair(L, c.old, i), m \in 1..2,
             Before(<<k, j + 1>>, i, m)
      PROVE  IsOld(c, Word(L, c.old, i, m))
  <2>1. IsPair(K, c.old, i) /\ c.old = g
    BY Zenon, <1>4, WritesWords DEF WritesNext
  <2>2. CASE Word(L, c.old, i, m) = w
    BY Zenon, <1>4, <2>2 DEF WritesNext
  <2>3. CASE ~(i = k /\ m = j) /\ Word(L, c.old, i, m) = Word(K, c.old, i, m)
    <3>1. Before(<<k, j>>, i, m)
      BY Zenon, <1>0, <1>4, <2>3
    <3>. QED
      BY Zenon, <1>4, <2>1, <2>3, <3>1 DEF Scans
  <2>. QED
    BY <1>4, <2>1, <2>2, <2>3, WritesWords
<1>. QED
  BY Zenon, <1>1, <1>2, <1>3, <1>4 DEF Scans

LEMMA WritesSafe ==
  ASSUME NEW K, NEW L, NEW g, NEW k \in Nat, NEW j \in Nat, NEW w, NEW c, NEW phase, NEW R,
         IsFrame(c), Placed(K, c), Writes(K, L, g, k, j, w), WritesNext(c, phase, g, w),
         Fine(K, w), GcSafe(K, c, phase, <<k, j>>, R)
  PROVE  GcSafe(L, c, phase, <<k, j + 1>>, R)
<1>1. Sane(L) /\ Marked(L, c) /\ Tenures(L, c)
  BY Zenon, WritesSane, WritesMarked, WritesTenures DEF GcSafe
<1>2. Scans(L, c, phase, <<k, j + 1>>)
  BY Zenon, WritesScans DEF GcSafe
<1>3. RootsSafe(L, c, phase, <<k, j + 1>>, R)
  BY Zenon, WritesLive DEF GcSafe, RootsSafe, WritesNext
<1>. QED
  BY Zenon, <1>1, <1>2, <1>3 DEF GcSafe

-----------------------------------------------------------------------------
(* sweep_term                                                               *)
LEMMA FrameFacts ==
  ASSUME CollectorTypes, GcHeaps
  PROVE  /\ IsFrame(Frame) /\ Placed(heap, Frame)
         /\ Frame.source = gc.source /\ Frame.target = gc.target /\ Frame.old = old
         /\ Frame.full = gc.full /\ Frame.mark = high_water_mark /\ Frame.top = gc.old_top
<1>1. /\ Frame.source = gc.source /\ Frame.target = gc.target /\ Frame.old = old
      /\ Frame.full = gc.full /\ Frame.mark = high_water_mark /\ Frame.top = gc.old_top
  BY Zenon DEF Frame
<1>2. gc.full \in BOOLEAN /\ gc.old_top \in Nat /\ high_water_mark \in Nat
  BY Zenon DEF CollectorTypes, GcRecord
<1>3. IsFrame(Frame)
  BY Zenon, <1>1, <1>2 DEF IsFrame, GcHeaps
<1>4. Placed(heap, Frame)
  BY Zenon, <1>1 DEF Placed, GcHeaps, NoHeap
<1>. QED
  BY Zenon, <1>1, <1>3, <1>4

(* The heaps with one more object                                           *)
Extend(H, g, o) == [H EXCEPT ![g] = Append(@, o)]

Extends(H, K, g, o) ==
  /\ DOMAIN K = DOMAIN H
  /\ \A h \in DOMAIN H : IsSeq(K[h]) /\ Len(K[h]) = IF h = g THEN Len(H[h]) + 1 ELSE Len(H[h])
  /\ \A h \in DOMAIN H : \A i \in 1..Len(H[h]) : K[h][i] = H[h][i]
  /\ K[g][Len(H[g]) + 1] = o

LEMMA ExtendFacts ==
  ASSUME NEW H, NEW g \in DOMAIN H, NEW o, \A h \in DOMAIN H : IsSeq(H[h])
  PROVE  Extends(H, Extend(H, g, o), g, o)
<1>. DEFINE K == Extend(H, g, o)
<1>1. DOMAIN K = DOMAIN H /\ K[g] = Append(H[g], o) /\ \A h \in DOMAIN H : h # g => K[h] = H[h]
  BY Zenon DEF Extend
<1>. HIDE DEF K
<1>2. /\ IsSeq(K[g]) /\ Len(K[g]) = Len(H[g]) + 1 /\ K[g][Len(H[g]) + 1] = o
      /\ \A i \in 1..Len(H[g]) : K[g][i] = H[g][i]
  BY <1>1, AppendSeq
<1>3. Extends(H, K, g, o)
  BY Zenon, <1>1, <1>2 DEF Extends
<1>. QED
  BY Zenon, <1>3 DEF K

(* The heaps with one object replaced                                       *)
Change(H, g, k, o) == [H EXCEPT ![g] = Replace(@, k, o)]

Changes(H, K, g, k, o) ==
  /\ DOMAIN K = DOMAIN H
  /\ \A h \in DOMAIN H : IsSeq(K[h]) /\ Len(K[h]) = Len(H[h])
  /\ \A h \in DOMAIN H : \A i \in 1..Len(H[h]) : K[h][i] = IF h = g /\ i = k THEN o ELSE H[h][i]

LEMMA ChangeFacts ==
  ASSUME NEW H, NEW g \in DOMAIN H, NEW k \in 1..Len(H[g]), NEW o,
         \A h \in DOMAIN H : IsSeq(H[h])
  PROVE  Changes(H, Change(H, g, k, o), g, k, o)
<1>. DEFINE K == Change(H, g, k, o)
<1>1. DOMAIN K = DOMAIN H /\ K[g] = Replace(H[g], k, o) /\ \A h \in DOMAIN H : h # g => K[h] = H[h]
  BY Zenon DEF Change
<1>. HIDE DEF K
<1>2. /\ IsSeq(K[g]) /\ Len(K[g]) = Len(H[g])
      /\ \A i \in 1..Len(H[g]) : K[g][i] = IF i = k THEN o ELSE H[g][i]
  BY <1>1, ReplaceSeq
<1>3. Changes(H, K, g, k, o)
  BY Zenon, <1>1, <1>2 DEF Changes
<1>. QED
  BY Zenon, <1>3 DEF K

(* Only a ProcBin has a link to move                                        *)
Links(M, a, d) == M = IF heap[a[1]][a[2]].kind = "procbin" THEN Relinked(a, d) ELSE linked

LEMMA SweepObjectMoves ==
  ASSUME Sane(heap), NEW a, Live(heap, a), heap[a[1]][a[2]].kind # "moved",
         NEW d \in Addr, d[1] \in DOMAIN heap, d[1] # a[1], d[2] = Len(heap[d[1]]) + 1
  PROVE  /\ Moves(heap, SweepObject(a, d).heap, a, d) /\ SweepObject(a, d).word = d
         /\ Links(SweepObject(a, d).linked, a, d)
<1>. SUFFICES Moves(heap, SweepObject(a, d).heap, a, d) /\ SweepObject(a, d).word = d
  BY Zenon DEF SweepObject, Left, Object, Links
<1>. DEFINE obj == heap[a[1]][a[2]]
            Copied(o) == Extend(heap, d[1], o)
<1>0. /\ \A h \in DOMAIN heap : IsSeq(heap[h])
      /\ a[1] \in DOMAIN heap /\ Len(heap[a[1]]) \in Nat /\ a[2] \in 1..Len(heap[a[1]])
  BY SeqLen DEF Sane, Live, Addr
<1>1. ASSUME NEW o PROVE Extends(heap, Copied(o), d[1], o)
  BY Zenon, <1>0, ExtendFacts
<1>. HIDE DEF Copied
<1>2. CASE obj.kind \in {"procbin", "sub_binary"}
  <2>1. SweepObject(a, d).heap = Copied(obj) /\ SweepObject(a, d).word = d
    BY Zenon, <1>2 DEF SweepObject, Left, Object, Copied, Extend
  <2>2. Moves(heap, Copied(obj), a, d)
    BY <1>1, <1>2 DEF Moves, Extends
  <2>. QED
    BY Zenon, <2>1, <2>2
<1>3. CASE obj.kind = "heap_sub_binary"
  <2>. DEFINE bin == HeapBin(Shown(obj))
  <2>1. SweepObject(a, d).heap = Copied(bin) /\ SweepObject(a, d).word = d
    BY Zenon, <1>3 DEF SweepObject, Left, Object, Copied, Extend
  <2>2. bin.kind = "heapbin" /\ bin.elements = <<>>
    BY Zenon DEF HeapBin
  <2>. HIDE DEF bin
  <2>3. Moves(heap, Copied(bin), a, d)
    BY <1>1, <1>3, <2>2 DEF Moves, Extends
  <2>. QED
    BY Zenon, <2>1, <2>3
<1>4. CASE obj.kind \notin {"procbin", "sub_binary", "heap_sub_binary"}
  <2>. DEFINE C == Copied(obj)
              K == Change(C, a[1], a[2], Moved(d))
  <2>1. SweepObject(a, d).heap = K /\ SweepObject(a, d).word = d
    BY Zenon, <1>4 DEF SweepObject, Left, Object, Copied, Extend, Change, Replace
  <2>2. a[1] \in DOMAIN C /\ a[2] \in 1..Len(C[a[1]]) /\ \A h \in DOMAIN C : IsSeq(C[h])
    BY <1>0, <1>1 DEF Extends
  <2>4. Extends(heap, C, d[1], obj)
    BY Zenon, <1>1
  <2>. HIDE DEF C
  <2>3. Changes(C, K, a[1], a[2], Moved(d))
    BY Zenon, <2>2, ChangeFacts
  <2>. HIDE DEF K
  <2>5. \A h \in DOMAIN heap : Len(heap[h]) \in Nat
    BY Zenon, <1>0, SeqLen
  <2>6. Moves(heap, K, a, d)
    <3>1. \A h \in DOMAIN heap : \A i \in 1..Len(heap[h]) :
            \/ K[h][i] = heap[h][i]
            \/ h = a[1] /\ i = a[2] /\ K[h][i] = Moved(d) /\ heap[h][i].kind # "procbin"
      BY <1>4, <2>3, <2>4, <2>5 DEF Extends, Changes
    <3>2. K[d[1]][d[2]] = obj
      BY <2>3, <2>4, <2>5 DEF Extends, Changes
    <3>. QED
      BY Zenon, <1>4, <2>3, <2>4, <3>1, <3>2 DEF Moves, Extends, Changes
  <2>. QED
    BY Zenon, <2>1, <2>6
<1>. QED
  BY Zenon, <1>2, <1>3, <1>4

(* What a sweep leaves of the heaps and of the word                         *)
Leaves(left) ==
  /\ Fine(left.heap, left.word) /\ Swept(Frame, left.word)
  /\ gc.phase = "tenured" => IsOld(Frame, left.word)
  /\ \/ left.heap = heap /\ left.linked = linked
     \/ \E a, d \in Addr : /\ Moves(heap, left.heap, a, d) /\ Links(left.linked, a, d)
                           /\ Fits(heap, Frame, gc.phase, gc.at, a, d)

Ahead ==
  /\ gc.phase = "tenured" => gc.at[1] <= Len(heap[old])
  /\ gc.phase = "scan" => gc.at[1] <= Len(heap[gc.target])

LEMMA FrameTargets ==
  ASSUME CollectorTypes, GcHeaps
  PROVE  /\ gc.full => Targets(Frame) = {gc.target}
         /\ ~gc.full => Targets(Frame) = {gc.target, old}
<1>1. /\ Frame.target = gc.target /\ Frame.old = old /\ Frame.full = gc.full /\ gc.full \in BOOLEAN
  BY Zenon, FrameFacts DEF CollectorTypes, GcRecord
<1>2. CASE gc.full
  BY Zenon, <1>1, <1>2 DEF Targets
<1>3. CASE ~gc.full
  BY Zenon, <1>1, <1>3 DEF Targets
<1>. QED
  BY Zenon, <1>2, <1>3

(* The place an object is moved to                                          *)
LEMMA GenerationFits ==
  ASSUME CollectorTypes, GcInv, Ahead, NEW a, Live(heap, a), ~InTarget(a),
         gc.phase = "tenured" => Mature(Frame, a), gc.phase # "idle"
  PROVE  LET g == GetGeneration(a)
             d == <<g, Len(heap[g]) + 1>>
         IN  /\ g \in DOMAIN heap /\ g # a[1] /\ d \in Addr
             /\ Fits(heap, Frame, gc.phase, gc.at, a, d)
<1>. DEFINE g == GetGeneration(a)
            d == <<g, Len(heap[g]) + 1>>
<1>1. /\ GcHeaps /\ Sane(heap) /\ Tenures(heap, Frame) /\ Scans(heap, Frame, gc.phase, gc.at)
  BY Zenon DEF GcInv, GcSafe
<1>2. /\ IsFrame(Frame) /\ Placed(heap, Frame)
      /\ Frame.source = gc.source /\ Frame.target = gc.target /\ Frame.old = old
      /\ (Frame.full <=> gc.full) /\ Frame.mark = high_water_mark
  BY Zenon, <1>1, FrameFacts
<1>3. /\ gc.full => Targets(Frame) = {gc.target}
      /\ ~gc.full => Targets(Frame) = {gc.target, old}
  BY Zenon, <1>1, FrameTargets
<1>4. a \in Addr /\ a[1] \in DOMAIN heap /\ a[2] \in Nat \ {0} /\ a # Constant
  BY DEF Live, Addr, Constant
<1>5. gc.phase = "tenured" => ~gc.full /\ old # NoHeap /\ a[1] = gc.source /\ a[2] <= high_water_mark
  <2>1. SUFFICES ASSUME gc.phase = "tenured"
                 PROVE  ~gc.full /\ old # NoHeap /\ a[1] = gc.source /\ a[2] <= high_water_mark
    BY Zenon
  <2>2. ~gc.full /\ old # NoHeap
    BY Zenon, <1>1, <1>2, <2>1 DEF Scans
  <2>3. a[1] # old
    BY Zenon, <2>1, <2>2 DEF InTarget
  <2>. QED
    BY Zenon, <1>2, <1>4, <2>1, <2>2, <2>3 DEF Mature
<1>6. a[1] \notin Targets(Frame)
  BY Zenon, <1>1, <1>3, <1>5 DEF InTarget, GcHeaps
<1>7. high_water_mark \in Nat
  BY Zenon DEF CollectorTypes
<1>8. g = IF ~gc.full /\ a[1] = gc.source /\ a[2] <= high_water_mark THEN old ELSE gc.target
  BY Zenon, <1>5 DEF GetGeneration
<1>. HIDE DEF g
<1>9. g \in Targets(Frame)
  BY Zenon, <1>3, <1>8
<1>10. g = old => ~gc.full /\ a[1] = gc.source /\ a[2] <= high_water_mark
  BY Zenon, <1>1, <1>8 DEF GcHeaps
<1>11. g = old => old # NoHeap
  BY <1>1, <1>2, <1>4, <1>7, <1>10 DEF Tenures
<1>12. g \in DOMAIN heap /\ g \in Nat \ {0}
  BY Zenon, <1>1, <1>8, <1>11 DEF GcHeaps, NoHeap
<1>13. Len(heap[g]) \in Nat
  BY Zenon, <1>1, <1>12, SeqLen DEF Sane
<1>14. d \in Addr /\ d[1] = g /\ d[2] = Len(heap[g]) + 1
  BY <1>12, <1>13 DEF Addr
<1>. HIDE DEF d
<1>15. ~Frame.full => (d[1] = Frame.old <=> (a[1] = Frame.source /\ a[2] <= Frame.mark))
  BY Zenon, <1>2, <1>8, <1>10, <1>14
<1>16. /\ gc.phase = "tenured" => d[1] = Frame.old /\ gc.at[1] <= Len(heap[Frame.old])
       /\ gc.phase = "scan" => gc.at[1] <= Len(heap[Frame.target])
  BY Zenon, <1>2, <1>5, <1>8, <1>14 DEF Ahead
<1>17. Fits(heap, Frame, gc.phase, gc.at, a, d)
  BY Zenon, <1>6, <1>9, <1>14, <1>15, <1>16 DEF Fits
<1>18. g # a[1]
  BY Zenon, <1>6, <1>9
<1>. QED
  BY Zenon, <1>12, <1>14, <1>17, <1>18 DEF g, d

LEMMA SweepTermLeaves ==
  ASSUME CollectorTypes, GcInv, Ahead, NEW w, Fine(heap, w),
         gc.phase = "tenured" => Mature(Frame, w), gc.phase # "idle"
  PROVE  Leaves(SweepTerm(w)) /\ (SweepTerm(w).panic = "none" \/ gc.full)
<1>. DEFINE left == SweepTerm(w)
<1>1. /\ GcHeaps /\ Sane(heap) /\ Marked(heap, Frame) /\ Scans(heap, Frame, gc.phase, gc.at)
  BY Zenon DEF GcInv, GcSafe
<1>2. /\ Frame.source = gc.source /\ Frame.target = gc.target /\ Frame.old = old
      /\ (Frame.full <=> gc.full) /\ Frame.mark = high_water_mark
  BY Zenon, <1>1, FrameFacts
<1>3. /\ gc.full => Targets(Frame) = {gc.target}
      /\ ~gc.full => Targets(Frame) = {gc.target, old}
  BY Zenon, <1>1, FrameTargets
<1>4. CASE w = Constant
  <2>1. left.heap = heap /\ left.linked = linked /\ left.word = Constant /\ left.panic = "none"
    BY Zenon, <1>4 DEF SweepTerm, Left
  <2>. QED
    BY Zenon, <2>1 DEF Leaves, Fine, Swept, IsOld
<1>5. ASSUME w # Constant PROVE Live(heap, w) /\ IsLive(w) /\ w[1] \in DOMAIN heap /\ w[2] \in 1..Len(heap[w[1]])
  <2>1. Live(heap, w)
    BY Zenon, <1>5 DEF Fine
  <2>2. w[1] \in DOMAIN heap /\ w[2] \in Nat \ {0} /\ w[2] <= Len(heap[w[1]]) /\ Len(heap[w[1]]) \in Nat
    BY Zenon, <1>1, <2>1, SeqLen DEF Live, Addr, Sane
  <2>. QED
    BY <2>1, <2>2 DEF IsLive
<1>6. CASE w # Constant /\ Object(w).kind = "moved"
  <2>0. left = Left(heap, linked, "none", heap[w[1]][w[2]].to)
    BY Zenon, <1>5, <1>6 DEF SweepTerm, Object
  <2>1. /\ left.heap = heap /\ left.linked = linked /\ left.word = heap[w[1]][w[2]].to
        /\ left.panic = "none"
    BY <2>0 DEF Left
  <2>2. /\ w[1] \notin Targets(Frame) /\ Live(heap, left.word) /\ left.word[1] \in Targets(Frame)
        /\ ~Frame.full => (left.word[1] = Frame.old <=> (w[1] = Frame.source /\ w[2] <= Frame.mark))
    BY <1>1, <1>5, <1>6, <2>1 DEF Marked, Object
  <2>3. gc.phase = "tenured" => left.word[1] = Frame.old
    <3>1. gc.phase = "tenured" => ~gc.full
      BY Zenon, <1>1, <1>2 DEF Scans
    <3>. QED
      BY Zenon, <1>2, <1>3, <1>6, <2>2, <3>1 DEF Mature
  <2>. HIDE DEF left
  <2>4. Leaves(left)
    BY Zenon, <2>1, <2>2, <2>3 DEF Leaves, Fine, Swept, IsOld
  <2>. QED
    BY Zenon, <2>1, <2>4 DEF left
<1>7. CASE w # Constant /\ Object(w).kind # "moved" /\ InTarget(w)
  <2>0. left = Left(heap, linked, "none", w)
    BY Zenon, <1>5, <1>7 DEF SweepTerm
  <2>1. left.heap = heap /\ left.linked = linked /\ left.word = w /\ left.panic = "none"
    BY <2>0 DEF Left
  <2>2. w[1] \in Targets(Frame)
    BY Zenon, <1>1, <1>2, <1>3, <1>7 DEF InTarget, Scans
  <2>3. gc.phase = "tenured" => w[1] = Frame.old
    BY Zenon, <1>1, <1>2, <1>7 DEF InTarget, Scans
  <2>. HIDE DEF left
  <2>4. Leaves(left)
    BY Zenon, <2>1, <2>2, <2>3 DEF Leaves, Swept, IsOld
  <2>. QED
    BY Zenon, <2>1, <2>4 DEF left
<1>8. CASE w # Constant /\ Object(w).kind # "moved" /\ ~InTarget(w)
  <2>. DEFINE g == GetGeneration(w)
              d == <<g, Len(heap[g]) + 1>>
  <2>1. left = SweepObject(w, d)
    BY Zenon, <1>5, <1>8 DEF SweepTerm
  <2>2. /\ g \in DOMAIN heap /\ g # w[1] /\ d \in Addr
        /\ Fits(heap, Frame, gc.phase, gc.at, w, d)
    BY Zenon, <1>5, <1>8, GenerationFits
  <2>3. d[1] = g /\ d[2] = Len(heap[g]) + 1
    BY Zenon
  <2>. HIDE DEF left, d, g
  <2>4. Moves(heap, left.heap, w, d) /\ left.word = d /\ Links(left.linked, w, d)
    BY Zenon, <1>1, <1>5, <1>8, <2>1, <2>2, <2>3, SweepObjectMoves DEF Object
  <2>5. Live(left.heap, d)
    BY Zenon, <1>1, <2>4, MovesLive
  <2>6. Leaves(left)
    <3>1. Fine(left.heap, left.word) /\ Swept(Frame, left.word)
          /\ (gc.phase = "tenured" => IsOld(Frame, left.word))
      BY Zenon, <2>2, <2>4, <2>5 DEF Fits, Fine, Swept, IsOld
    <3>2. w \in Addr
      BY Zenon, <1>5, <1>8 DEF Live
    <3>. QED
      BY Zenon, <2>2, <2>4, <3>1, <3>2 DEF Leaves
  <2>7. left.panic = "none" \/ gc.full
    BY Zenon, <2>1 DEF SweepObject, Left, Unlink
  <2>. QED
    BY Zenon, <2>6, <2>7 DEF left
<1>. QED
  BY Zenon, <1>4, <1>6, <1>7, <1>8

-----------------------------------------------------------------------------
(* The process builds an object                                             *)
Adds(H, K, at, o) ==
  /\ at \in Addr
  /\ DOMAIN K = DOMAIN H \cup {at[1]}
  /\ \A h \in DOMAIN K : IsSeq(K[h]) /\ (h # at[1] => K[h] = H[h])
  /\ Len(K[at[1]]) = at[2] /\ K[at[1]][at[2]] = o
  /\ at[1] \in DOMAIN H => /\ Len(H[at[1]]) = at[2] - 1
                           /\ \A i \in 1..Len(H[at[1]]) : K[at[1]][i] = H[at[1]][i]
  /\ at[1] \notin DOMAIN H => at[2] = 1

LEMMA AddsFacts ==
  ASSUME NEW H, NEW K, NEW at, NEW o, Sane(H), Adds(H, K, at, o)
  PROVE  /\ \A x : Live(H, x) => Live(K, x)
         /\ \A x : Fine(H, x) => Fine(K, x)
         /\ Live(K, at)
         /\ \A h, i : IsPlace(K, h, i) => \/ IsPlace(H, h, i) /\ K[h][i] = H[h][i]
                                          \/ h = at[1] /\ i = at[2] /\ K[h][i] = o
<1>1. \A h \in DOMAIN H : Len(H[h]) \in Nat
  BY Zenon, SeqLen DEF Sane
<1>2. at[1] \in Nat /\ at[2] \in Nat \ {0}
  BY Zenon DEF Adds, Addr
<1>3. ASSUME NEW x, Live(H, x) PROVE Live(K, x)
  BY <1>1, <1>2, <1>3 DEF Live, Adds, Addr
<1>4. Live(K, at)
  BY <1>2 DEF Live, Adds
<1>5. ASSUME NEW h, NEW i, IsPlace(K, h, i)
      PROVE  \/ IsPlace(H, h, i) /\ K[h][i] = H[h][i]
             \/ h = at[1] /\ i = at[2] /\ K[h][i] = o
  <2>1. CASE h # at[1]
    BY Zenon, <1>5, <2>1 DEF Adds, IsPlace
  <2>2. CASE h = at[1] /\ at[1] \in DOMAIN H
    BY <1>1, <1>2, <1>5, <2>2 DEF Adds, IsPlace
  <2>3. CASE h = at[1] /\ at[1] \notin DOMAIN H
    BY <1>2, <1>5, <2>3 DEF Adds, IsPlace
  <2>. QED
    BY Zenon, <2>1, <2>2, <2>3
<1>. QED
  BY Zenon, <1>3, <1>4, <1>5 DEF Fine

(* An object a process may build: what it refers to can be followed         *)
Buildable(H, o) ==
  /\ o.kind # "moved"
  /\ o.kind \in {"tuple", "cons"} =>
       o \in Pair /\ \A j \in 1..2 : Fine(H, o.elements[j])

LEMMA AddsSane ==
  ASSUME NEW H, NEW K, NEW at, NEW o, Sane(H), Adds(H, K, at, o), Buildable(H, o)
  PROVE  Sane(K)
<1>1. DOMAIN K \subseteq Nat \ {0} /\ \A h \in DOMAIN K : IsSeq(K[h])
  BY Zenon DEF Sane, Adds, Addr
<1>2. ASSUME NEW h \in DOMAIN K, NEW i \in 1..Len(K[h])
      PROVE  /\ K[h][i].kind \in {"tuple", "cons"} => K[h][i] \in Pair
             /\ K[h][i].kind = "moved" => K[h][i] \in Marker
  <2>1. \/ IsPlace(H, h, i) /\ K[h][i] = H[h][i]
        \/ K[h][i] = o
    BY AddsFacts DEF IsPlace
  <2>. QED
    BY Zenon, <2>1 DEF Sane, IsPlace, Buildable
<1>3. ASSUME NEW h \in DOMAIN K, NEW i \in 1..Len(K[h]), NEW j \in 1..2, IsPair(K, h, i)
      PROVE  Fine(K, Word(K, h, i, j))
  <2>1. \/ IsPlace(H, h, i) /\ K[h][i] = H[h][i]
        \/ K[h][i] = o
    BY AddsFacts DEF IsPlace
  <2>2. Fine(H, Word(K, h, i, j))
    BY Zenon, <1>3, <2>1 DEF Sane, IsPair, IsPlace, Buildable, Word
  <2>. QED
    BY Zenon, <2>2, AddsFacts
<1>. QED
  BY Zenon, <1>1, <1>2, <1>3 DEF Sane

LEMMA AddsQuiet ==
  ASSUME NEW H, NEW K, NEW at, NEW obj, Sane(H), Adds(H, K, at, obj), Buildable(H, obj),
         NEW y, NEW o, NEW mark \in Nat, Quiet(H, y, o, mark), at[1] # o,
         at[1] = y => mark <= Len(H[y]) /\ y \in DOMAIN H
  PROVE  Quiet(K, y, o, mark)
<1>1. ASSUME NEW h \in DOMAIN K, NEW i \in 1..Len(K[h])
      PROVE  K[h][i].kind # "moved"
  <2>1. \/ IsPlace(H, h, i) /\ K[h][i] = H[h][i]
        \/ K[h][i] = obj
    BY AddsFacts DEF IsPlace
  <2>. QED
    BY Zenon, <2>1 DEF Quiet, IsPlace, Buildable
<1>2. ASSUME NEW h, NEW i, IsPair(K, h, i), ~(h = at[1] /\ i = at[2])
      PROVE  IsPair(H, h, i) /\ K[h][i] = H[h][i]
  BY <1>2, AddsFacts DEF IsPair
<1>3. ASSUME NEW i \in Nat, NEW j \in Nat, IsPair(K, o, i), j \in 1..2
      PROVE  Word(K, o, i, j) = Constant \/ Word(K, o, i, j)[1] = o
  <2>1. IsPair(H, o, i) /\ K[o][i] = H[o][i]
    BY Zenon, <1>2, <1>3
  <2>. QED
    BY Zenon, <1>3, <2>1 DEF Quiet, Word
<1>4. ASSUME NEW i \in Nat, NEW j \in Nat, IsPair(K, y, i), i <= mark, j \in 1..2
      PROVE  \/ Word(K, y, i, j) = Constant \/ Word(K, y, i, j)[1] = o
             \/ Word(K, y, i, j)[1] = y /\ Word(K, y, i, j)[2] <= mark
  <2>1. ~(y = at[1] /\ i = at[2])
    BY <1>4 DEF Adds, Addr
  <2>2. IsPair(H, y, i) /\ K[y][i] = H[y][i]
    BY Zenon, <1>2, <1>4, <2>1
  <2>. QED
    BY Zenon, <1>4, <2>2 DEF Quiet, Word
<1>. QED
  BY Zenon, <1>1, <1>3, <1>4 DEF Quiet

LEMMA AllocateAdds ==
  ASSUME CollectorTypes, IdleInv, NEW o, NEW at, Allocate(o, at)
  PROVE  /\ Adds(heap, heap', at, o)
         /\ \/ at[1] = young /\ off_heap' = off_heap /\ fresh' = fresh
            \/ at[1] = fresh /\ off_heap' = off_heap \cup {fresh} /\ fresh' = fresh + 1
<1>1. /\ young \in DOMAIN heap /\ DOMAIN heap \subseteq Nat \ {0}
      /\ \A h \in DOMAIN heap : IsSeq(heap[h]) /\ Len(heap[h]) \in Nat
  BY Zenon, SeqLen DEF IdleInv, IdleHeaps, Sane, NoHeap
<1>2. fresh \in Nat /\ \A h \in DOMAIN heap : h < fresh
  BY Zenon DEF CollectorTypes
<1>3. fresh \in Nat \ {0} /\ fresh \notin DOMAIN heap
  BY <1>1, <1>2
<1>4. CASE /\ at = <<young, Len(heap[young]) + 1>> /\ heap' = [heap EXCEPT ![young] = Append(@, o)]
           /\ off_heap' = off_heap /\ fresh' = fresh
  <2>1. heap' = Extend(heap, young, o)
    BY Zenon, <1>4 DEF Extend
  <2>2. Extends(heap, heap', young, o)
    BY Zenon, <1>1, <2>1, ExtendFacts
  <2>3. at \in Addr /\ at[1] = young /\ at[2] = Len(heap[young]) + 1
    BY <1>1, <1>4 DEF Addr
  <2>4. \A h \in DOMAIN heap : h # young => heap'[h] = heap[h]
    BY Zenon, <1>4
  <2>5. Adds(heap, heap', at, o)
    <3>1. DOMAIN heap' = DOMAIN heap \cup {at[1]}
      BY Zenon, <1>1, <2>2, <2>3 DEF Extends
    <3>2. \A h \in DOMAIN heap' : IsSeq(heap'[h]) /\ (h # at[1] => heap'[h] = heap[h])
      BY Zenon, <2>2, <2>3, <2>4 DEF Extends
    <3>3. Len(heap'[young]) = Len(heap[young]) + 1 /\ heap'[young][Len(heap[young]) + 1] = o
      BY Zenon, <1>1, <2>2 DEF Extends
    <3>4. \A i \in 1..Len(heap[young]) : heap'[young][i] = heap[young][i]
      BY Zenon, <1>1, <2>2 DEF Extends
    <3>5. Len(heap[at[1]]) = at[2] - 1
      BY <1>1, <2>3
    <3>. QED
      BY Zenon, <1>1, <2>3, <3>1, <3>2, <3>3, <3>4, <3>5 DEF Adds
  <2>. QED
    BY Zenon, <1>4, <2>3, <2>5
<1>5. CASE /\ at = <<fresh, 1>> /\ heap' = With(heap, {fresh}, <<o>>)
           /\ off_heap' = off_heap \cup {fresh} /\ fresh' = fresh + 1
  <2>1. at \in Addr /\ at[1] = fresh /\ at[2] = 1
    BY <1>3, <1>5 DEF Addr
  <2>2. IsSeq(<<o>>) /\ Len(<<o>>) = 1 /\ <<o>>[1] = o
    <3>1. <<o>> \in Seq({o})
      OBVIOUS
    <3>. QED
      BY Zenon, <3>1, SeqIntro
  <2>3. /\ DOMAIN heap' = DOMAIN heap \cup {fresh} /\ heap'[fresh] = <<o>>
        /\ \A h \in DOMAIN heap : heap'[h] = heap[h]
    BY Zenon, <1>3, <1>5 DEF With
  <2>4. Adds(heap, heap', at, o)
    BY Zenon, <1>1, <1>3, <2>1, <2>2, <2>3 DEF Adds
  <2>. QED
    BY Zenon, <1>5, <2>1, <2>4
<1>. QED
  BY Zenon, <1>4, <1>5 DEF Allocate

(* A step of the process that builds an object keeps the invariant          *)
LEMMA BuildStep ==
  ASSUME CollectorTypes, IdleInv, Running, UNCHANGED Unmoved, NEW o, NEW at, Allocate(o, at),
         Buildable(heap, o), roots' \in [1..Slots -> Ref], mailbox' \in Seq(Addr),
         \A s \in 1..Slots : Fine(heap, roots'[s]) \/ roots'[s] = at
  PROVE  CollectorInv'
<1>1. /\ young' = young /\ old' = old /\ high_water_mark' = high_water_mark
      /\ gc' = gc /\ panic' = panic /\ gc.phase = "idle" /\ panic = "none"
  BY Zenon DEF Unmoved, Running
<1>2. /\ Adds(heap, heap', at, o)
      /\ \/ at[1] = young /\ off_heap' = off_heap /\ fresh' = fresh
         \/ at[1] = fresh /\ off_heap' = off_heap \cup {fresh} /\ fresh' = fresh + 1
  BY Zenon, AllocateAdds
<1>3. Sane(heap) /\ IdleHeaps /\ Quiet(heap, young, old, high_water_mark)
      /\ high_water_mark \in Nat /\ high_water_mark <= Len(heap[young]) /\ young \in DOMAIN heap
  BY Zenon DEF IdleInv, IdleHeaps, CollectorTypes, NoHeap
<1>4. DOMAIN heap' = DOMAIN heap \cup {at[1]}
  BY Zenon, <1>2 DEF Adds
<1>5. fresh \in Nat /\ DOMAIN heap \subseteq Nat /\ \A h \in DOMAIN heap : h < fresh
  BY Zenon, <1>3 DEF CollectorTypes, Sane
<1>6. fresh \notin DOMAIN heap /\ fresh # 0
  BY <1>3, <1>5
<1>7. fresh' \in Nat /\ \A h \in DOMAIN heap' : h < fresh'
  BY <1>2, <1>3, <1>4, <1>5
<1>8. CollectorTypes'
  <2>1. /\ gc \in GcRecord
        /\ IF gc.phase = "idle" THEN gc = Idle ELSE gc.at \in Addr
    BY Zenon DEF CollectorTypes
  <2>. QED
    BY Zenon, <1>1, <1>3, <1>7, <2>1 DEF CollectorTypes, Idle
<1>9. at[1] # old
  BY Zenon, <1>2, <1>3, <1>6 DEF IdleHeaps, NoHeap
<1>10. IdleHeaps'
  BY Zenon, <1>1, <1>2, <1>3, <1>4, <1>6 DEF IdleHeaps, NoHeap
<1>11. Sane(heap') /\ Quiet(heap', young, old, high_water_mark)
  BY Zenon, <1>2, <1>3, <1>9, AddsSane, AddsQuiet
<1>12. \A s \in 1..Slots : Fine(heap', roots'[s])
  BY <1>2, <1>3, AddsFacts DEF Fine
<1>13. high_water_mark <= Len(heap'[young])
  <2>1. CASE at[1] = young
    BY <1>2, <1>3, <2>1 DEF Adds, Addr
  <2>2. CASE at[1] # young
    BY Zenon, <1>2, <1>3, <2>2 DEF Adds
  <2>. QED
    BY Zenon, <2>1, <2>2
<1>14. IdleInv'
  BY Zenon, <1>1, <1>10, <1>11, <1>12, <1>13 DEF IdleInv
<1>. QED
  BY Zenon, <1>1, <1>8, <1>14 DEF CollectorInv

(* What a process can name can be followed                                  *)
LEMMA KnownFine ==
  ASSUME CollectorTypes, IdleInv, NEW x \in Known
  PROVE  Fine(heap, x) /\ x \in Ref
<1>1. Sane(heap) /\ DOMAIN roots = 1..Slots /\ \A s \in DOMAIN roots : Fine(heap, roots[s])
  BY Zenon DEF CollectorTypes, IdleInv
<1>2. CASE x = Constant
  BY Zenon, <1>2 DEF Fine, Ref
<1>3. CASE x \in Range(roots)
  <2>1. PICK s \in DOMAIN roots : x = roots[s]
    BY Zenon, <1>3 DEF Range
  <2>. QED
    BY Zenon, <1>1, <2>1 DEF CollectorTypes
<1>4. ASSUME NEW s \in DOMAIN roots, x \in Elements(roots[s]) PROVE Fine(heap, x) /\ x \in Ref
  <2>. DEFINE a == roots[s]
  <2>1. a # Constant /\ IsLive(a) /\ x \in Range(Walked(Object(a)))
    BY Zenon, <1>4 DEF Elements
  <2>2. Live(heap, a)
    BY Zenon, <1>1, <2>1 DEF Fine
  <2>. HIDE DEF a
  <2>3. a[1] \in DOMAIN heap /\ a[2] \in 1..Len(heap[a[1]])
    BY <1>1, <2>2, SeqLen DEF Live, Addr, Sane
  <2>4. Object(a).kind \in {"tuple", "cons"}
    <3>1. Range(<<>>) = {}
      BY DEF Range
    <3>. QED
      BY Zenon, <2>1, <3>1 DEF Walked
  <2>5. heap[a[1]][a[2]] \in Pair /\ IsPair(heap, a[1], a[2])
    BY Zenon, <1>1, <2>3, <2>4 DEF Sane, Object, IsPair, IsPlace
  <2>6. PICK j \in 1..2 : x = Word(heap, a[1], a[2], j)
    <3>1. Walked(Object(a)) = heap[a[1]][a[2]].elements
      BY Zenon, <2>4 DEF Walked, Object
    <3>2. heap[a[1]][a[2]].elements \in Ref \X Ref
      BY Zenon, <2>5 DEF Pair
    <3>3. PICK j \in DOMAIN heap[a[1]][a[2]].elements : x = heap[a[1]][a[2]].elements[j]
      BY Zenon, <2>1, <3>1 DEF Range
    <3>. QED
      BY <3>2, <3>3 DEF Word
  <2>7. Fine(heap, x)
    BY Zenon, <1>1, <2>3, <2>5, <2>6 DEF Sane
  <2>. QED
    BY Zenon, <2>7 DEF Fine, Live, Ref
<1>. QED
  BY Zenon, <1>2, <1>3, <1>4 DEF Known

LEMMA PlacesTyped ==
  ASSUME CollectorTypes, IdleInv, NEW at \in Places
  PROVE  at \in Addr
<1>1. young \in Nat \ {0} /\ fresh \in Nat \ {0} /\ Len(heap[young]) \in Nat
  <2>1. young \in DOMAIN heap /\ young \in Nat \ {0} /\ young < fresh /\ fresh \in Nat
    BY Zenon DEF CollectorTypes, IdleInv, IdleHeaps, NoHeap
  <2>. QED
    BY <2>1, SeqLen DEF IdleInv, Sane
<1>. QED
  BY <1>1 DEF Places, Addr

(* A slot is given the object built                                         *)
LEMMA RootIsBuilt ==
  ASSUME CollectorTypes, IdleInv, NEW at \in Addr, NEW s \in DOMAIN roots,
         roots' = [roots EXCEPT ![s] = at]
  PROVE  /\ roots' \in [1..Slots -> Ref]
         /\ \A t \in 1..Slots : Fine(heap, roots'[t]) \/ roots'[t] = at
<1>1. roots \in [1..Slots -> Ref] /\ \A t \in 1..Slots : Fine(heap, roots[t])
  BY Zenon DEF CollectorTypes, IdleInv
<1>2. at \in Ref
  BY Zenon DEF Ref
<1>. QED
  BY Zenon, <1>1, <1>2

LEMMA BuildCompoundStep ==
  ASSUME CollectorTypes, IdleInv, NEW s \in DOMAIN roots, BuildCompound(s)
  PROVE  CollectorInv'
<1>1. PICK k \in Compounds, x \in Known, y \in Known, at \in Places :
        /\ Running
        /\ Allocate(Compound(k, x, y), at)
        /\ roots' = [roots EXCEPT ![s] = at]
        /\ UNCHANGED <<Unmoved, mailbox, binaries>>
  BY Zenon DEF BuildCompound
<1>. DEFINE o == Compound(k, x, y)
<1>2. Buildable(heap, o)
  <2>1. /\ Fine(heap, x) /\ x \in Ref /\ Fine(heap, y) /\ y \in Ref
    BY Zenon, KnownFine
  <2>2. o.kind = k /\ o.elements = <<x, y>> /\ (k \in {"tuple", "cons"} => o \in Pair)
    BY Zenon, <2>1 DEF Compound, Pair
  <2>3. k # "moved"
    BY Zenon DEF Compounds
  <2>. HIDE DEF o
  <2>. QED
    BY <2>1, <2>2, <2>3 DEF Buildable
<1>3. UNCHANGED Unmoved /\ mailbox' \in Seq(Addr)
  BY Zenon, <1>1 DEF CollectorTypes
<1>4. at \in Addr
  BY Zenon, PlacesTyped
<1>5. /\ roots' \in [1..Slots -> Ref]
      /\ \A t \in 1..Slots : Fine(heap, roots'[t]) \/ roots'[t] = at
  BY Zenon, <1>1, <1>4, RootIsBuilt
<1>. HIDE DEF o
<1>6. Allocate(o, at) /\ Running
  BY Zenon, <1>1 DEF o
<1>. QED
  BY Zenon, <1>2, <1>3, <1>5, <1>6, BuildStep

LEMMA BuildProcBinStep ==
  ASSUME CollectorTypes, IdleInv, NEW s \in DOMAIN roots, BuildProcBin(s)
  PROVE  CollectorInv'
<1>1. PICK at \in Places :
        /\ Running
        /\ Allocate(ProcBin(Len(binaries) + 1), at)
        /\ roots' = [roots EXCEPT ![s] = at]
        /\ UNCHANGED <<Unmoved, mailbox>>
  BY Zenon DEF BuildProcBin
<1>. DEFINE o == ProcBin(Len(binaries) + 1)
<1>2. Buildable(heap, o)
  BY Zenon DEF Buildable, ProcBin
<1>3. UNCHANGED Unmoved /\ mailbox' \in Seq(Addr)
  BY Zenon, <1>1 DEF CollectorTypes
<1>4. at \in Addr
  BY Zenon, PlacesTyped
<1>5. /\ roots' \in [1..Slots -> Ref]
      /\ \A t \in 1..Slots : Fine(heap, roots'[t]) \/ roots'[t] = at
  BY Zenon, <1>1, <1>4, RootIsBuilt
<1>. HIDE DEF o
<1>6. Allocate(o, at) /\ Running
  BY Zenon, <1>1 DEF o
<1>. QED
  BY Zenon, <1>2, <1>3, <1>5, <1>6, BuildStep

LEMMA BuildSliceStep ==
  ASSUME CollectorTypes, IdleInv, NEW s \in DOMAIN roots, BuildSlice(s)
  PROVE  CollectorInv'
<1>1. PICK k \in Slices, x \in Known, at \in Places :
        /\ Running
        /\ Allocate(Slice(k, x), at)
        /\ roots' = [roots EXCEPT ![s] = at]
        /\ UNCHANGED <<Unmoved, mailbox, binaries>>
  BY Zenon DEF BuildSlice
<1>. DEFINE o == Slice(k, x)
<1>2. Buildable(heap, o)
  BY Zenon DEF Buildable, Slice, Slices
<1>3. UNCHANGED Unmoved /\ mailbox' \in Seq(Addr)
  BY Zenon, <1>1 DEF CollectorTypes
<1>4. at \in Addr
  BY Zenon, PlacesTyped
<1>5. /\ roots' \in [1..Slots -> Ref]
      /\ \A t \in 1..Slots : Fine(heap, roots'[t]) \/ roots'[t] = at
  BY Zenon, <1>1, <1>4, RootIsBuilt
<1>. HIDE DEF o
<1>6. Allocate(o, at) /\ Running
  BY Zenon, <1>1 DEF o
<1>. QED
  BY Zenon, <1>2, <1>3, <1>5, <1>6, BuildStep

LEMMA SendHeapMessageStep ==
  ASSUME CollectorTypes, IdleInv, SendHeapMessage
  PROVE  CollectorInv'
<1>1. PICK at \in Places :
        /\ Allocate(Compound("tuple", Constant, Constant), at)
        /\ mailbox' = Append(mailbox, at)
  BY Zenon DEF SendHeapMessage
<1>. DEFINE o == Compound("tuple", Constant, Constant)
<1>2. Buildable(heap, o)
  BY DEF Buildable, Compound, Pair, Ref, Fine
<1>3. at \in Addr
  BY Zenon, PlacesTyped
<1>4. Running /\ UNCHANGED Unmoved /\ roots' = roots
  BY Zenon DEF SendHeapMessage
<1>5. mailbox' \in Seq(Addr)
  BY <1>1, <1>3 DEF CollectorTypes
<1>6. /\ roots' \in [1..Slots -> Ref]
      /\ \A t \in 1..Slots : Fine(heap, roots'[t]) \/ roots'[t] = at
  BY Zenon, <1>4 DEF CollectorTypes, IdleInv
<1>. HIDE DEF o
<1>7. Allocate(o, at)
  BY Zenon, <1>1 DEF o
<1>. QED
  BY Zenon, <1>2, <1>4, <1>5, <1>6, <1>7, BuildStep

(* A step of the process that builds nothing                                *)
LEMMA NothingBuilt ==
  ASSUME CollectorTypes, IdleInv, gc.phase = "idle",
         UNCHANGED <<heap, young, old, high_water_mark, off_heap, gc, fresh>>,
         roots' \in [1..Slots -> Ref], mailbox' \in Seq(Addr),
         \A t \in 1..Slots : Fine(heap, roots'[t])
  PROVE  CollectorInv'
<1>1. CollectorTypes'
  <2>1. /\ gc \in GcRecord
        /\ IF gc.phase = "idle" THEN gc = Idle ELSE gc.at \in Addr
    BY Zenon DEF CollectorTypes
  <2>. QED
    BY Zenon, <2>1 DEF CollectorTypes, Idle
<1>2. IdleInv'
  BY Zenon DEF IdleInv, IdleHeaps
<1>. QED
  BY Zenon, <1>1, <1>2 DEF CollectorInv

LEMMA AssignStep ==
  ASSUME CollectorTypes, IdleInv, NEW s \in DOMAIN roots, Assign(s)
  PROVE  CollectorInv'
<1>1. PICK x \in Known : roots' = [roots EXCEPT ![s] = x]
  BY Zenon DEF Assign
<1>2. Fine(heap, x) /\ x \in Ref
  BY Zenon, KnownFine
<1>3. roots \in [1..Slots -> Ref] /\ mailbox \in Seq(Addr) /\ \A t \in 1..Slots : Fine(heap, roots[t])
  BY Zenon DEF CollectorTypes, IdleInv
<1>4. /\ gc.phase = "idle" /\ mailbox' = mailbox
      /\ UNCHANGED <<heap, young, old, high_water_mark, off_heap, gc, fresh>>
  BY Zenon DEF Assign, Running, Unmoved
<1>5. roots' \in [1..Slots -> Ref] /\ \A t \in 1..Slots : Fine(heap, roots'[t])
  BY Zenon, <1>1, <1>2, <1>3
<1>. QED
  BY Zenon, <1>3, <1>4, <1>5, NothingBuilt

LEMMA ReceiveMessageStep ==
  ASSUME CollectorTypes, IdleInv, NEW s \in DOMAIN roots, ReceiveMessage(s)
  PROVE  CollectorInv'
<1>1. roots \in [1..Slots -> Ref] /\ mailbox \in Seq(Addr) /\ \A t \in 1..Slots : Fine(heap, roots[t])
  BY Zenon DEF CollectorTypes, IdleInv
<1>2. /\ gc.phase = "idle" /\ mailbox # <<>> /\ mailbox' = Tail(mailbox)
      /\ UNCHANGED <<heap, young, old, high_water_mark, off_heap, gc, fresh>>
  BY Zenon DEF ReceiveMessage, Running
<1>3. Head(mailbox) \in Addr /\ mailbox' \in Seq(Addr)
  BY <1>1, <1>2
<1>4. roots' = roots \/ (IsLive(Head(mailbox)) /\ roots' = [roots EXCEPT ![s] = Head(mailbox)])
  BY Zenon DEF ReceiveMessage
<1>5. IsLive(Head(mailbox)) => Fine(heap, Head(mailbox))
  BY Zenon, <1>3 DEF IsLive, Fine, Live
<1>6. Head(mailbox) \in Ref
  BY Zenon, <1>3 DEF Ref
<1>7. roots' \in [1..Slots -> Ref] /\ \A t \in 1..Slots : Fine(heap, roots'[t])
  BY Zenon, <1>1, <1>4, <1>5, <1>6
<1>. QED
  BY Zenon, <1>2, <1>3, <1>7, NothingBuilt

-----------------------------------------------------------------------------
(* A collection starts with empty heaps                                     *)
Opens(H, K, new) ==
  /\ DOMAIN K = DOMAIN H \cup new /\ new \cap DOMAIN H = {} /\ new \subseteq Nat \ {0}
  /\ \A h \in DOMAIN H : K[h] = H[h]
  /\ \A h \in new : K[h] = <<>>

LEMMA OpensFacts ==
  ASSUME NEW H, NEW K, NEW new, Sane(H), Opens(H, K, new)
  PROVE  /\ \A x : Live(H, x) => Live(K, x)
         /\ \A x : Fine(H, x) => Fine(K, x)
         /\ \A h, i : IsPlace(K, h, i) => IsPlace(H, h, i) /\ K[h][i] = H[h][i]
         /\ Sane(K)
<1>1. ASSUME NEW x, Live(H, x) PROVE Live(K, x)
  BY Zenon, <1>1 DEF Live, Opens
<1>2. ASSUME NEW h, NEW i, IsPlace(K, h, i) PROVE IsPlace(H, h, i) /\ K[h][i] = H[h][i]
  BY <1>2 DEF IsPlace, Opens
<1>3. \A x : Fine(H, x) => Fine(K, x)
  BY Zenon, <1>1 DEF Fine
<1>4. DOMAIN K \subseteq Nat \ {0} /\ \A h \in DOMAIN K : IsSeq(K[h])
  <2>1. IsSeq(<<>>)
    <3>1. <<>> \in Seq({})
      OBVIOUS
    <3>. QED
      BY Zenon, <3>1, SeqIntro
  <2>. QED
    BY Zenon, <2>1 DEF Sane, Opens
<1>5. ASSUME NEW h \in DOMAIN K, NEW i \in 1..Len(K[h])
      PROVE  /\ K[h][i].kind \in {"tuple", "cons"} => K[h][i] \in Pair
             /\ K[h][i].kind = "moved" => K[h][i] \in Marker
             /\ \A j \in 1..2 : IsPair(K, h, i) => Fine(K, Word(K, h, i, j))
  <2>1. IsPlace(H, h, i) /\ K[h][i] = H[h][i]
    BY Zenon, <1>2 DEF IsPlace
  <2>2. ASSUME NEW j \in 1..2, IsPair(K, h, i) PROVE Fine(H, Word(K, h, i, j))
    BY Zenon, <2>1, <2>2 DEF IsPair, IsPlace, Sane, Word
  <2>. QED
    BY Zenon, <1>3, <2>1, <2>2 DEF Sane, IsPlace
<1>6. Sane(K)
  BY Zenon, <1>4, <1>5 DEF Sane
<1>. QED
  BY Zenon, <1>1, <1>2, <1>3, <1>6

(* What holds of a quiet process when a collection c of it starts           *)
LEMMA OpensSafe ==
  ASSUME NEW H, NEW K, NEW new, NEW c, NEW o, NEW R, IsFrame(c), o \in Nat, Sane(H),
         Opens(H, K, new), Quiet(H, c.source, o, c.mark), \A s \in DOMAIN R : Fine(H, R[s]),
         DOMAIN R \subseteq Nat \ {0},
         \/ c.old = o /\ (o # NoHeap => o \in DOMAIN H) /\ (c.mark > 0 => o # NoHeap) /\ (o # NoHeap => c.top = Len(H[o]))
         \/ c.full
         \/ o = NoHeap /\ c.old \in new /\ c.top = 0
  PROVE  GcSafe(K, c, "roots", <<1, 1>>, R)
<1>1. Sane(K) /\ \A h, i : IsPlace(K, h, i) => IsPlace(H, h, i) /\ K[h][i] = H[h][i]
  BY Zenon, OpensFacts
<1>2. Marked(K, c)
  BY <1>1 DEF Marked, Quiet, IsPlace
<1>3. Tenures(K, c)
  <2>. SUFFICES ASSUME ~c.full PROVE Tenures(K, c)
    BY Zenon DEF Tenures
  <2>1. c.mark > 0 => c.old # NoHeap
    BY Zenon DEF Opens, NoHeap
  <2>2. c.old # NoHeap => c.top <= Len(K[c.old])
    <3>1. CASE c.old = o /\ o # NoHeap /\ o \in DOMAIN H /\ c.top = Len(H[o])
      BY <3>1, SeqLen DEF Opens, Sane
    <3>2. CASE o = NoHeap /\ c.old \in new /\ c.top = 0
      BY <3>2 DEF Opens
    <3>. QED
      BY <3>1, <3>2
  <2>3. ASSUME NEW h, NEW i, IsPair(K, h, i)
        PROVE  IsPair(H, h, i) /\ K[h][i] = H[h][i]
    BY Zenon, <1>1, <2>3 DEF IsPair
  <2>4. ASSUME NEW i \in Nat, NEW j \in Nat, IsPair(K, c.old, i), j \in 1..2
        PROVE  Mature(c, Word(K, c.old, i, j)) /\ (i <= c.top => IsOld(c, Word(K, c.old, i, j)))
    <3>1. IsPair(H, c.old, i) /\ K[c.old][i] = H[c.old][i]
      BY Zenon, <2>3, <2>4
    <3>2. c.old = o
      BY Zenon, <3>1 DEF Opens, IsPair, IsPlace
    <3>3. IsOld(c, Word(K, c.old, i, j))
      BY <2>4, <3>1, <3>2 DEF Quiet, Word, IsOld
    <3>. QED
      BY Zenon, <3>3 DEF IsOld, Mature
  <2>5. ASSUME NEW i \in Nat, NEW j \in Nat, IsPair(K, c.source, i), i <= c.mark, j \in 1..2
        PROVE  Mature(c, Word(K, c.source, i, j))
    <3>. DEFINE w == Word(K, c.source, i, j)
    <3>1. IsPair(H, c.source, i) /\ K[c.source][i] = H[c.source][i]
      BY Zenon, <2>3, <2>5
    <3>2. w = Constant \/ w[1] = o \/ (w[1] = c.source /\ w[2] <= c.mark)
      BY <2>5, <3>1 DEF Quiet, Word
    <3>3. Fine(K, w)
      BY Zenon, <1>1, <2>5 DEF Sane, IsPair, IsPlace
    <3>4. w = Constant \/ w[1] # NoHeap
      BY Zenon, <3>3 DEF Fine, Live, Addr, NoHeap
    <3>. HIDE DEF w
    <3>5. Mature(c, w)
      BY Zenon, <3>2, <3>4 DEF Mature
    <3>. QED
      BY Zenon, <3>5 DEF w
  <2>. QED
    BY Zenon, <2>1, <2>2, <2>4, <2>5 DEF Tenures
<1>4. Scans(K, c, "roots", <<1, 1>>)
  BY Zenon DEF Scans
<1>5. RootsSafe(K, c, "roots", <<1, 1>>, R)
  BY OpensFacts DEF RootsSafe
<1>. QED
  BY Zenon, <1>1, <1>2, <1>3, <1>4, <1>5 DEF GcSafe


-----------------------------------------------------------------------------
(* Without maps, match contexts and large sub-binaries, whose words are not *)
(* followed.  A small sub-binary is in no generation a collection left.     *)
Traceable == Kinds \cap {"map", "sub_binary", "match_context"} = {}

Traced(o) ==
  /\ o.kind \in {"tuple", "cons", "procbin", "heapbin", "heap_sub_binary", "moved"}
  /\ o.kind \in {"procbin", "heapbin"} => o.elements = <<>>

Holds(H, o) == o.elements = <<o.elements[1]>> /\ Live(H, o.elements[1])

TracedIdle(H, gen) ==
  \A h \in DOMAIN H : \A i \in 1..Len(H[h]) :
    Traced(H[h][i]) /\ (H[h][i].kind = "heap_sub_binary" => h # gen /\ Holds(H, H[h][i]))

TracedGc(H, to) ==
  \A h \in DOMAIN H : \A i \in 1..Len(H[h]) :
    Traced(H[h][i]) /\ (H[h][i].kind = "heap_sub_binary" => h \notin to)

LEMMA AddsTraced ==
  ASSUME NEW H, NEW K, NEW at, NEW o, Sane(H), Adds(H, K, at, o), NEW gen, at[1] # gen,
         Traced(o), o.kind = "heap_sub_binary" => Holds(H, o), TracedIdle(H, gen)
  PROVE  TracedIdle(K, gen)
<1>. SUFFICES ASSUME NEW h \in DOMAIN K, NEW i \in 1..Len(K[h])
              PROVE  /\ Traced(K[h][i])
                     /\ K[h][i].kind = "heap_sub_binary" => h # gen /\ Holds(K, K[h][i])
  BY Zenon DEF TracedIdle
<1>1. /\ \/ IsPlace(H, h, i) /\ K[h][i] = H[h][i]
         \/ h = at[1] /\ i = at[2] /\ K[h][i] = o
      /\ \A x : Live(H, x) => Live(K, x)
  BY AddsFacts DEF IsPlace
<1>2. \A p : Holds(H, p) => Holds(K, p)
  BY Zenon, <1>1 DEF Holds
<1>. QED
  BY Zenon, <1>1, <1>2 DEF TracedIdle, IsPlace

LEMMA OpensTraced ==
  ASSUME NEW H, NEW K, NEW new, Sane(H), Opens(H, K, new), NEW gen, NEW to,
         \A h \in DOMAIN H : h \in to => h = gen, TracedIdle(H, gen)
  PROVE  TracedGc(K, to)
<1>. SUFFICES ASSUME NEW h \in DOMAIN K, NEW i \in 1..Len(K[h])
              PROVE  /\ Traced(K[h][i])
                     /\ K[h][i].kind = "heap_sub_binary" => h \notin to
  BY Zenon DEF TracedGc
<1>1. IsPlace(H, h, i) /\ K[h][i] = H[h][i]
  BY OpensFacts DEF IsPlace
<1>. QED
  BY Zenon, <1>1 DEF TracedIdle, IsPlace

LEMMA MovesTraced ==
  ASSUME NEW H, NEW K, NEW a, NEW d, Sane(H), Moves(H, K, a, d), NEW to, TracedGc(H, to)
  PROVE  TracedGc(K, to)
<1>. SUFFICES ASSUME NEW h \in DOMAIN K, NEW i \in 1..Len(K[h])
              PROVE  /\ Traced(K[h][i])
                     /\ K[h][i].kind = "heap_sub_binary" => h \notin to
  BY Zenon DEF TracedGc
<1>1. \/ IsPlace(H, h, i) /\ K[h][i] = H[h][i]
      \/ K[h][i] = Moved(d)
      \/ K[h][i] = H[a[1]][a[2]] /\ IsPlace(H, a[1], a[2]) /\ K[h][i].kind # "heap_sub_binary"
      \/ K[h][i].kind = "heapbin" /\ K[h][i].elements = <<>>
  BY MovesPlaces DEF IsPlace
<1>2. Moved(d).kind = "moved"
  BY Zenon DEF Moved
<1>. QED
  BY <1>1, <1>2 DEF TracedGc, Traced, IsPlace

LEMMA WritesTraced ==
  ASSUME NEW K, NEW L, NEW g, NEW k, NEW j, NEW w, Writes(K, L, g, k, j, w), NEW to,
         TracedGc(K, to)
  PROVE  TracedGc(L, to)
<1>. SUFFICES ASSUME NEW h \in DOMAIN L, NEW i \in 1..Len(L[h])
              PROVE  /\ Traced(L[h][i])
                     /\ L[h][i].kind = "heap_sub_binary" => h \notin to
  BY Zenon DEF TracedGc
<1>1. CASE h = g /\ i = k
  <2>1. L[h][i].kind \in {"tuple", "cons"}
    BY Zenon, <1>1 DEF Writes, Pair
  <2>. QED
    BY Zenon, <2>1 DEF Traced
<1>2. CASE ~(h = g /\ i = k)
  <2>1. h \in DOMAIN K /\ i \in 1..Len(K[h]) /\ L[h][i] = K[h][i]
    BY Zenon, <1>2 DEF Writes
  <2>. QED
    BY Zenon, <2>1 DEF TracedGc
<1>. QED
  BY Zenon, <1>1, <1>2

(* What a process builds, whichever way it does                             *)
Builds(o, at) ==
  /\ Running /\ Allocate(o, at) /\ UNCHANGED Unmoved
  /\ IF o.kind = "procbin"
       THEN binaries' = Append(binaries, Counted(1, at[1] = young)) /\ o.bin = Len(binaries) + 1
       ELSE binaries' = binaries
  /\ Traceable => Traced(o) /\ (o.kind = "heap_sub_binary" => Holds(heap, o))

LEMMA BuiltFacts ==
  ASSUME CollectorTypes, IdleInv,
         \/ \E s \in DOMAIN roots : BuildCompound(s) \/ BuildProcBin(s) \/ BuildSlice(s)
         \/ SendHeapMessage
  PROVE  \E o, at : Builds(o, at)
<1>1. ASSUME NEW s \in DOMAIN roots, BuildCompound(s) PROVE \E o, at : Builds(o, at)
  <2>1. PICK k \in Compounds, x \in Known, y \in Known, at \in Places :
          /\ Running
          /\ Allocate(Compound(k, x, y), at)
          /\ roots' = [roots EXCEPT ![s] = at]
          /\ UNCHANGED <<Unmoved, mailbox, binaries>>
    BY Zenon, <1>1 DEF BuildCompound
  <2>2. Compound(k, x, y).kind = k /\ k \in {"tuple", "cons", "map"} /\ (Traceable => k # "map")
    BY Zenon DEF Compound, Compounds, Traceable
  <2>3. Builds(Compound(k, x, y), at)
    BY Zenon, <2>1, <2>2 DEF Builds, Traced
  <2>. QED
    BY Zenon, <2>3
<1>2. ASSUME NEW s \in DOMAIN roots, BuildProcBin(s) PROVE \E o, at : Builds(o, at)
  <2>1. PICK at \in Places :
          /\ Running
          /\ Allocate(ProcBin(Len(binaries) + 1), at)
          /\ binaries' = Append(binaries, Counted(1, at[1] = young))
          /\ UNCHANGED <<Unmoved, mailbox>>
    BY Zenon, <1>2 DEF BuildProcBin
  <2>. DEFINE o == ProcBin(Len(binaries) + 1)
  <2>2. o.kind = "procbin" /\ o.elements = <<>> /\ o.bin = Len(binaries) + 1
    BY Zenon DEF ProcBin
  <2>. HIDE DEF o
  <2>3. Builds(o, at)
    <3>1. Allocate(o, at)
      BY Zenon, <2>1 DEF o
    <3>. QED
      BY Zenon, <2>1, <2>2, <3>1 DEF Builds, Traced
  <2>. QED
    BY Zenon, <2>3
<1>3. ASSUME NEW s \in DOMAIN roots, BuildSlice(s) PROVE \E o, at : Builds(o, at)
  <2>1. PICK k \in Slices, x \in Known, at \in Places :
          /\ Running
          /\ IsBinary(x)
          /\ Allocate(Slice(k, x), at)
          /\ roots' = [roots EXCEPT ![s] = at]
          /\ UNCHANGED <<Unmoved, mailbox, binaries>>
    BY Zenon, <1>3 DEF BuildSlice
  <2>. DEFINE o == Slice(k, x)
  <2>2. o.kind = k /\ o.elements = <<x>> /\ k # "procbin" /\ (Traceable => k = "heap_sub_binary")
    BY Zenon DEF Slice, Slices, Traceable
  <2>3. Live(heap, x)
    BY Zenon, <2>1, KnownFine DEF IsBinary, Fine
  <2>. HIDE DEF o
  <2>4. Holds(heap, o)
    BY <2>2, <2>3 DEF Holds
  <2>5. Builds(o, at)
    <3>1. Allocate(o, at)
      BY Zenon, <2>1 DEF o
    <3>. QED
      BY Zenon, <2>1, <2>2, <2>4, <3>1 DEF Builds, Traced
  <2>. QED
    BY Zenon, <2>5
<1>4. CASE SendHeapMessage
  <2>1. PICK at \in Places : Allocate(Compound("tuple", Constant, Constant), at)
    BY Zenon, <1>4 DEF SendHeapMessage
  <2>2. Running /\ UNCHANGED Unmoved /\ binaries' = binaries
    BY Zenon, <1>4 DEF SendHeapMessage
  <2>3. Compound("tuple", Constant, Constant).kind = "tuple"
    BY Zenon DEF Compound
  <2>4. Builds(Compound("tuple", Constant, Constant), at)
    BY Zenon, <2>1, <2>2, <2>3 DEF Builds, Traced
  <2>. QED
    BY Zenon, <2>4
<1>. QED
  BY Zenon, <1>1, <1>2, <1>3, <1>4

-----------------------------------------------------------------------------
(* Reference counts.  The ProcBins of the heaps, and the ones linked        *)
IsProcBin(H, a) == Live(H, a) /\ H[a[1]][a[2]].kind = "procbin"
AllLinks(L) == UNION {L[h] : h \in DOMAIN L}

Keeps(H, K) ==
  \A x : IsProcBin(H, x) => IsProcBin(K, x) /\ K[x[1]][x[2]] = H[x[1]][x[2]]

LEMMA ProcBinPlace ==
  ASSUME NEW H, Sane(H), NEW x, IsProcBin(H, x)
  PROVE  Live(H, x) /\ IsPlace(H, x[1], x[2]) /\ H[x[1]][x[2]].kind = "procbin"
<1>1. Live(H, x) /\ H[x[1]][x[2]].kind = "procbin"
  BY Zenon DEF IsProcBin
<1>2. x[1] \in DOMAIN H /\ x[2] \in Nat \ {0} /\ x[2] <= Len(H[x[1]])
  BY Zenon, <1>1 DEF Live, Addr
<1>3. Len(H[x[1]]) \in Nat
  BY Zenon, <1>2, SeqLen DEF Sane
<1>. QED
  BY <1>1, <1>2, <1>3 DEF IsPlace

LEMMA AddsKeeps ==
  ASSUME NEW H, NEW K, NEW at, NEW o, Sane(H), Adds(H, K, at, o)
  PROVE  Keeps(H, K)
<1>. SUFFICES ASSUME NEW x, IsProcBin(H, x)
              PROVE  IsProcBin(K, x) /\ K[x[1]][x[2]] = H[x[1]][x[2]]
  BY Zenon DEF Keeps
<1>1. Live(H, x) /\ IsPlace(H, x[1], x[2]) /\ H[x[1]][x[2]].kind = "procbin"
  BY Zenon, ProcBinPlace
<1>2. Live(K, x)
  BY Zenon, <1>1, AddsFacts
<1>3. K[x[1]][x[2]] = H[x[1]][x[2]]
  BY <1>1 DEF Adds, IsPlace
<1>. QED
  BY Zenon, <1>1, <1>2, <1>3 DEF IsProcBin

LEMMA OpensKeeps ==
  ASSUME NEW H, NEW K, NEW new, Sane(H), Opens(H, K, new)
  PROVE  Keeps(H, K)
<1>. SUFFICES ASSUME NEW x, IsProcBin(H, x)
              PROVE  IsProcBin(K, x) /\ K[x[1]][x[2]] = H[x[1]][x[2]]
  BY Zenon DEF Keeps
<1>1. Live(H, x) /\ IsPlace(H, x[1], x[2]) /\ H[x[1]][x[2]].kind = "procbin"
  BY Zenon, ProcBinPlace
<1>2. Live(K, x)
  BY Zenon, <1>1, OpensFacts
<1>3. K[x[1]][x[2]] = H[x[1]][x[2]]
  BY Zenon, <1>1 DEF Opens, IsPlace
<1>. QED
  BY Zenon, <1>1, <1>2, <1>3 DEF IsProcBin

LEMMA MovesKeeps ==
  ASSUME NEW H, NEW K, NEW a, NEW d, Sane(H), Moves(H, K, a, d)
  PROVE  Keeps(H, K)
<1>. SUFFICES ASSUME NEW x, IsProcBin(H, x)
              PROVE  IsProcBin(K, x) /\ K[x[1]][x[2]] = H[x[1]][x[2]]
  BY Zenon DEF Keeps
<1>1. Live(H, x) /\ IsPlace(H, x[1], x[2]) /\ H[x[1]][x[2]].kind = "procbin"
  BY Zenon, ProcBinPlace
<1>2. Live(K, x)
  BY Zenon, <1>1, MovesLive
<1>3. K[x[1]][x[2]] = H[x[1]][x[2]]
  BY Zenon, <1>1 DEF Moves, IsPlace
<1>. QED
  BY Zenon, <1>1, <1>2, <1>3 DEF IsProcBin

LEMMA WritesKeeps ==
  ASSUME NEW K, NEW L, NEW g, NEW k, NEW j, NEW w, Sane(K), Writes(K, L, g, k, j, w)
  PROVE  Keeps(K, L)
<1>. SUFFICES ASSUME NEW x, IsProcBin(K, x)
              PROVE  IsProcBin(L, x) /\ L[x[1]][x[2]] = K[x[1]][x[2]]
  BY Zenon DEF Keeps
<1>1. Live(K, x) /\ IsPlace(K, x[1], x[2]) /\ K[x[1]][x[2]].kind = "procbin"
  BY Zenon, ProcBinPlace
<1>2. Live(L, x)
  BY Zenon, <1>1, WritesLive
<1>3. L[x[1]][x[2]] = K[x[1]][x[2]]
  <2>1. K[g][k].kind # "procbin"
    BY Zenon DEF Writes, IsPair
  <2>. QED
    BY Zenon, <1>1, <2>1 DEF Writes, IsPlace
<1>. QED
  BY Zenon, <1>1, <1>2, <1>3 DEF IsProcBin

(* A link is moved with its ProcBin                                         *)
Relinks(L, M, v, a, d) ==
  /\ DOMAIN M = DOMAIN L /\ v \in DOMAIN L /\ d \in M[v]
  /\ \A h \in DOMAIN L : M[h] \subseteq L[h] \cup (IF h = v THEN {d} ELSE {})
  /\ \A h \in DOMAIN L : L[h] \ {a} \subseteq M[h]

LEMMA RelinksAll ==
  ASSUME NEW L, NEW M, NEW v, NEW a, NEW d, Relinks(L, M, v, a, d)
  PROVE  /\ AllLinks(M) \subseteq AllLinks(L) \cup {d} /\ d \in AllLinks(M)
         /\ AllLinks(L) \ {a} \subseteq AllLinks(M)
<1>1. ASSUME NEW x \in AllLinks(M) PROVE x \in AllLinks(L) \cup {d}
  BY Zenon DEF AllLinks, Relinks
<1>2. d \in AllLinks(M)
  BY Zenon DEF AllLinks, Relinks
<1>3. ASSUME NEW x \in AllLinks(L), x # a PROVE x \in AllLinks(M)
  BY Zenon, <1>3 DEF AllLinks, Relinks
<1>. QED
  BY Zenon, <1>1, <1>2, <1>3

LEMMA RelinkedRelinks ==
  ASSUME NEW a, NEW d, VirtualTarget \in DOMAIN linked
  PROVE  Relinks(linked, Relinked(a, d), VirtualTarget, a, d)
  BY Zenon DEF Relinks, Relinked

-----------------------------------------------------------------------------
(* A collection starts                                                      *)
Starts(new) ==
  /\ Opens(heap, heap', new) /\ linked' = With(linked, new, {})
  /\ gc'.phase = "roots" /\ gc'.target \in new /\ (old' = old \/ old' \in new)
  /\ \A h \in DOMAIN heap : h \in Targets(Frame') => h = old
  /\ UNCHANGED <<off_heap, binaries>>

LEMMA StartFullStep ==
  ASSUME CollectorTypes, IdleInv, StartFull
  PROVE  CollectorInv' /\ \E new : Starts(new)
<1>1. /\ IdleHeaps /\ Sane(heap) /\ Quiet(heap, young, old, high_water_mark)
      /\ \A s \in DOMAIN roots : Fine(heap, roots[s])
  BY Zenon DEF IdleInv
<1>2. /\ heap' = With(heap, {fresh}, <<>>) /\ fresh' = fresh + 1
      /\ young' = young /\ old' = old /\ high_water_mark' = high_water_mark /\ roots' = roots
      /\ off_heap' = off_heap /\ mailbox' = mailbox /\ panic' = panic /\ panic = "none"
  BY Zenon DEF StartFull, Unbuilt, Running
<1>3. gc' = [phase |-> "roots", full |-> TRUE, source |-> young, target |-> fresh,
             old_top |-> 0, at |-> <<1, 1>>]
  BY Zenon DEF StartFull, Idle
<1>4. /\ roots \in [1..Slots -> Ref] /\ mailbox \in Seq(Addr) /\ high_water_mark \in Nat
      /\ fresh \in Nat /\ \A h \in DOMAIN heap : h < fresh
  BY Zenon DEF CollectorTypes
<1>5. /\ young \in Nat \ {0} /\ young \in DOMAIN heap /\ old \in Nat /\ DOMAIN heap \subseteq Nat \ {0}
  BY Zenon, <1>1 DEF IdleHeaps, NoHeap, Sane
<1>6. fresh \notin DOMAIN heap /\ fresh \in Nat \ {0}
  BY <1>4, <1>5
<1>7. Opens(heap, heap', {fresh})
  BY Zenon, <1>2, <1>6 DEF With, Opens
<1>8. CollectorTypes'
  <2>1. gc' \in GcRecord /\ gc'.phase = "roots" /\ gc'.at \in Addr
    BY <1>3, <1>4, <1>5 DEF Addr, GcRecord
  <2>2. fresh' \in Nat /\ \A h \in DOMAIN heap' : h < fresh'
    BY <1>2, <1>4, <1>5, <1>7 DEF Opens
  <2>. QED
    BY Zenon, <1>2, <1>4, <2>1, <2>2 DEF CollectorTypes
<1>9. GcHeaps'
  <2>1. gc'.source = young /\ gc'.target = fresh /\ (gc'.full <=> TRUE)
    BY Zenon, <1>3
  <2>. QED
    BY Zenon, <1>1, <1>2, <1>5, <1>6, <1>7, <2>1 DEF GcHeaps, IdleHeaps, Opens, NoHeap
<1>10. (/\ IsFrame(Frame) /\ Placed(heap, Frame)
        /\ Frame.source = gc.source /\ Frame.target = gc.target /\ Frame.old = old
        /\ Frame.full = gc.full /\ Frame.mark = high_water_mark /\ Frame.top = gc.old_top)'
  BY <1>8, <1>9, FrameFacts, PTL
<1>11. gc'.phase = "roots" /\ gc'.at = <<1, 1>> /\ gc'.source = young /\ (gc'.full <=> TRUE)
  BY Zenon, <1>3
<1>12. Quiet(heap, Frame'.source, old, Frame'.mark) /\ Frame'.full
  BY Zenon, <1>1, <1>2, <1>10, <1>11
<1>13. DOMAIN roots \subseteq Nat \ {0}
  BY <1>4, CollectorAssumption
<1>14. GcSafe(heap', Frame', "roots", <<1, 1>>, roots)
  BY Zenon, <1>1, <1>5, <1>7, <1>10, <1>12, <1>13, OpensSafe
<1>15. GcInv'
  BY Zenon, <1>2, <1>9, <1>11, <1>14 DEF GcInv
<1>16. Starts({fresh})
  <2>1. gc'.target = fresh /\ binaries' = binaries /\ linked' = With(linked, {fresh}, {})
    BY Zenon, <1>3 DEF StartFull, Unbuilt
  <2>2. \A h \in DOMAIN heap : h \in Targets(Frame') => h = old
    BY Zenon, <1>6, <1>10, <1>12, <2>1 DEF Targets
  <2>. QED
    BY Zenon, <1>2, <1>7, <1>11, <2>1, <2>2 DEF Starts
<1>. QED
  BY Zenon, <1>8, <1>11, <1>15, <1>16 DEF CollectorInv

LEMMA StartMinorStep ==
  ASSUME CollectorTypes, IdleInv, StartMinor
  PROVE  CollectorInv' /\ \E new : Starts(new)
<1>. DEFINE new_old == IF old = NoHeap /\ high_water_mark > 0 THEN {fresh + 1} ELSE {}
            new == {fresh} \cup new_old
            top == IF old = NoHeap THEN 0 ELSE Len(heap[old])
<1>1. /\ IdleHeaps /\ Sane(heap) /\ Quiet(heap, young, old, high_water_mark)
      /\ \A s \in DOMAIN roots : Fine(heap, roots[s])
  BY DEF IdleInv
<1>2. /\ heap' = With(heap, new, <<>>)
      /\ fresh' = (IF new_old = {} THEN fresh + 1 ELSE fresh + 2)
      /\ young' = fresh /\ old' = (IF new_old = {} THEN old ELSE fresh + 1)
      /\ high_water_mark' = high_water_mark /\ roots' = roots
      /\ off_heap' = off_heap /\ mailbox' = mailbox /\ panic' = panic /\ panic = "none"
  BY Zenon DEF StartMinor, Unbuilt, Running
<1>3. gc' = [phase |-> "roots", full |-> FALSE, source |-> young, target |-> fresh,
             old_top |-> top, at |-> <<1, 1>>]
  BY Zenon DEF StartMinor, Idle
<1>4. /\ roots \in [1..Slots -> Ref] /\ mailbox \in Seq(Addr) /\ high_water_mark \in Nat
      /\ fresh \in Nat /\ \A h \in DOMAIN heap : h < fresh
  BY DEF CollectorTypes
<1>5. /\ young \in Nat \ {0} /\ young \in DOMAIN heap /\ old \in Nat /\ DOMAIN heap \subseteq Nat \ {0}
      /\ old # NoHeap => old \in DOMAIN heap
  BY Zenon, <1>1 DEF IdleHeaps, NoHeap, Sane
<1>6. /\ fresh \notin DOMAIN heap /\ fresh \in Nat \ {0}
      /\ fresh + 1 \notin DOMAIN heap /\ fresh + 1 \in Nat \ {0}
  BY <1>4, <1>5
<1>7. top \in Nat /\ (old # NoHeap => top = Len(heap[old]))
  BY Zenon, <1>1, <1>5, SeqLen DEF Sane
<1>8. Opens(heap, heap', new)
  BY Zenon, <1>2, <1>6 DEF With, Opens
<1>9. \/ /\ new_old = {} /\ new = {fresh} /\ old' = old /\ (high_water_mark > 0 => old # NoHeap)
         /\ fresh' = fresh + 1
      \/ old = NoHeap /\ new = {fresh, fresh + 1} /\ old' = fresh + 1 /\ fresh' = fresh + 2
  BY Zenon, <1>2
<1>. HIDE DEF new, new_old, top
<1>10. fresh' \in Nat /\ fresh < fresh' /\ \A h \in new : h < fresh'
  BY <1>4, <1>9
<1>11. CollectorTypes'
  <2>1. gc' \in GcRecord /\ gc'.phase = "roots" /\ gc'.at \in Addr
    BY <1>3, <1>4, <1>5, <1>7 DEF Addr, GcRecord
  <2>2. \A h \in DOMAIN heap' : h < fresh'
    <3>1. DOMAIN heap' = DOMAIN heap \cup new
      BY Zenon, <1>8 DEF Opens
    <3>2. \A h \in DOMAIN heap : h < fresh'
      BY <1>4, <1>5, <1>10
    <3>. QED
      BY Zenon, <1>10, <3>1, <3>2
  <2>. QED
    BY Zenon, <1>2, <1>4, <1>10, <2>1, <2>2 DEF CollectorTypes
<1>12. /\ gc'.source = young /\ gc'.target = fresh /\ (gc'.full <=> FALSE)
       /\ gc'.phase = "roots" /\ gc'.at = <<1, 1>> /\ gc'.old_top = top
  BY Zenon, <1>3
<1>13. GcHeaps'
  <2>1. DOMAIN heap = ({young, old} \ {NoHeap}) \cup off_heap
    BY Zenon, <1>1 DEF IdleHeaps
  <2>2. DOMAIN heap' = DOMAIN heap \cup new
    BY <1>8 DEF Opens
  <2>3. off_heap \subseteq DOMAIN heap /\ old # young /\ young \notin off_heap /\ old \notin off_heap
    BY Zenon, <1>1 DEF IdleHeaps
  <2>4. /\ old' \in Nat /\ young # fresh /\ old' # young /\ old' # fresh
        /\ {young, fresh, old'} \cap off_heap = {}
    BY <1>4, <1>5, <1>6, <1>9, <2>3 DEF NoHeap
  <2>5. DOMAIN heap' = ({young, fresh, old'} \ {NoHeap}) \cup off_heap
    <3>1. CASE new = {fresh} /\ old' = old
      BY Zenon, <1>6, <2>1, <2>2, <3>1 DEF NoHeap
    <3>2. CASE old = NoHeap /\ new = {fresh, fresh + 1} /\ old' = fresh + 1
      BY Zenon, <1>6, <2>1, <2>2, <3>2 DEF NoHeap
    <3>. QED
      BY Zenon, <1>9, <3>1, <3>2
  <2>. QED
    BY Zenon, <1>2, <1>5, <1>6, <1>12, <2>4, <2>5 DEF GcHeaps
<1>14. /\ IsFrame(Frame') /\ Frame'.source = young /\ Frame'.mark = high_water_mark
       /\ Frame'.old = old' /\ Frame'.top = top /\ Frame'.target = gc'.target
  <2>1. (/\ IsFrame(Frame) /\ Placed(heap, Frame)
         /\ Frame.source = gc.source /\ Frame.target = gc.target /\ Frame.old = old
         /\ Frame.full = gc.full /\ Frame.mark = high_water_mark /\ Frame.top = gc.old_top)'
    BY <1>11, <1>13, FrameFacts, PTL
  <2>. QED
    BY Zenon, <1>2, <1>12, <2>1
<1>15. DOMAIN roots \subseteq Nat \ {0}
  BY <1>4, CollectorAssumption
<1>16. \/ /\ Frame'.old = old /\ (old # NoHeap => old \in DOMAIN heap)
          /\ (Frame'.mark > 0 => old # NoHeap) /\ (old # NoHeap => Frame'.top = Len(heap[old]))
       \/ old = NoHeap /\ Frame'.old \in new /\ Frame'.top = 0
  BY Zenon, <1>5, <1>7, <1>9, <1>14 DEF top
<1>17. GcSafe(heap', Frame', "roots", <<1, 1>>, roots)
  BY Zenon, <1>1, <1>5, <1>8, <1>14, <1>15, <1>16, OpensSafe
<1>18. GcInv'
  BY Zenon, <1>2, <1>12, <1>13, <1>17 DEF GcInv
<1>19. Starts(new)
  <2>1. binaries' = binaries /\ linked' = With(linked, new, {})
    BY Zenon DEF StartMinor, Unbuilt, new, new_old
  <2>2. fresh \in new /\ (old' = old \/ old' \in new)
    BY Zenon, <1>9
  <2>3. \A h \in DOMAIN heap : h \in Targets(Frame') => h = old
    <3>1. Frame'.target = fresh /\ Frame'.old = old'
      BY Zenon, <1>12, <1>14
    <3>2. old' = old \/ old' \notin DOMAIN heap
      BY Zenon, <1>6, <1>9
    <3>. QED
      BY Zenon, <1>6, <3>1, <3>2 DEF Targets
  <2>. QED
    BY Zenon, <1>2, <1>8, <1>12, <2>1, <2>2, <2>3 DEF Starts
<1>. QED
  BY Zenon, <1>11, <1>12, <1>18, <1>19 DEF CollectorInv

-----------------------------------------------------------------------------
(* The steps of a collection                                                *)
Advanced(g, p, x) ==
  [phase |-> p, full |-> g.full, source |-> g.source, target |-> g.target,
   old_top |-> g.old_top, at |-> x]

LEMMA AdvancedPhase ==
  ASSUME NEW g \in GcRecord, NEW p \in {"roots", "scan", "tenured"}, NEW x \in Nat \X Nat
  PROVE  [g EXCEPT !.phase = p, !.at = x] = Advanced(g, p, x)
<1>1. Advanced(g, p, x) \in GcRecord /\ [g EXCEPT !.phase = p, !.at = x] \in GcRecord
  BY Zenon DEF Advanced, GcRecord
<1>2. PICK u \in GcRecord : u = [g EXCEPT !.phase = p, !.at = x]
  BY Zenon, <1>1
<1>3. PICK v \in GcRecord : v = Advanced(g, p, x)
  BY Zenon, <1>1
<1>4. /\ u.phase = v.phase /\ u.full = v.full /\ u.source = v.source /\ u.target = v.target
      /\ u.old_top = v.old_top /\ u.at = v.at
  BY Zenon, <1>2, <1>3 DEF Advanced, GcRecord
<1>5. u = v
  BY <1>4 DEF GcRecord
<1>. QED
  BY Zenon, <1>2, <1>3, <1>5

Continues(p, x) ==
  /\ gc' = Advanced(gc, p, x) /\ UNCHANGED <<Unbuilt, Kept>> /\ DOMAIN heap' = DOMAIN heap
  /\ roots' \in [1..Slots -> Ref] /\ (panic' = "none" \/ gc.full)

LEMMA GcContinues ==
  ASSUME CollectorTypes, GcHeaps, NEW p \in {"roots", "scan", "tenured"}, NEW x \in Addr,
         Continues(p, x)
  PROVE  CollectorTypes' /\ GcHeaps' /\ Frame' = Frame /\ gc'.phase = p /\ gc'.at = x
<1>1. gc \in GcRecord
  BY Zenon DEF CollectorTypes
<1>2. /\ gc'.phase = p /\ gc'.at = x /\ gc'.full = gc.full /\ gc'.source = gc.source
      /\ gc'.target = gc.target /\ gc'.old_top = gc.old_top
  BY Zenon DEF Continues, Advanced
<1>3. gc' \in GcRecord
  BY Zenon, <1>1 DEF Continues, Advanced, Addr, GcRecord
<1>4. /\ young' = young /\ old' = old /\ high_water_mark' = high_water_mark /\ fresh' = fresh
      /\ off_heap' = off_heap /\ mailbox' = mailbox
  BY Zenon DEF Continues, Unbuilt, Kept
<1>5. CollectorTypes'
  BY Zenon, <1>2, <1>3, <1>4 DEF CollectorTypes, Continues
<1>6. Frame' = Frame
  BY Zenon, <1>2, <1>4 DEF Frame
<1>7. GcHeaps'
  BY Zenon, <1>2, <1>4 DEF GcHeaps, Continues
<1>. QED
  BY Zenon, <1>2, <1>5, <1>6, <1>7

(* What every step of a collection leaves alone                             *)
Continued == Frame' = Frame /\ gc'.phase # "idle" /\ UNCHANGED <<old, off_heap, binaries>>

LEMMA LeavesSafe ==
  ASSUME CollectorTypes, GcInv, NEW left, Leaves(left)
  PROVE  /\ GcSafe(left.heap, Frame, gc.phase, gc.at, roots)
         /\ DOMAIN left.heap = DOMAIN heap
         /\ \A g \in Targets(Frame) \cap DOMAIN heap : \A i \in 1..Len(heap[g]) :
              left.heap[g][i] = heap[g][i] /\ i \in 1..Len(left.heap[g])
<1>1. GcHeaps /\ GcSafe(heap, Frame, gc.phase, gc.at, roots) /\ Sane(heap)
  BY Zenon DEF GcInv, GcSafe
<1>2. IsFrame(Frame) /\ Placed(heap, Frame) /\ gc.at \in Nat \X Nat
  BY Zenon, <1>1, FrameFacts DEF CollectorTypes, GcRecord
<1>3. CASE left.heap = heap
  BY Zenon, <1>1, <1>3
<1>4. ASSUME NEW a \in Addr, NEW d \in Addr, Moves(heap, left.heap, a, d),
             Fits(heap, Frame, gc.phase, gc.at, a, d)
      PROVE  /\ GcSafe(left.heap, Frame, gc.phase, gc.at, roots)
             /\ DOMAIN left.heap = DOMAIN heap
             /\ \A g \in Targets(Frame) \cap DOMAIN heap : \A i \in 1..Len(heap[g]) :
                  left.heap[g][i] = heap[g][i] /\ i \in 1..Len(left.heap[g])
  <2>1. GcSafe(left.heap, Frame, gc.phase, gc.at, roots)
    BY Zenon, <1>1, <1>2, <1>4, MovesSafe
  <2>2. DOMAIN left.heap = DOMAIN heap
    BY Zenon, <1>4 DEF Moves
  <2>3. ASSUME NEW g \in Targets(Frame) \cap DOMAIN heap, NEW i \in 1..Len(heap[g])
        PROVE  left.heap[g][i] = heap[g][i] /\ i \in 1..Len(left.heap[g])
    <3>1. g # a[1]
      BY Zenon, <1>4 DEF Fits
    <3>2. Len(heap[g]) \in Nat
      BY Zenon, <1>1, SeqLen DEF Sane
    <3>. QED
      BY <1>4, <3>1, <3>2 DEF Moves
  <2>. QED
    BY Zenon, <2>1, <2>2, <2>3
<1>. QED
  BY Zenon, <1>3, <1>4 DEF Leaves

LEMMA SweepRootStep ==
  ASSUME CollectorTypes, GcInv, SweepRoot
  PROVE  CollectorInv' /\ Continued /\ Leaves(SweepTerm(roots[gc.at[1]]))
<1>. DEFINE s == gc.at[1]
            left == SweepTerm(roots[s])
<1>1. /\ gc.phase = "roots" /\ panic = "none" /\ s \in DOMAIN roots
      /\ heap' = left.heap /\ panic' = left.panic
      /\ roots' = [roots EXCEPT ![s] = left.word]
      /\ gc' = [gc EXCEPT !.at = <<s + 1, 1>>] /\ UNCHANGED <<Unbuilt, Kept>>
  BY Zenon DEF SweepRoot
<1>2. GcHeaps /\ RootsSafe(heap, Frame, gc.phase, gc.at, roots)
  BY Zenon DEF GcInv, GcSafe
<1>3. Fine(heap, roots[s])
  BY Zenon, <1>1, <1>2 DEF RootsSafe
<1>4. Ahead
  BY Zenon, <1>1 DEF Ahead
<1>5. Leaves(left) /\ (left.panic = "none" \/ gc.full)
  BY Zenon, <1>1, <1>3, <1>4, SweepTermLeaves
<1>. HIDE DEF left
<1>6. GcSafe(heap', Frame, "roots", gc.at, roots) /\ DOMAIN heap' = DOMAIN heap
  BY Zenon, <1>1, <1>5, LeavesSafe
<1>7. Fine(heap', left.word) /\ Swept(Frame, left.word) /\ left.word \in Ref
  BY Zenon, <1>1, <1>5 DEF Leaves, Fine, Live, Ref
<1>8. s \in Nat /\ roots \in [1..Slots -> Ref] /\ DOMAIN roots \subseteq Nat
  BY DEF CollectorTypes, GcRecord, Addr
<1>9. roots' \in [1..Slots -> Ref] /\ DOMAIN roots' = DOMAIN roots
  BY Zenon, <1>1, <1>7, <1>8
<1>10. <<s + 1, 1>> \in Addr /\ gc' = Advanced(gc, "roots", <<s + 1, 1>>)
  <2>1. gc \in GcRecord
    BY Zenon DEF CollectorTypes, GcRecord
  <2>2. [gc EXCEPT !.at = <<s + 1, 1>>] = Advanced(gc, gc.phase, <<s + 1, 1>>)
    BY <2>1 DEF Advanced, GcRecord
  <2>. QED
    BY <1>1, <1>8, <2>2 DEF Addr
<1>11. CollectorTypes' /\ GcHeaps' /\ Frame' = Frame /\ gc'.phase = "roots" /\ gc'.at = <<s + 1, 1>>
  <2>1. Continues("roots", <<s + 1, 1>>)
    BY Zenon, <1>1, <1>5, <1>6, <1>9, <1>10 DEF Continues
  <2>. QED
    BY Zenon, <1>2, <1>10, <2>1, GcContinues
<1>12. RootsSafe(heap', Frame, "roots", <<s + 1, 1>>, roots')
  <2>. SUFFICES ASSUME NEW t \in DOMAIN roots'
                PROVE  Fine(heap', roots'[t]) /\ (t < s + 1 => Swept(Frame, roots'[t]))
    BY Zenon DEF RootsSafe
  <2>1. CASE t = s
    BY Zenon, <1>1, <1>7, <1>8, <2>1
  <2>2. CASE t # s
    <3>1. roots'[t] = roots[t] /\ t \in DOMAIN roots /\ t \in Nat
      BY Zenon, <1>1, <1>8, <1>9, <2>2
    <3>2. Fine(heap', roots[t]) /\ (t < s => Swept(Frame, roots[t]))
      BY Zenon, <1>6, <3>1 DEF GcSafe, RootsSafe
    <3>. QED
      BY <1>8, <2>2, <3>1, <3>2
  <2>. QED
    BY Zenon, <2>1, <2>2
<1>13. Scans(heap', Frame, "roots", <<s + 1, 1>>)
  BY Zenon DEF Scans
<1>14. GcSafe(heap', Frame, "roots", <<s + 1, 1>>, roots')
  BY Zenon, <1>6, <1>12, <1>13 DEF GcSafe
<1>15. GcInv'
  BY Zenon, <1>11, <1>14 DEF GcInv
<1>16. Continued
  BY Zenon, <1>1, <1>11 DEF Continued, Unbuilt, Kept
<1>. QED
  BY Zenon, <1>5, <1>11, <1>15, <1>16 DEF CollectorInv, left

LEMMA RootsSweptStep ==
  ASSUME CollectorTypes, GcInv, RootsSwept
  PROVE  CollectorInv' /\ Continued
<1>1. /\ gc.phase = "roots" /\ panic = "none" /\ gc.at[1] > Len(roots)
      /\ gc' = [gc EXCEPT !.phase = "scan", !.at = <<1, 1>>] /\ UNCHANGED <<Unbuilt, Kept>>
      /\ heap' = heap /\ roots' = roots /\ panic' = panic
  BY Zenon DEF RootsSwept
<1>2. GcHeaps /\ GcSafe(heap, Frame, "roots", gc.at, roots)
  BY Zenon, <1>1 DEF GcInv
<1>3. roots \in [1..Slots -> Ref] /\ gc.at[1] \in Nat
  BY Zenon DEF CollectorTypes, GcRecord
<1>4. <<1, 1>> \in Addr /\ gc' = Advanced(gc, "scan", <<1, 1>>)
  <2>1. gc \in GcRecord
    BY DEF CollectorTypes, GcRecord
  <2>2. [gc EXCEPT !.phase = "scan", !.at = <<1, 1>>] = Advanced(gc, "scan", <<1, 1>>)
    BY Zenon, <2>1, AdvancedPhase
  <2>. QED
    BY <1>1, <2>2 DEF Addr
<1>5. CollectorTypes' /\ GcHeaps' /\ Frame' = Frame /\ gc'.phase = "scan" /\ gc'.at = <<1, 1>>
  <2>1. Continues("scan", <<1, 1>>)
    BY Zenon, <1>1, <1>3, <1>4 DEF Continues
  <2>. QED
    BY Zenon, <1>2, <1>4, <2>1, GcContinues
<1>6. \A t \in DOMAIN roots : t < gc.at[1]
  <2>1. Len(roots) = Slots
    BY <1>3, CollectorAssumption
  <2>. QED
    BY <1>1, <1>3, <2>1, CollectorAssumption
<1>7. RootsSafe(heap, Frame, "scan", <<1, 1>>, roots)
  BY Zenon, <1>2, <1>6 DEF GcSafe, RootsSafe
<1>8. Scans(heap, Frame, "scan", <<1, 1>>)
  BY DEF Scans, Before, IsPair, IsPlace
<1>9. GcSafe(heap, Frame, "scan", <<1, 1>>, roots)
  BY Zenon, <1>2, <1>7, <1>8 DEF GcSafe
<1>10. GcInv'
  BY Zenon, <1>1, <1>5, <1>9 DEF GcInv
<1>11. Continued
  BY Zenon, <1>1, <1>5 DEF Continued, Unbuilt, Kept
<1>. QED
  BY Zenon, <1>5, <1>10, <1>11 DEF CollectorInv

LEMMA ScannedFacts ==
  ASSUME CollectorTypes, GcInv, Scanning
  PROVE  /\ Scanned \in Targets(Frame) /\ Scanned \in DOMAIN heap /\ Len(heap[Scanned]) \in Nat
         /\ gc.phase = "scan" => Scanned = Frame.target
         /\ gc.phase = "tenured" => Scanned = Frame.old /\ ~gc.full /\ old # NoHeap
         /\ ~AtEnd => Ahead
         /\ gc.phase \in {"scan", "tenured"} /\ panic = "none"
         /\ gc.at \in Addr /\ gc.at[1] \in Nat \ {0} /\ gc.at[2] \in Nat \ {0}
         /\ gc.at = <<gc.at[1], gc.at[2]>>
<1>1. /\ GcHeaps /\ Sane(heap) /\ Scans(heap, Frame, gc.phase, gc.at)
  BY Zenon DEF GcInv, GcSafe
<1>2. /\ IsFrame(Frame) /\ Placed(heap, Frame) /\ Frame.target = gc.target /\ Frame.old = old
      /\ (Frame.full <=> gc.full)
  BY Zenon, <1>1, FrameFacts
<1>3. gc.phase \in {"scan", "tenured"} /\ panic = "none"
  BY Zenon DEF Scanning
<1>4. gc.at \in Addr /\ gc.at[1] \in Nat \ {0} /\ gc.at[2] \in Nat \ {0} /\ gc.at = <<gc.at[1], gc.at[2]>>
  BY <1>3 DEF CollectorTypes, Addr
<1>5. gc.phase = "tenured" => Scanned = Frame.old /\ ~gc.full /\ old # NoHeap
  BY Zenon, <1>1, <1>2 DEF Scans, Scanned
<1>6. gc.phase = "scan" => Scanned = Frame.target
  BY Zenon, <1>2 DEF Scanned
<1>7. Scanned \in Targets(Frame)
  BY Zenon, <1>2, <1>3, <1>5, <1>6 DEF Targets
<1>8. Scanned \in DOMAIN heap
  BY Zenon, <1>2, <1>3, <1>5, <1>6 DEF Placed
<1>9. Len(heap[Scanned]) \in Nat
  BY Zenon, <1>1, <1>8, SeqLen DEF Sane
<1>10. ~AtEnd => Ahead
  BY <1>2, <1>4, <1>5, <1>6, <1>9 DEF AtEnd, Ahead
<1>. QED
  BY Zenon, <1>3, <1>4, <1>5, <1>6, <1>7, <1>8, <1>9, <1>10

(* A word of the scanned heap is swept                                      *)
Element == Walked(heap[Scanned][gc.at[1]])[gc.at[2]]
HasElement == gc.at[2] <= Len(Walked(heap[Scanned][gc.at[1]]))

ElementSwept(left) ==
  /\ left = SweepTerm(Element)
  /\ heap' = [left.heap EXCEPT ![Scanned] = [@ EXCEPT ![gc.at[1]].elements[gc.at[2]] = left.word]]
  /\ linked' = left.linked /\ panic' = left.panic /\ gc' = [gc EXCEPT !.at[2] = gc.at[2] + 1]
  /\ UNCHANGED <<Unbuilt, Kept, roots>>

LEMMA SweepElement ==
  ASSUME CollectorTypes, GcInv, Scanning, ~AtEnd, HasElement, NEW left, ElementSwept(left)
  PROVE  CollectorInv' /\ Continued /\ Leaves(left)
         /\ Writes(left.heap, heap', Scanned, gc.at[1], gc.at[2], left.word)
<1>. DEFINE g == Scanned
            k == gc.at[1]
            j == gc.at[2]
            K == left.heap
            w == left.word
            next == <<k, j + 1>>
<1>1. /\ g \in Targets(Frame) /\ g \in DOMAIN heap /\ Len(heap[g]) \in Nat
      /\ gc.phase = "scan" => g = Frame.target
      /\ gc.phase = "tenured" => g = Frame.old /\ ~gc.full /\ old # NoHeap
      /\ Ahead /\ gc.phase \in {"scan", "tenured"} /\ panic = "none"
      /\ k \in Nat \ {0} /\ j \in Nat \ {0} /\ gc.at = <<k, j>>
  BY Zenon, ScannedFacts
<1>2. k \in 1..Len(heap[g])
  BY <1>1 DEF AtEnd
<1>3. /\ GcHeaps /\ Sane(heap) /\ Tenures(heap, Frame) /\ GcSafe(heap, Frame, gc.phase, gc.at, roots)
  BY Zenon DEF GcInv, GcSafe
<1>4. heap[g][k].kind \in {"tuple", "cons"}
  BY <1>1 DEF Walked, HasElement
<1>5. IsPair(heap, g, k) /\ heap[g][k] \in Pair
  BY Zenon, <1>1, <1>2, <1>3, <1>4 DEF IsPair, IsPlace, Sane
<1>6. heap[g][k].elements \in Ref \X Ref /\ Len(heap[g][k].elements) = 2
  BY Zenon, <1>5 DEF Pair
<1>7. j \in 1..2 /\ Element = Word(heap, g, k, j)
  <2>1. Walked(heap[g][k]) = heap[g][k].elements
    BY Zenon, <1>4 DEF Walked
  <2>2. j <= 2
    BY Zenon, <1>6, <2>1 DEF HasElement
  <2>3. Element = Word(heap, g, k, j)
    BY Zenon, <2>1 DEF Element, Word
  <2>. QED
    BY <1>1, <2>2, <2>3
<1>8. Fine(heap, Word(heap, g, k, j))
  BY Zenon, <1>3, <1>5, <1>7, SaneWord
<1>9. gc.phase = "tenured" => Mature(Frame, Word(heap, g, k, j))
  <2>1. gc.phase = "tenured" => ~Frame.full
    BY Zenon, <1>1, <1>3, FrameFacts
  <2>. QED
    BY Zenon, <1>1, <1>3, <1>5, <1>7, <2>1 DEF Tenures
<1>10. Leaves(left) /\ (left.panic = "none" \/ gc.full)
  <2>1. left = SweepTerm(Word(heap, g, k, j)) /\ gc.phase # "idle"
    BY Zenon, <1>1, <1>7 DEF ElementSwept
  <2>2. Leaves(SweepTerm(Word(heap, g, k, j)))
        /\ (SweepTerm(Word(heap, g, k, j)).panic = "none" \/ gc.full)
    BY Zenon, <1>1, <1>8, <1>9, <2>1, SweepTermLeaves
  <2>. QED
    BY Zenon, <2>1, <2>2
<1>11. /\ GcSafe(K, Frame, gc.phase, gc.at, roots) /\ DOMAIN K = DOMAIN heap
       /\ K[g][k] = heap[g][k] /\ k \in 1..Len(K[g])
  BY <1>1, <1>2, <1>10, LeavesSafe
<1>12. Sane(K) /\ \A h \in DOMAIN K : IsSeq(K[h])
  BY Zenon, <1>11 DEF GcSafe, Sane
<1>13. Fine(K, w) /\ Swept(Frame, w) /\ (gc.phase = "tenured" => IsOld(Frame, w)) /\ w \in Ref
  BY Zenon, <1>10 DEF Leaves, Fine, Live, Ref
<1>14. Writes(K, heap', g, k, j, w)
  <2>. DEFINE o == [K[g][k] EXCEPT !.elements[j] = w]
  <2>1. heap' = Change(K, g, k, o)
    BY Zenon DEF Change, Replace, ElementSwept
  <2>2. o \in Pair /\ o.elements = [K[g][k].elements EXCEPT ![j] = w]
    BY <1>5, <1>7, <1>11, <1>13 DEF Pair
  <2>. HIDE DEF o
  <2>3. Changes(K, heap', g, k, o)
    <3>1. g \in DOMAIN K /\ k \in 1..Len(K[g])
      BY Zenon, <1>1, <1>11
    <3>2. Changes(K, Change(K, g, k, o), g, k, o)
      BY Zenon, <1>12, <3>1, ChangeFacts
    <3>. QED
      BY Zenon, <2>1, <3>2
  <2>4. IsPair(K, g, k)
    BY Zenon, <1>1, <1>5, <1>11 DEF IsPair, IsPlace
  <2>. QED
    BY Zenon, <1>1, <1>7, <1>11, <1>13, <2>2, <2>3, <2>4 DEF Writes, Changes
<1>15. IsFrame(Frame) /\ Placed(K, Frame)
  <2>1. IsFrame(Frame) /\ Placed(heap, Frame)
    BY Zenon, <1>3, FrameFacts
  <2>. QED
    BY Zenon, <1>11, <2>1 DEF Placed
<1>16. WritesNext(Frame, gc.phase, g, w)
  BY Zenon, <1>1, <1>13 DEF WritesNext
<1>17. GcSafe(heap', Frame, gc.phase, next, roots)
  <2>1. GcSafe(K, Frame, gc.phase, <<k, j>>, roots)
    BY Zenon, <1>1, <1>11
  <2>. QED
    BY Zenon, <1>1, <1>13, <1>14, <1>15, <1>16, <2>1, WritesSafe
<1>18. next \in Addr /\ gc' = Advanced(gc, gc.phase, next)
  <2>1. gc \in GcRecord
    BY Zenon DEF CollectorTypes, GcRecord
  <2>2. [gc.at EXCEPT ![2] = j + 1] = next
    BY <1>1
  <2>3. [gc EXCEPT !.at = next] = Advanced(gc, gc.phase, next)
    BY <2>1 DEF Advanced, GcRecord
  <2>4. gc' = [gc EXCEPT !.at = next]
    BY Zenon, <2>1, <2>2 DEF GcRecord, ElementSwept
  <2>. QED
    BY <1>1, <2>3, <2>4 DEF Addr
<1>. HIDE DEF next
<1>19. CollectorTypes' /\ GcHeaps' /\ Frame' = Frame /\ gc'.phase = gc.phase /\ gc'.at = next
  <2>1. DOMAIN heap' = DOMAIN heap
    BY Zenon, <1>11, <1>14 DEF Writes
  <2>2. Continues(gc.phase, next)
    BY Zenon, <1>10, <1>18, <2>1 DEF Continues, CollectorTypes, ElementSwept
  <2>3. gc.phase \in {"roots", "scan", "tenured"}
    BY Zenon, <1>1
  <2>. QED
    BY Zenon, <1>3, <1>18, <2>2, <2>3, GcContinues
<1>20. GcInv'
  <2>1. roots' = roots
    BY Zenon DEF ElementSwept
  <2>. QED
    BY Zenon, <1>17, <1>19, <2>1 DEF GcInv
<1>21. Continued
  BY Zenon, <1>1, <1>19 DEF Continued, Unbuilt, Kept, ElementSwept
<1>. QED
  BY Zenon, <1>1, <1>10, <1>14, <1>19, <1>20, <1>21 DEF CollectorInv

(* The scan goes on to the next object                                      *)
ObjectSkipped ==
  /\ gc' = [gc EXCEPT !.at = <<gc.at[1] + 1, 1>>]
  /\ UNCHANGED <<Unbuilt, Kept, roots, heap, linked, panic>>

LEMMA SkipObject ==
  ASSUME CollectorTypes, GcInv, Scanning, ~AtEnd, ~HasElement, ObjectSkipped
  PROVE  CollectorInv' /\ Continued
<1>. DEFINE g == Scanned
            k == gc.at[1]
            j == gc.at[2]
            next == <<k + 1, 1>>
<1>1. /\ g \in DOMAIN heap
      /\ gc.phase = "scan" => g = Frame.target
      /\ gc.phase = "tenured" => g = Frame.old
      /\ gc.phase \in {"scan", "tenured"} /\ panic = "none"
      /\ k \in Nat \ {0} /\ j \in Nat \ {0} /\ gc.at = <<k, j>>
  BY Zenon, ScannedFacts
<1>2. /\ GcHeaps /\ Sane(heap) /\ GcSafe(heap, Frame, gc.phase, <<k, j>>, roots)
  BY Zenon, <1>1 DEF GcInv, GcSafe
<1>. HIDE DEF g
<1>3. ASSUME NEW i \in Nat, NEW m \in Nat, IsPair(heap, g, i), m \in 1..2, Before(next, i, m)
      PROVE  Before(<<k, j>>, i, m)
  <2>1. i < k \/ i = k
    BY <1>1, <1>3 DEF Before
  <2>2. CASE i < k
    BY Zenon, <1>1, <2>2 DEF Before
  <2>3. CASE i = k
    <3>1. heap[g][k] \in Pair /\ heap[g][k].kind \in {"tuple", "cons"}
      BY Zenon, <1>2, <1>3, <2>3 DEF Sane, IsPair, IsPlace
    <3>2. Len(Walked(heap[g][k])) = 2
      BY Zenon, <3>1 DEF Walked, Pair
    <3>3. j > 2
      BY <1>1, <3>2 DEF g, HasElement
    <3>. QED
      BY <1>1, <1>3, <2>3, <3>3 DEF Before
  <2>. QED
    BY Zenon, <2>1, <2>2, <2>3
<1>. HIDE DEF next
<1>4. Scans(heap, Frame, gc.phase, <<k, j>>)
  BY Zenon, <1>2 DEF GcSafe
<1>5. Scans(heap, Frame, gc.phase, next)
  BY Zenon, <1>1, <1>3, <1>4 DEF Scans
<1>6. GcSafe(heap, Frame, gc.phase, next, roots)
  BY Zenon, <1>1, <1>2, <1>5 DEF GcSafe, RootsSafe
<1>7. next \in Addr /\ gc' = Advanced(gc, gc.phase, next)
  <2>1. gc \in GcRecord
    BY Zenon DEF CollectorTypes, GcRecord
  <2>2. [gc EXCEPT !.at = next] = Advanced(gc, gc.phase, next)
    BY <2>1 DEF Advanced, GcRecord
  <2>. QED
    BY <1>1, <2>2 DEF Addr, next, ObjectSkipped
<1>8. CollectorTypes' /\ GcHeaps' /\ Frame' = Frame /\ gc'.phase = gc.phase /\ gc'.at = next
  <2>1. Continues(gc.phase, next)
    BY Zenon, <1>1, <1>7 DEF Continues, CollectorTypes, ObjectSkipped
  <2>2. gc.phase \in {"roots", "scan", "tenured"}
    BY Zenon, <1>1
  <2>. QED
    BY Zenon, <1>2, <1>7, <2>1, <2>2, GcContinues
<1>9. GcInv'
  BY Zenon, <1>6, <1>8 DEF GcInv, ObjectSkipped
<1>10. Continued
  BY Zenon, <1>1, <1>8 DEF Continued, Unbuilt, Kept, ObjectSkipped
<1>. QED
  BY Zenon, <1>1, <1>8, <1>9, <1>10 DEF CollectorInv

LEMMA SweepWordStep ==
  ASSUME CollectorTypes, GcInv, SweepWord
  PROVE  CollectorInv'
<1>1. CASE HasElement
  <2>1. Scanning /\ ~AtEnd /\ ElementSwept(SweepTerm(Element))
    BY Zenon, <1>1 DEF SweepWord, ElementSwept, HasElement, Element
  <2>. QED
    BY Zenon, <1>1, <2>1, SweepElement
<1>2. CASE ~HasElement
  <2>1. Scanning /\ ~AtEnd /\ ObjectSkipped
    BY Zenon, <1>2 DEF SweepWord, ObjectSkipped, HasElement
  <2>. QED
    BY Zenon, <1>2, <2>1, SkipObject
<1>. QED
  BY Zenon, <1>1, <1>2

(* Everything in the scanned heap lies before its end                       *)
LEMMA AllBefore ==
  ASSUME CollectorTypes, GcInv, Scanning, AtEnd, NEW i \in Nat, NEW j \in Nat,
         IsPlace(heap, Scanned, i)
  PROVE  Before(gc.at, i, j)
<1>1. Len(heap[Scanned]) \in Nat /\ gc.at[1] \in Nat
  BY Zenon, ScannedFacts
<1>2. i <= Len(heap[Scanned]) /\ gc.at[1] > Len(heap[Scanned])
  BY DEF IsPlace, AtEnd
<1>. QED
  BY <1>1, <1>2 DEF Before

LEMMA SweepTenuredStep ==
  ASSUME CollectorTypes, GcInv, SweepTenured
  PROVE  CollectorInv' /\ Continued
<1>1. /\ Scanning /\ AtEnd /\ HasTenured
      /\ gc' = [gc EXCEPT !.phase = "tenured", !.at = <<1, 1>>] /\ UNCHANGED <<Unbuilt, Kept>>
      /\ heap' = heap /\ roots' = roots /\ panic' = panic
  BY Zenon DEF SweepTenured
<1>2. gc.phase = "scan" /\ ~gc.full /\ old # NoHeap /\ panic = "none"
  BY Zenon, <1>1 DEF HasTenured, Scanning
<1>3. GcHeaps /\ GcSafe(heap, Frame, "scan", gc.at, roots)
  BY Zenon, <1>2 DEF GcInv
<1>4. Frame.target = Scanned /\ ~Frame.full /\ Frame.old # NoHeap
  BY Zenon, <1>1, <1>2, <1>3, FrameFacts, ScannedFacts
<1>5. <<1, 1>> \in Addr /\ gc' = Advanced(gc, "tenured", <<1, 1>>)
  <2>1. gc \in GcRecord
    BY DEF CollectorTypes, GcRecord
  <2>2. [gc EXCEPT !.phase = "tenured", !.at = <<1, 1>>] = Advanced(gc, "tenured", <<1, 1>>)
    BY Zenon, <2>1, AdvancedPhase
  <2>. QED
    BY <1>1, <2>2 DEF Addr
<1>6. CollectorTypes' /\ GcHeaps' /\ Frame' = Frame /\ gc'.phase = "tenured" /\ gc'.at = <<1, 1>>
  <2>1. Continues("tenured", <<1, 1>>)
    BY Zenon, <1>1, <1>2, <1>5 DEF Continues, CollectorTypes
  <2>. QED
    BY Zenon, <1>3, <1>5, <2>1, GcContinues
<1>7. Scans(heap, Frame, "tenured", <<1, 1>>)
  <2>1. ASSUME NEW i \in Nat, NEW j \in Nat, IsPair(heap, Frame.target, i), j \in 1..2
        PROVE  Swept(Frame, Word(heap, Frame.target, i, j))
    <3>1. Before(gc.at, i, j)
      BY Zenon, <1>1, <1>4, <2>1, AllBefore DEF IsPair
    <3>. QED
      BY Zenon, <1>3, <2>1, <3>1 DEF GcSafe, Scans
  <2>2. ASSUME NEW i \in Nat, NEW j \in Nat, IsPair(heap, Frame.old, i), j \in 1..2,
               Before(<<1, 1>>, i, j)
        PROVE  IsOld(Frame, Word(heap, Frame.old, i, j))
    BY <2>2 DEF Before, IsPair, IsPlace
  <2>. QED
    BY Zenon, <1>4, <2>1, <2>2 DEF Scans
<1>8. GcSafe(heap, Frame, "tenured", <<1, 1>>, roots)
  BY Zenon, <1>3, <1>7 DEF GcSafe, RootsSafe
<1>9. GcInv'
  BY Zenon, <1>1, <1>6, <1>8 DEF GcInv
<1>10. Continued
  BY Zenon, <1>1, <1>6 DEF Continued, Unbuilt, Kept
<1>. QED
  BY Zenon, <1>6, <1>9, <1>10 DEF CollectorInv

(* What is left when a collection ends: the heaps it went to                *)
LEMMA FinishHeaps ==
  ASSUME CollectorTypes, GcHeaps
  PROVE  DOMAIN heap \ Dropped = Targets(Frame) \ {NoHeap}
<1>1. gc.full \in BOOLEAN
  BY Zenon DEF CollectorTypes, GcRecord
<1>2. CASE gc.full
  <2>1. Targets(Frame) = {gc.target}
    BY Zenon, <1>2, FrameTargets
  <2>2. Dropped = {gc.source} \cup off_heap \cup ({old} \ {NoHeap})
    BY Zenon, <1>2 DEF Dropped
  <2>. QED
    BY Zenon, <2>1, <2>2 DEF GcHeaps, NoHeap
<1>3. CASE ~gc.full
  <2>1. Targets(Frame) = {gc.target, old}
    BY Zenon, <1>3, FrameTargets
  <2>2. Dropped = {gc.source} \cup off_heap
    BY Zenon, <1>3 DEF Dropped
  <2>. QED
    BY Zenon, <2>1, <2>2 DEF GcHeaps, NoHeap
<1>. QED
  BY Zenon, <1>1, <1>2, <1>3

(* At the end every word of the target is swept, and every word of the old  *)
(* generation stays in it                                                   *)
LEMMA FinishWords ==
  ASSUME CollectorTypes, GcInv, Scanning, AtEnd, ~HasTenured
  PROVE  /\ \A i, j \in Nat : IsPair(heap, gc.target, i) /\ j \in 1..2 =>
              Swept(Frame, Word(heap, gc.target, i, j))
         /\ ~gc.full => \A i, j \in Nat : IsPair(heap, old, i) /\ j \in 1..2 =>
              IsOld(Frame, Word(heap, old, i, j))
<1>1. GcHeaps /\ Sane(heap) /\ Tenures(heap, Frame) /\ Scans(heap, Frame, gc.phase, gc.at)
  BY Zenon DEF GcInv, GcSafe
<1>2. /\ Frame.target = gc.target /\ Frame.old = old /\ (Frame.full <=> gc.full)
      /\ Frame.top = gc.old_top /\ IsFrame(Frame)
  BY Zenon, <1>1, FrameFacts
<1>3. /\ gc.phase = "scan" => Scanned = gc.target
      /\ gc.phase = "tenured" => Scanned = old
      /\ gc.phase \in {"scan", "tenured"}
  BY Zenon, <1>2, ScannedFacts
<1>4. ASSUME NEW i \in Nat, NEW j \in Nat, IsPair(heap, gc.target, i), j \in 1..2
      PROVE  Swept(Frame, Word(heap, gc.target, i, j))
  <2>1. CASE gc.phase = "scan"
    <3>1. Before(gc.at, i, j)
      BY Zenon, <1>3, <1>4, <2>1, AllBefore DEF IsPair
    <3>. QED
      BY Zenon, <1>1, <1>2, <1>4, <2>1, <3>1 DEF Scans
  <2>2. CASE gc.phase = "tenured"
    BY Zenon, <1>1, <1>2, <1>4, <2>2 DEF Scans
  <2>. QED
    BY Zenon, <1>3, <2>1, <2>2
<1>5. ASSUME ~gc.full, NEW i \in Nat, NEW j \in Nat, IsPair(heap, old, i), j \in 1..2
      PROVE  IsOld(Frame, Word(heap, old, i, j))
  <2>1. CASE gc.phase = "scan"
    <3>1. old # NoHeap /\ i <= Len(heap[old]) /\ old \in DOMAIN heap
      BY <1>1, <1>5 DEF IsPair, IsPlace, Sane, NoHeap
    <3>2. Len(heap[old]) <= gc.old_top /\ Len(heap[old]) \in Nat /\ gc.old_top \in Nat
      BY <1>1, <1>5, <2>1, <3>1, SeqLen DEF HasTenured, CollectorTypes, GcRecord, Sane
    <3>3. i <= Frame.top
      BY <1>2, <3>1, <3>2
    <3>. QED
      BY Zenon, <1>1, <1>2, <1>5, <3>3 DEF Tenures
  <2>2. CASE gc.phase = "tenured"
    <3>1. Before(gc.at, i, j)
      BY Zenon, <1>3, <1>5, <2>2, AllBefore DEF IsPair
    <3>. QED
      BY Zenon, <1>1, <1>2, <1>5, <2>2, <3>1 DEF Scans
  <2>. QED
    BY Zenon, <1>3, <2>1, <2>2
<1>. QED
  BY Zenon, <1>4, <1>5

Closed(H, y, o) ==
  /\ heap' = [h \in {y, o} \ {NoHeap} |-> H[h]]
  /\ young' = y /\ old' = o /\ off_heap' = {} /\ high_water_mark' = Len(H[y])
  /\ gc' = Idle /\ UNCHANGED <<roots, mailbox, panic, fresh>>

LEMMA FinishCloses ==
  ASSUME CollectorTypes, GcInv, Finish
  PROVE  Closed(heap, gc.target, IF gc.full THEN NoHeap ELSE old)
<1>1. GcHeaps /\ gc.target # NoHeap /\ gc.full \in BOOLEAN
  BY Zenon DEF GcInv, GcHeaps, CollectorTypes, GcRecord, NoHeap
<1>2. /\ heap' = [h \in DOMAIN heap \ Dropped |-> heap[h]]
      /\ young' = gc.target /\ old' = (IF gc.full THEN NoHeap ELSE old) /\ off_heap' = {}
      /\ high_water_mark' = Len(heap[gc.target]) /\ gc' = Idle
      /\ UNCHANGED <<roots, mailbox, panic, fresh>>
  BY Zenon DEF Finish
<1>3. Targets(Frame) \ {NoHeap} = {gc.target, IF gc.full THEN NoHeap ELSE old} \ {NoHeap}
  BY Zenon, <1>1, FrameTargets
<1>4. heap' = [h \in {gc.target, IF gc.full THEN NoHeap ELSE old} \ {NoHeap} |-> heap[h]]
  BY Zenon, <1>1, <1>2, <1>3, FinishHeaps
<1>. QED
  BY Zenon, <1>2, <1>4 DEF Closed

LEMMA FinishStep ==
  ASSUME CollectorTypes, GcInv, Finish
  PROVE  CollectorInv'
<1>. DEFINE y == gc.target
            o == IF gc.full THEN NoHeap ELSE old
<1>1. Scanning /\ AtEnd /\ ~HasTenured
  BY Zenon DEF Finish
<1>2. Closed(heap, y, o)
  BY Zenon, FinishCloses
<1>3. /\ GcHeaps /\ Sane(heap) /\ Marked(heap, Frame) /\ RootsSafe(heap, Frame, gc.phase, gc.at, roots)
  BY Zenon DEF GcInv, GcSafe
<1>4. /\ gc.full => Targets(Frame) = {gc.target}
      /\ ~gc.full => Targets(Frame) = {gc.target, old}
      /\ Frame.old = old
  BY Zenon, <1>3, FrameTargets, FrameFacts
<1>5. y \in Nat \ {0} /\ y \in DOMAIN heap /\ o \in Nat /\ o # y /\ (o # NoHeap => o \in DOMAIN heap)
  BY Zenon, <1>3 DEF GcHeaps, NoHeap
<1>6. \A h \in {y, o} : h \in Targets(Frame) \/ h = NoHeap
  BY Zenon, <1>4
<1>7. \A h \in Targets(Frame) : h \in {y, o}
  BY Zenon, <1>4
<1>8. /\ \A i, j \in Nat : IsPair(heap, y, i) /\ j \in 1..2 => Swept(Frame, Word(heap, y, i, j))
      /\ o # NoHeap => \A i, j \in Nat : IsPair(heap, o, i) /\ j \in 1..2 =>
           Word(heap, o, i, j) = Constant \/ Word(heap, o, i, j)[1] = o
  BY Zenon, <1>1, <1>4, FinishWords DEF IsOld
<1>9. /\ roots \in [1..Slots -> Ref] /\ mailbox \in Seq(Addr) /\ fresh \in Nat
      /\ \A h \in DOMAIN heap : h < fresh
  BY Zenon DEF CollectorTypes
<1>10. gc.phase # "roots" /\ panic = "none"
  BY Zenon, <1>1 DEF Scanning
<1>11. /\ DOMAIN heap' = {y, o} \ {NoHeap} /\ DOMAIN heap' \subseteq DOMAIN heap
       /\ \A h \in DOMAIN heap' : heap'[h] = heap[h]
       /\ young' = y /\ old' = o /\ off_heap' = {} /\ high_water_mark' = Len(heap[y])
       /\ gc' = Idle /\ roots' = roots /\ mailbox' = mailbox /\ panic' = panic /\ fresh' = fresh
  BY Zenon, <1>2, <1>5 DEF Closed
<1>. HIDE DEF y, o
<1>12. y \in DOMAIN heap' /\ heap'[y] = heap[y] /\ (o # NoHeap => o \in DOMAIN heap' /\ heap'[o] = heap[o])
  BY Zenon, <1>5, <1>11 DEF NoHeap
<1>13. ASSUME NEW w, Fine(heap, w), Swept(Frame, w)
       PROVE  Fine(heap', w) /\ (w = Constant \/ w[1] = o \/ (w[1] = y /\ w[2] <= Len(heap[y])))
  <2>. SUFFICES ASSUME w # Constant
                PROVE  Live(heap', w) /\ (w[1] = o \/ (w[1] = y /\ w[2] <= Len(heap[y])))
    BY Zenon DEF Fine
  <2>1. Live(heap, w) /\ w[1] \in {y, o} /\ w[1] # NoHeap
    BY Zenon, <1>7, <1>13 DEF Fine, Swept, Live, Addr, NoHeap
  <2>. QED
    BY Zenon, <1>11, <2>1 DEF Live
<1>14. Sane(heap')
  <2>1. DOMAIN heap' \subseteq Nat \ {0} /\ \A h \in DOMAIN heap' : IsSeq(heap'[h])
    BY Zenon, <1>3, <1>11 DEF Sane
  <2>2. \A h \in DOMAIN heap' : \A i \in 1..Len(heap'[h]) :
          /\ heap'[h][i].kind \in {"tuple", "cons"} => heap'[h][i] \in Pair
          /\ heap'[h][i].kind = "moved" => heap'[h][i] \in Marker
    BY Zenon, <1>3, <1>11 DEF Sane
  <2>3. ASSUME NEW h \in DOMAIN heap', NEW i \in 1..Len(heap'[h]), NEW j \in 1..2, IsPair(heap', h, i)
        PROVE  Fine(heap', Word(heap', h, i, j))
    <3>1. IsPair(heap, h, i) /\ Word(heap', h, i, j) = Word(heap, h, i, j)
      BY Zenon, <1>11, <2>3 DEF IsPair, IsPlace, Word
    <3>2. Fine(heap, Word(heap, h, i, j))
      BY Zenon, <1>3, <3>1, SaneWord
    <3>3. i \in Nat /\ j \in Nat
      BY DEF IsPair, IsPlace
    <3>4. CASE h = y
      BY Zenon, <1>8, <1>13, <3>1, <3>2, <3>3, <3>4
    <3>5. CASE h = o
      <4>1. o # NoHeap
        BY Zenon, <1>11, <3>5
      <4>2. Word(heap, o, i, j) = Constant \/ Word(heap, o, i, j)[1] = o
        BY Zenon, <1>8, <3>1, <3>3, <3>5, <4>1
      <4>3. Swept(Frame, Word(heap, o, i, j))
        BY Zenon, <1>6, <4>1, <4>2 DEF Swept
      <4>. QED
        BY Zenon, <1>13, <3>1, <3>2, <3>5, <4>3
    <3>. QED
      BY Zenon, <1>11, <3>4, <3>5
  <2>. QED
    BY Zenon, <2>1, <2>2, <2>3 DEF Sane
<1>15. Quiet(heap', y, o, Len(heap[y]))
  <2>1. ASSUME NEW h \in DOMAIN heap', NEW i \in 1..Len(heap'[h]) PROVE heap'[h][i].kind # "moved"
    <3>1. h \in DOMAIN heap /\ heap'[h] = heap[h] /\ h \in Targets(Frame)
      BY Zenon, <1>6, <1>11
    <3>. QED
      BY Zenon, <1>3, <3>1 DEF Marked
  <2>2. ASSUME NEW i \in Nat, NEW j \in Nat, IsPair(heap', o, i), j \in 1..2
        PROVE  Word(heap', o, i, j) = Constant \/ Word(heap', o, i, j)[1] = o
    <3>1. o # NoHeap /\ heap'[o] = heap[o] /\ IsPair(heap, o, i)
      BY Zenon, <1>11, <2>2 DEF IsPair, IsPlace
    <3>. QED
      BY Zenon, <1>8, <2>2, <3>1 DEF Word
  <2>3. ASSUME NEW i \in Nat, NEW j \in Nat, IsPair(heap', y, i), i <= Len(heap[y]), j \in 1..2
        PROVE  \/ Word(heap', y, i, j) = Constant \/ Word(heap', y, i, j)[1] = o
               \/ Word(heap', y, i, j)[1] = y /\ Word(heap', y, i, j)[2] <= Len(heap[y])
    <3>1. IsPair(heap, y, i) /\ Word(heap', y, i, j) = Word(heap, y, i, j)
      BY Zenon, <1>11, <1>12, <2>3 DEF IsPair, IsPlace, Word
    <3>2. Fine(heap, Word(heap, y, i, j)) /\ Swept(Frame, Word(heap, y, i, j))
      BY Zenon, <1>3, <1>8, <2>3, <3>1, SaneWord
    <3>. QED
      BY Zenon, <1>13, <3>1, <3>2
  <2>. QED
    BY Zenon, <2>1, <2>2, <2>3 DEF Quiet
<1>16. \A s \in DOMAIN roots : Fine(heap', roots[s])
  BY Zenon, <1>3, <1>10, <1>13 DEF RootsSafe
<1>17. Len(heap[y]) \in Nat
  BY Zenon, <1>3, <1>5, SeqLen DEF Sane
<1>18. CollectorTypes'
  <2>1. Idle \in GcRecord /\ Idle.phase = "idle"
    BY Zenon DEF Idle, GcRecord, NoHeap
  <2>. QED
    BY Zenon, <1>9, <1>11, <1>17, <2>1 DEF CollectorTypes, GcRecord
<1>19. IdleHeaps'
  BY Zenon, <1>5, <1>11 DEF IdleHeaps
<1>20. IdleInv'
  BY <1>11, <1>12, <1>14, <1>15, <1>16, <1>17, <1>19 DEF IdleInv
<1>21. gc'.phase = "idle"
  BY Zenon, <1>11 DEF Idle
<1>. QED
  BY Zenon, <1>18, <1>20, <1>21 DEF CollectorInv

-----------------------------------------------------------------------------
LEMMA CollectorInit ==
  ASSUME Init
  PROVE  CollectorInv
<1>1. /\ heap = [h \in {1} |-> <<>>] /\ young = 1 /\ old = NoHeap /\ high_water_mark = 0
      /\ off_heap = {} /\ roots = [s \in 1..Slots |-> Constant] /\ mailbox = <<>>
      /\ gc = Idle /\ panic = "none" /\ fresh = 2
  BY Zenon DEF Init
<1>2. DOMAIN heap = {1} /\ heap[1] = <<>> /\ Len(heap[1]) = 0
  BY Zenon, <1>1
<1>3. \A h, i : ~IsPlace(heap, h, i)
  BY <1>2 DEF IsPlace
<1>4. IsSeq(<<>>)
  <2>1. <<>> \in Seq({})
    OBVIOUS
  <2>. QED
    BY Zenon, <2>1, SeqIntro
<1>5. Sane(heap)
  BY <1>2, <1>3, <1>4 DEF Sane, IsPlace
<1>6. Quiet(heap, young, old, high_water_mark)
  BY Zenon, <1>3 DEF Quiet, IsPair, IsPlace
<1>7. CollectorTypes
  <2>1. Idle \in GcRecord
    BY Zenon DEF Idle, GcRecord, NoHeap
  <2>2. roots \in [1..Slots -> Ref]
    BY Zenon, <1>1 DEF Ref
  <2>. QED
    BY <1>1, <1>2, <2>1, <2>2 DEF CollectorTypes, GcRecord, Idle
<1>8. IdleHeaps
  BY <1>1, <1>2 DEF IdleHeaps, NoHeap
<1>9. \A s \in DOMAIN roots : Fine(heap, roots[s])
  BY Zenon, <1>1 DEF Fine
<1>10. high_water_mark <= Len(heap[young])
  BY <1>1, <1>2
<1>11. IdleInv
  BY Zenon, <1>5, <1>6, <1>8, <1>9, <1>10 DEF IdleInv
<1>. QED
  BY Zenon, <1>1, <1>7, <1>11 DEF CollectorInv, Idle

LEMMA CollectorStep ==
  ASSUME CollectorInv, [Next]_vars
  PROVE  CollectorInv'
<1>0. CollectorTypes
  BY Zenon DEF CollectorInv
<1>1. CASE Running /\ Next
  <2>0. IdleInv
    BY Zenon, <1>1 DEF CollectorInv, Running
  <2>1. ASSUME NEW s \in DOMAIN roots, BuildCompound(s) PROVE CollectorInv'
    BY Zenon, <1>0, <2>0, <2>1, BuildCompoundStep
  <2>2. ASSUME NEW s \in DOMAIN roots, BuildProcBin(s) PROVE CollectorInv'
    BY <1>0, <2>0, <2>2, BuildProcBinStep
  <2>3. ASSUME NEW s \in DOMAIN roots, BuildSlice(s) PROVE CollectorInv'
    BY <1>0, <2>0, <2>3, BuildSliceStep
  <2>4. ASSUME NEW s \in DOMAIN roots, Assign(s) PROVE CollectorInv'
    BY <1>0, <2>0, <2>4, AssignStep
  <2>5. ASSUME NEW s \in DOMAIN roots, ReceiveMessage(s) PROVE CollectorInv'
    BY <1>0, <2>0, <2>5, ReceiveMessageStep
  <2>6. CASE SendHeapMessage
    BY Zenon, <1>0, <2>0, <2>6, SendHeapMessageStep
  <2>7. CASE StartFull
    BY Zenon, <1>0, <2>0, <2>7, StartFullStep
  <2>8. CASE StartMinor
    BY <1>0, <2>0, <2>8, StartMinorStep
  <2>9. ~SweepRoot /\ ~RootsSwept /\ ~SweepWord /\ ~SweepTenured /\ ~Finish
    BY Zenon, <1>1 DEF Running, SweepRoot, RootsSwept, SweepWord, SweepTenured, Finish, Scanning
  <2>. QED
    BY Zenon, <1>1, <2>1, <2>2, <2>3, <2>4, <2>5, <2>6, <2>7, <2>8, <2>9 DEF Next
<1>2. CASE ~Running /\ Next
  <2>1. \/ SweepRoot \/ RootsSwept \/ SweepWord \/ SweepTenured \/ Finish
    BY Zenon, <1>2 DEF Next, BuildCompound, BuildProcBin, BuildSlice, Assign, ReceiveMessage,
       SendHeapMessage, StartFull, StartMinor
  <2>2. panic = "none" /\ gc.phase # "idle"
    BY Zenon, <2>1 DEF SweepRoot, RootsSwept, SweepWord, SweepTenured, Finish, Scanning
  <2>3. GcInv
    BY Zenon, <2>2 DEF CollectorInv
  <2>. QED
    BY Zenon, <1>0, <2>1, <2>3, SweepRootStep, RootsSweptStep, SweepWordStep, SweepTenuredStep, FinishStep
<1>3. CASE UNCHANGED vars
  <2>1. /\ heap' = heap /\ young' = young /\ old' = old /\ high_water_mark' = high_water_mark
        /\ off_heap' = off_heap /\ roots' = roots /\ mailbox' = mailbox /\ gc' = gc
        /\ panic' = panic /\ fresh' = fresh
    BY Zenon, <1>3 DEF vars
  <2>2. CollectorTypes' /\ (IdleInv => IdleInv') /\ Frame' = Frame
    BY Zenon, <1>0, <2>1 DEF CollectorTypes, IdleInv, IdleHeaps, Frame
  <2>3. GcInv => GcInv'
    BY Zenon, <2>1, <2>2 DEF GcInv, GcHeaps
  <2>. QED
    BY Zenon, <2>1, <2>2, <2>3 DEF CollectorInv
<1>. QED
  BY Zenon, <1>1, <1>2, <1>3

(* The inductive invariant holds in every state: the words a process holds  *)
(* can be followed, the markers of a collection lead to the generation the  *)
(* object belongs to, and everything that is swept stays swept              *)
THEOREM CollectorInvariant == Spec => []CollectorInv
<1>1. Init => CollectorInv
  BY Zenon, CollectorInit
<1>2. CollectorInv /\ [Next]_vars => CollectorInv'
  BY Zenon, CollectorStep
<1>. QED
  BY <1>1, <1>2, PTL DEF Spec

(* Exactly what survived the collection before is tenured, whatever is      *)
(* built, whichever reference is swept first and however many collections   *)
(* there are (get_generation and the ReferenceCollection)                   *)
THEOREM SurvivorsAreTenured == Spec => []TenuredAreMature
<1>1. CollectorInv => TenuredAreMature
  <2>. SUFFICES ASSUME CollectorInv, gc.phase # "idle", ~gc.full,
                       NEW h \in {gc.source} \cup off_heap, NEW a \in Addresses(h),
                       Object(a).kind = "moved"
                PROVE  Object(a).to[1] = old <=> (h = gc.source /\ a[2] <= high_water_mark)
    BY Zenon DEF TenuredAreMature
  <2>1. CollectorTypes /\ GcInv
    BY Zenon DEF CollectorInv, CollectorTypes
  <2>2. GcHeaps /\ Marked(heap, Frame) /\ Sane(heap)
    BY Zenon, <2>1 DEF GcInv, GcSafe
  <2>3. Frame.old = old /\ Frame.source = gc.source /\ Frame.mark = high_water_mark /\ ~Frame.full
    BY Zenon, <2>1, <2>2, FrameFacts
  <2>4. h \in DOMAIN heap
    BY Zenon, <2>2 DEF GcHeaps, NoHeap
  <2>5. a[1] = h /\ a[2] \in 1..Len(heap[h])
    BY <2>2, <2>4, SeqLen DEF Addresses, Sane
  <2>. QED
    BY Zenon, <2>2, <2>3, <2>4, <2>5 DEF Marked, Object
<1>. QED
  BY <1>1, CollectorInvariant, PTL

-----------------------------------------------------------------------------
(* References: the objects, where every kind can be followed                *)
TraceInv ==
  panic = "none" =>
    IF gc.phase = "idle" THEN TracedIdle(heap, old) ELSE TracedGc(heap, Targets(Frame))

LEMMA LeavesTraced ==
  ASSUME GcInv, NEW left, Leaves(left), NEW to, TracedGc(heap, to)
  PROVE  TracedGc(left.heap, to)
<1>1. Sane(heap)
  BY Zenon DEF GcInv, GcSafe
<1>. QED
  BY Zenon, <1>1, MovesTraced DEF Leaves

LEMMA SweepWordTraced ==
  ASSUME CollectorTypes, GcInv, SweepWord, NEW to, TracedGc(heap, to)
  PROVE  TracedGc(heap', to) /\ Continued
<1>1. CASE HasElement
  <2>. DEFINE left == SweepTerm(Element)
  <2>1. Scanning /\ ~AtEnd /\ ElementSwept(left)
    BY Zenon, <1>1 DEF SweepWord, ElementSwept, HasElement, Element
  <2>. HIDE DEF left
  <2>2. Continued /\ Leaves(left) /\ Writes(left.heap, heap', Scanned, gc.at[1], gc.at[2], left.word)
    BY Zenon, <1>1, <2>1, SweepElement
  <2>3. TracedGc(left.heap, to)
    BY Zenon, <2>2, LeavesTraced
  <2>. QED
    BY <2>2, <2>3, WritesTraced
<1>2. CASE ~HasElement
  <2>1. Scanning /\ ~AtEnd /\ ObjectSkipped
    BY Zenon, <1>2 DEF SweepWord, ObjectSkipped, HasElement
  <2>2. Continued /\ heap' = heap
    BY Zenon, <1>2, <2>1, SkipObject DEF ObjectSkipped
  <2>. QED
    BY Zenon, <2>2
<1>. QED
  BY Zenon, <1>1, <1>2

LEMMA TraceStep ==
  ASSUME Traceable, CollectorInv, TraceInv, panic = "none", Next
  PROVE  TraceInv'
<1>0. CollectorTypes
  BY Zenon DEF CollectorInv
<1>1. CASE gc.phase = "idle"
  <2>1. IdleInv /\ TracedIdle(heap, old) /\ Sane(heap)
    BY Zenon, <1>1 DEF CollectorInv, TraceInv, IdleInv
  <2>2. CASE \/ \E s \in DOMAIN roots : BuildCompound(s) \/ BuildProcBin(s) \/ BuildSlice(s)
             \/ SendHeapMessage
    <3>1. PICK o, at : Builds(o, at)
      BY Zenon, <1>0, <2>1, <2>2, BuiltFacts
    <3>2. /\ Allocate(o, at) /\ old' = old /\ gc' = gc
          /\ Traced(o) /\ (o.kind = "heap_sub_binary" => Holds(heap, o))
      BY Zenon, <3>1 DEF Builds, Unmoved
    <3>3. /\ Adds(heap, heap', at, o) /\ (at[1] = young \/ at[1] = fresh)
      BY Zenon, <1>0, <2>1, <3>2, AllocateAdds
    <3>4. at[1] # old
      <4>1. IdleHeaps /\ fresh \in Nat /\ \A h \in DOMAIN heap : h < fresh
        BY Zenon, <1>0, <2>1 DEF IdleInv, CollectorTypes
      <4>. QED
        BY <3>3, <4>1 DEF IdleHeaps, NoHeap
    <3>5. TracedIdle(heap', old)
      BY Zenon, <2>1, <3>2, <3>3, <3>4, AddsTraced
    <3>. QED
      BY Zenon, <1>1, <3>2, <3>5 DEF TraceInv
  <2>3. CASE \E s \in DOMAIN roots : Assign(s) \/ ReceiveMessage(s)
    <3>1. heap' = heap /\ old' = old /\ gc' = gc
      BY Zenon, <2>3 DEF Assign, ReceiveMessage, Unmoved
    <3>. QED
      BY Zenon, <1>1, <2>1, <3>1 DEF TraceInv
  <2>4. CASE StartFull \/ StartMinor
    <3>1. PICK new : Starts(new)
      BY Zenon, <1>0, <2>1, <2>4, StartFullStep, StartMinorStep
    <3>2. TracedGc(heap', Targets(Frame'))
      BY Zenon, <2>1, <3>1, OpensTraced DEF Starts
    <3>. QED
      BY Zenon, <3>1, <3>2 DEF Starts, TraceInv
  <2>5. ~SweepRoot /\ ~RootsSwept /\ ~SweepWord /\ ~SweepTenured /\ ~Finish
    BY Zenon, <1>1 DEF SweepRoot, RootsSwept, SweepWord, SweepTenured, Finish, Scanning
  <2>. QED
    BY Zenon, <2>2, <2>3, <2>4, <2>5 DEF Next
<1>2. CASE gc.phase # "idle"
  <2>1. GcInv /\ TracedGc(heap, Targets(Frame))
    BY Zenon, <1>2 DEF CollectorInv, TraceInv
  <2>2. \/ SweepRoot \/ RootsSwept \/ SweepWord \/ SweepTenured \/ Finish
    BY Zenon, <1>2 DEF Next, BuildCompound, BuildProcBin, BuildSlice, Assign, ReceiveMessage,
       SendHeapMessage, StartFull, StartMinor, Running
  <2>3. CASE SweepRoot
    <3>1. Continued /\ Leaves(SweepTerm(roots[gc.at[1]]))
      BY Zenon, <1>0, <2>1, <2>3, SweepRootStep
    <3>2. heap' = SweepTerm(roots[gc.at[1]]).heap
      BY Zenon, <2>3 DEF SweepRoot
    <3>3. TracedGc(heap', Targets(Frame))
      BY Zenon, <2>1, <3>1, <3>2, LeavesTraced
    <3>. QED
      BY Zenon, <3>1, <3>3 DEF Continued, TraceInv
  <2>4. CASE SweepWord
    <3>1. TracedGc(heap', Targets(Frame)) /\ Continued
      BY Zenon, <1>0, <2>1, <2>4, SweepWordTraced
    <3>. QED
      BY Zenon, <3>1 DEF Continued, TraceInv
  <2>5. CASE RootsSwept \/ SweepTenured
    <3>1. Continued /\ heap' = heap
      BY Zenon, <1>0, <2>1, <2>5, RootsSweptStep, SweepTenuredStep DEF RootsSwept, SweepTenured
    <3>. QED
      BY Zenon, <2>1, <3>1 DEF Continued, TraceInv
  <2>6. CASE Finish
    <3>1. GcHeaps
      BY Zenon, <2>1 DEF GcInv
    <3>2. /\ heap' = [h \in DOMAIN heap \ Dropped |-> heap[h]] /\ gc' = Idle
      BY Zenon, <2>6 DEF Finish
    <3>3. DOMAIN heap \ Dropped = Targets(Frame) \ {NoHeap}
      BY Zenon, <1>0, <3>1, FinishHeaps
    <3>4. \A h \in DOMAIN heap' : h \in DOMAIN heap /\ heap'[h] = heap[h] /\ h \in Targets(Frame)
      BY Zenon, <3>2, <3>3
    <3>5. TracedIdle(heap', old')
      BY Zenon, <2>1, <3>4 DEF TracedGc, TracedIdle
    <3>. QED
      BY Zenon, <3>2, <3>5 DEF TraceInv, Idle
  <2>. QED
    BY Zenon, <2>2, <2>3, <2>4, <2>5, <2>6
<1>. QED
  BY Zenon, <1>1, <1>2

LEMMA PairReferences ==
  ASSUME NEW o \in Pair
  PROVE  \A b \in Range(o.elements) : \E j \in 1..2 : b = o.elements[j]
<1>1. o.elements \in Ref \X Ref
  BY Zenon DEF Pair
<1>. QED
  BY <1>1 DEF Range

(* What an object between two collections refers to                         *)
LEMMA TracedReferences ==
  ASSUME CollectorTypes, IdleInv, TracedIdle(heap, old), NEW h \in DOMAIN heap,
         NEW i \in 1..Len(heap[h]), NEW b \in References(<<h, i>>)
  PROVE  Live(heap, b) /\ (h = old => b[1] = old)
<1>1. Sane(heap) /\ Quiet(heap, young, old, high_water_mark)
  BY Zenon DEF IdleInv
<1>. DEFINE obj == heap[h][i]
<1>2. obj.kind # "moved" /\ b \in Range(obj.elements) /\ b # Constant
  BY Zenon, <1>1 DEF Quiet, References, Object
<1>3. Traced(obj) /\ (obj.kind = "heap_sub_binary" => h # old /\ Holds(heap, obj))
  BY Zenon DEF TracedIdle
<1>4. CASE obj.kind \in {"tuple", "cons"}
  <2>1. obj \in Pair /\ IsPair(heap, h, i)
    BY Zenon, <1>1, <1>4 DEF Sane, IsPair, IsPlace
  <2>2. PICK j \in 1..2 : b = obj.elements[j]
    BY Zenon, <1>2, <2>1, PairReferences
  <2>3. Fine(heap, b)
    BY Zenon, <1>1, <2>1, <2>2, SaneWord DEF Word
  <2>4. i \in Nat /\ j \in Nat
    OBVIOUS
  <2>5. h = old => b[1] = old
    BY Zenon, <1>1, <1>2, <2>1, <2>2, <2>4 DEF Quiet, Word
  <2>. QED
    BY Zenon, <1>2, <2>3, <2>5 DEF Fine
<1>5. CASE obj.kind \in {"procbin", "heapbin"}
  <2>1. obj.elements = <<>>
    BY Zenon, <1>3, <1>5 DEF Traced
  <2>. QED
    BY <1>2, <2>1 DEF Range
<1>6. CASE obj.kind = "heap_sub_binary"
  <2>1. obj.elements = <<obj.elements[1]>> /\ Live(heap, obj.elements[1]) /\ h # old
    BY Zenon, <1>3, <1>6 DEF Holds
  <2>2. b = obj.elements[1]
    BY <1>2, <2>1 DEF Range
  <2>. QED
    BY Zenon, <2>1, <2>2
<1>. QED
  BY Zenon, <1>2, <1>3, <1>4, <1>5, <1>6 DEF Traced

LEMMA TracedAreSound ==
  ASSUME CollectorInv, TraceInv
  PROVE  ReferencesAreSound
<1>1. CASE ~Running
  BY Zenon, <1>1 DEF ReferencesAreSound, NothingDangles, NeverBackwards
<1>2. CASE Running
  <2>1. CollectorTypes /\ IdleInv /\ TracedIdle(heap, old)
    BY Zenon, <1>2 DEF CollectorInv, TraceInv, Running
  <2>2. Generations \subseteq DOMAIN heap /\ \A h \in DOMAIN heap : DOMAIN heap[h] = 1..Len(heap[h])
    BY Zenon, <2>1, SeqLen DEF Generations, IdleInv, IdleHeaps, Sane
  <2>3. ASSUME NEW a \in Contents PROVE a = <<a[1], a[2]>> /\ a[1] \in DOMAIN heap /\ a[2] \in 1..Len(heap[a[1]])
    <3>1. PICK h \in Generations : a \in Addresses(h)
      BY Zenon DEF Contents
    <3>2. PICK i \in DOMAIN heap[h] : a = <<h, i>>
      BY Zenon, <3>1 DEF Addresses
    <3>. QED
      BY Zenon, <2>2, <3>2
  <2>4. \A a \in Contents : \A b \in References(a) : Live(heap, b)
    <3>. SUFFICES ASSUME NEW a \in Contents, NEW b \in References(a) PROVE Live(heap, b)
      BY Zenon
    <3>1. /\ a[1] \in DOMAIN heap /\ a[2] \in 1..Len(heap[a[1]]) /\ b \in References(<<a[1], a[2]>>)
      BY Zenon, <2>3
    <3>. QED
      BY Zenon, <2>1, <3>1, TracedReferences
  <2>5. NothingDangles
    BY Zenon, <2>4 DEF NothingDangles, IsLive, Live
  <2>6. NeverBackwards
    <3>. SUFFICES ASSUME old # NoHeap, NEW a \in Addresses(old), NEW b \in References(a)
                  PROVE  b[1] = old
      BY Zenon DEF NeverBackwards
    <3>1. PICK i \in DOMAIN heap[old] : a = <<old, i>>
      BY Zenon DEF Addresses
    <3>2. old \in DOMAIN heap
      BY Zenon, <2>2 DEF Generations
    <3>. QED
      BY Zenon, <2>1, <2>2, <3>1, <3>2, TracedReferences
  <2>. QED
    BY Zenon, <2>5, <2>6 DEF ReferencesAreSound
<1>. QED
  BY Zenon, <1>1, <1>2

LEMMA TraceNext ==
  ASSUME Traceable, CollectorInv, TraceInv, [Next]_vars
  PROVE  TraceInv'
<1>1. CASE panic = "none" /\ Next
  BY Zenon, <1>1, TraceStep
<1>2. CASE panic # "none" /\ Next
  BY Zenon, <1>2 DEF Next, BuildCompound, BuildProcBin, BuildSlice, Assign, ReceiveMessage,
     SendHeapMessage, StartFull, StartMinor, Running, SweepRoot, RootsSwept, SweepWord,
     SweepTenured, Finish, Scanning
<1>3. CASE UNCHANGED vars
  <2>1. heap' = heap /\ old' = old /\ gc' = gc /\ panic' = panic /\ Frame' = Frame
    BY Zenon, <1>3 DEF vars, Frame
  <2>. QED
    BY Zenon, <2>1 DEF TraceInv
<1>. QED
  BY Zenon, <1>1, <1>2, <1>3

(* Where the process builds no maps, match contexts or large sub-binaries,  *)
(* what a collection leaves can be followed, and no word of the old         *)
(* generation leads out of it, whatever is built and swept in which order   *)
(* (sweep_term, the ReferenceCollection and the drop of the old heaps)      *)
THEOREM TracedReferencesAreSound == Spec /\ Traceable => []ReferencesAreSound
<1>1. Init => TraceInv
  <2>. SUFFICES ASSUME Init PROVE TracedIdle(heap, old) /\ gc.phase = "idle"
    BY Zenon DEF TraceInv
  <2>1. DOMAIN heap = {1} /\ heap[1] = <<>> /\ gc = Idle
    BY Zenon DEF Init
  <2>2. Len(heap[1]) = 0
    BY <2>1
  <2>. QED
    BY <2>1, <2>2 DEF TracedIdle, Idle
<1>2. Traceable /\ CollectorInv /\ TraceInv /\ [Next]_vars => TraceInv'
  BY Zenon, TraceNext
<1>3. Spec /\ Traceable => []TraceInv
  <2>1. Traceable => []Traceable
    BY Zenon
  <2>. QED
    BY <1>1, <1>2, <2>1, CollectorInvariant, PTL DEF Spec
<1>4. CollectorInv /\ TraceInv => ReferencesAreSound
  BY Zenon, TracedAreSound
<1>. QED
  BY <1>3, <1>4, CollectorInvariant, PTL
=============================================================================
