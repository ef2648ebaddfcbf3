--------------------------- MODULE CollectorCounts ---------------------------
(* The reference counts of the binaries of a process, for any number of     *)
(* roots, objects, messages and collections.                                *)
EXTENDS CollectorProofs, FiniteSetTheorems

-----------------------------------------------------------------------------
(* Reference counts: the links to the ProcBins of a binary                  *)
LinksOf(H, L, n) == {a \in AllLinks(L) : H[a[1]][a[2]].bin = n}

BinaryRecord == [refc : Int, managed : BOOLEAN]

(* No binary is counted more than once, and one that is counted has a link, *)
(* if it ever had one                                                       *)
LinkedIfCounted(H, L, record, n) ==
  record.refc <= 1 /\ (record.managed /\ record.refc > 0 => LinksOf(H, L, n) # {})

(* Every link leads to a ProcBin                                            *)
Counts(H, L, R) ==
  /\ IsFiniteSet(AllLinks(L)) /\ \A a \in AllLinks(L) : IsProcBin(H, a)
  /\ \A n \in DOMAIN R : LinkedIfCounted(H, L, R[n], n)

LEMMA SubsetCount ==
  ASSUME NEW T, IsFiniteSet(T), NEW S, S \subseteq T
  PROVE  IsFiniteSet(S) /\ Cardinality(S) \in Nat
  BY Zenon, FS_Subset, FS_CardinalityType

(* More links, to ProcBins that stay as they are                            *)
LEMMA MoreLinks ==
  ASSUME NEW H, NEW K, NEW L, NEW M, AllLinks(L) \subseteq AllLinks(M),
         Keeps(H, K), \A a \in AllLinks(L) : IsProcBin(H, a), NEW n, NEW record,
         LinkedIfCounted(H, L, record, n)
  PROVE  LinkedIfCounted(K, M, record, n)
<1>1. ASSUME NEW a \in LinksOf(H, L, n) PROVE a \in LinksOf(K, M, n)
  <2>1. K[a[1]][a[2]] = H[a[1]][a[2]]
    BY Zenon DEF LinksOf, Keeps
  <2>. QED
    BY Zenon, <2>1 DEF LinksOf
<1>. QED
  BY Zenon, <1>1 DEF LinkedIfCounted

LEMMA CountsKept ==
  ASSUME NEW H, NEW K, NEW L, NEW M, NEW R, Counts(H, L, R), Keeps(H, K),
         AllLinks(M) = AllLinks(L)
  PROVE  Counts(K, M, R)
<1>1. /\ IsFiniteSet(AllLinks(M)) /\ \A a \in AllLinks(M) : IsProcBin(K, a)
      /\ \A a \in AllLinks(L) : IsProcBin(H, a)
  BY Zenon DEF Counts, Keeps
<1>2. ASSUME NEW n \in DOMAIN R PROVE LinkedIfCounted(K, M, R[n], n)
  BY Zenon, <1>1, MoreLinks DEF Counts
<1>. QED
  BY Zenon, <1>1, <1>2 DEF Counts

LEMMA CountsMoved ==
  ASSUME NEW H, NEW K, NEW L, NEW M, NEW R, Counts(H, L, R), Keeps(H, K),
         NEW v, NEW a, NEW d, Relinks(L, M, v, a, d),
         IsProcBin(K, d), K[d[1]][d[2]] = H[a[1]][a[2]]
  PROVE  Counts(K, M, R)
<1>1. /\ IsFiniteSet(AllLinks(L)) /\ \A x \in AllLinks(L) : IsProcBin(H, x)
      /\ AllLinks(M) \subseteq AllLinks(L) \cup {d} /\ d \in AllLinks(M)
      /\ AllLinks(L) \ {a} \subseteq AllLinks(M)
  BY Zenon, RelinksAll DEF Counts
<1>2. \A x \in AllLinks(M) : IsProcBin(K, x)
  BY Zenon, <1>1 DEF Keeps
<1>3. IsFiniteSet(AllLinks(M))
  BY Zenon, <1>1, FS_AddElement, SubsetCount
<1>4. ASSUME NEW n \in DOMAIN R PROVE LinkedIfCounted(K, M, R[n], n)
  <2>1. ASSUME NEW x \in LinksOf(H, L, n) PROVE LinksOf(K, M, n) # {}
    <3>1. CASE x = a
      <4>1. d \in LinksOf(K, M, n)
        BY Zenon, <1>1, <2>1, <3>1 DEF LinksOf
      <4>. QED
        BY Zenon, <4>1
    <3>2. CASE x # a
      <4>1. K[x[1]][x[2]] = H[x[1]][x[2]]
        BY Zenon, <1>1, <2>1 DEF LinksOf, Keeps
      <4>2. x \in LinksOf(K, M, n)
        BY Zenon, <1>1, <2>1, <3>2, <4>1 DEF LinksOf
      <4>. QED
        BY Zenon, <4>2
    <3>. QED
      BY Zenon, <3>1, <3>2
  <2>2. LinkedIfCounted(H, L, R[n], n)
    BY Zenon DEF Counts
  <2>. QED
    BY Zenon, <2>1, <2>2 DEF LinkedIfCounted
<1>. QED
  BY Zenon, <1>2, <1>3, <1>4 DEF Counts

(* A new binary, whose ProcBin is linked if it is managed                   *)
LEMMA CountsAdded ==
  ASSUME NEW H, NEW K, NEW L, NEW M, NEW R \in Seq(BinaryRecord), Counts(H, L, R), Keeps(H, K),
         NEW new \in BinaryRecord, new.refc = 1, AllLinks(L) \subseteq AllLinks(M),
         IsFiniteSet(AllLinks(M)), \A a \in AllLinks(M) : IsProcBin(K, a),
         new.managed => LinksOf(K, M, Len(R) + 1) # {}
  PROVE  Counts(K, M, Append(R, new)) /\ Append(R, new) \in Seq(BinaryRecord)
<1>1. /\ DOMAIN Append(R, new) = DOMAIN R \cup {Len(R) + 1}
      /\ Append(R, new)[Len(R) + 1] = new
      /\ \A n \in DOMAIN R : Append(R, new)[n] = R[n]
      /\ Append(R, new) \in Seq(BinaryRecord)
  BY SMT
<1>2. ASSUME NEW n \in DOMAIN R PROVE LinkedIfCounted(K, M, R[n], n)
  BY Zenon, MoreLinks DEF Counts
<1>3. LinkedIfCounted(K, M, new, Len(R) + 1)
  <2>1. new.refc <= 1
    BY SMT
  <2>. QED
    BY Zenon, <2>1 DEF LinkedIfCounted
<1>. QED
  BY Zenon, <1>1, <1>2, <1>3 DEF Counts

LEMMA RecordSeq ==
  ASSUME NEW k \in Nat, NEW Q, Q = [n \in 1..k |-> Q[n]], \A n \in 1..k : Q[n] \in BinaryRecord
  PROVE  Q \in Seq(BinaryRecord)
<1>1. Q \in [1..k -> BinaryRecord]
  BY Zenon
<1>. QED
  BY <1>1

(* The links of the heaps given back are released, and with the fragments   *)
(* some binaries more; what is linked in the other heaps is managed         *)
LinksIn(H, D, n) == {x \in D : H[x[1]][x[2]].bin = n}

Discounts(Q, R, H, D, E, times) ==
  Q = [n \in DOMAIN R |->
         Counted(Decremented(R[n].refc, Cardinality(LinksIn(H, D, n)) + times[n]),
                 R[n].managed \/ LinksIn(H, E, n) # {})]

Splits(H, K, L, M, D) ==
  /\ D \subseteq AllLinks(L) /\ AllLinks(M) \subseteq AllLinks(L)
  /\ AllLinks(L) \subseteq D \cup AllLinks(M)
  /\ \A x \in AllLinks(M) : IsProcBin(K, x) /\ K[x[1]][x[2]] = H[x[1]][x[2]]

(* A count that is positive afterwards had no release                       *)
LEMMA NoRelease ==
  ASSUME NEW c \in Int, c <= 1, NEW k \in Nat
  PROVE  /\ Decremented(c, k) \in Int /\ Decremented(c, k) <= 1
         /\ Decremented(c, k) > 0 => k = 0 /\ c > 0
  BY DEF Decremented

LEMMA CountsClosed ==
  ASSUME NEW H, NEW K, NEW L, NEW M, NEW R \in Seq(BinaryRecord), Counts(H, L, R), NEW D, NEW Q,
         NEW times, \A n \in DOMAIN R : times[n] \in Nat,
         Splits(H, K, L, M, D), Discounts(Q, R, H, D, AllLinks(M), times)
  PROVE  Counts(K, M, Q) /\ Q \in Seq(BinaryRecord)
<1>. USE DEF Splits
<1>1. IsFiniteSet(AllLinks(L)) /\ IsFiniteSet(AllLinks(M)) /\ IsFiniteSet(D)
  BY Zenon, SubsetCount DEF Counts
<1>2. ASSUME NEW n \in DOMAIN R PROVE Q[n] \in BinaryRecord /\ LinkedIfCounted(K, M, Q[n], n)
  <2>. DEFINE U == LinksIn(H, D, n)
              k == Cardinality(U) + times[n]
              c == R[n].refc
              m == R[n].managed \/ LinksIn(H, AllLinks(M), n) # {}
  <2>1. /\ R[n] \in BinaryRecord /\ R[n].refc \in Int /\ R[n].managed \in BOOLEAN
    <3>1. R[n] \in BinaryRecord
      OBVIOUS
    <3>. QED
      BY <3>1 DEF BinaryRecord
  <2>2. LinkedIfCounted(H, L, R[n], n)
    BY Zenon DEF Counts
  <2>3. IsFiniteSet(U) /\ Cardinality(U) \in Nat
    <3>1. U \subseteq D
      BY Zenon DEF LinksIn
    <3>. QED
      BY Zenon, <1>1, <3>1, SubsetCount
  <2>4. Q[n] = Counted(Decremented(c, k), m)
    BY Zenon DEF Discounts
  <2>5. times[n] \in Nat
    OBVIOUS
  <2>6. ASSUME Decremented(c, k) > 0, R[n].managed PROVE LinksOf(K, M, n) # {}
    <3>1. k \in Nat
      BY <2>3, <2>5
    <3>2. c \in Int /\ c <= 1
      BY Zenon, <2>1, <2>2 DEF LinkedIfCounted
    <3>. HIDE DEF k, c
    <3>3. k = 0 /\ c > 0
      BY Zenon, <2>6, <3>1, <3>2, NoRelease
    <3>4. Cardinality(U) = 0
      BY <2>3, <2>5, <3>3 DEF k
    <3>5. U = {}
      BY Zenon, <2>3, <3>4, FS_EmptySet
    <3>6. PICK x : x \in LinksOf(H, L, n)
      BY Zenon, <2>2, <2>6, <3>3 DEF LinkedIfCounted, c
    <3>7. x \in AllLinks(L) /\ H[x[1]][x[2]].bin = n
      BY Zenon, <3>6 DEF LinksOf
    <3>8. x \in AllLinks(M)
      BY Zenon, <3>5, <3>7 DEF LinksIn
    <3>9. x \in LinksOf(K, M, n)
      BY Zenon, <3>7, <3>8 DEF LinksOf
    <3>. QED
      BY Zenon, <3>9
  <2>7. ASSUME NEW x \in LinksIn(H, AllLinks(M), n) PROVE LinksOf(K, M, n) # {}
    <3>1. x \in LinksOf(K, M, n)
      BY Zenon, <2>7 DEF LinksIn, LinksOf
    <3>. QED
      BY Zenon, <3>1
  <2>8. m \in BOOLEAN /\ (m /\ Decremented(c, k) > 0 => LinksOf(K, M, n) # {})
    BY Zenon, <2>1, <2>6, <2>7
  <2>9. Decremented(c, k) \in Int /\ Decremented(c, k) <= 1
    <3>1. k \in Nat
      BY <2>3, <2>5
    <3>2. c \in Int /\ c <= 1
      BY Zenon, <2>1, <2>2 DEF LinkedIfCounted
    <3>. HIDE DEF k, c
    <3>. QED
      BY Zenon, <3>1, <3>2, NoRelease
  <2>. HIDE DEF m, k, c
  <2>10. Q[n].refc = Decremented(c, k) /\ Q[n].managed = m /\ Q[n] \in BinaryRecord
    BY <2>4, <2>8, <2>9 DEF Counted, BinaryRecord
  <2>. QED
    BY Zenon, <2>8, <2>9, <2>10 DEF LinkedIfCounted
<1>3. Q \in Seq(BinaryRecord)
  <2>1. DOMAIN R = 1..Len(R) /\ Len(R) \in Nat
    OBVIOUS
  <2>2. Q = [n \in 1..Len(R) |-> Q[n]]
    BY Zenon, <2>1 DEF Discounts
  <2>. QED
    BY Zenon, <1>2, <2>1, <2>2, RecordSeq
<1>4. DOMAIN Q = DOMAIN R
  BY Zenon DEF Discounts
<1>. QED
  BY Zenon, <1>1, <1>2, <1>3, <1>4 DEF Counts

(* The links of a fragment are none, those of the old generation lead into  *)
(* it, and during a collection those of the target lead to what is kept     *)
Held(H, L, R, off, o) ==
  /\ DOMAIN L = DOMAIN H /\ R \in Seq(BinaryRecord) /\ Counts(H, L, R)
  /\ \A h \in off : L[h] = {}
  /\ o # NoHeap => \A a \in L[o] : a[1] = o

Aims(L, c) == \A a \in L[c.target] : a[1] \in Targets(c)

CountInv ==
  panic = "none" =>
    Held(heap, linked, binaries, off_heap, old) /\ (gc.phase # "idle" => Aims(linked, Frame))

(* Heaps that are new have no links                                         *)
Widens(L, M, new) ==
  /\ DOMAIN M = DOMAIN L \cup new /\ AllLinks(M) = AllLinks(L)
  /\ \A h \in DOMAIN L : M[h] = L[h]
  /\ \A h \in new : M[h] = {}

LEMMA WithLinks ==
  ASSUME NEW L, NEW new, new \cap DOMAIN L = {}
  PROVE  Widens(L, With(L, new, {}), new)
<1>. DEFINE M == With(L, new, {})
<1>1. /\ DOMAIN M = DOMAIN L \cup new /\ \A h \in DOMAIN L : M[h] = L[h]
      /\ \A h \in new : M[h] = {}
  BY Zenon DEF With
<1>2. ASSUME NEW x PROVE x \in AllLinks(M) <=> x \in AllLinks(L)
  BY <1>1 DEF AllLinks
<1>. HIDE DEF M
<1>3. Widens(L, M, new)
  BY Zenon, <1>1, <1>2 DEF Widens
<1>. QED
  BY Zenon, <1>3 DEF M

LEMMA BuildsCounted ==
  ASSUME CollectorTypes, IdleInv, Held(heap, linked, binaries, off_heap, old), NEW o, NEW at, Builds(o, at)
  PROVE  Held(heap', linked', binaries', off_heap', old')
<1>1. /\ IdleHeaps /\ Sane(heap) /\ fresh \in Nat /\ \A h \in DOMAIN heap : h < fresh
  BY Zenon DEF IdleInv, CollectorTypes
<1>2. Allocate(o, at) /\ old' = old
  BY Zenon DEF Builds, Unmoved
<1>3. Adds(heap, heap', at, o) /\ (at[1] = young \/ at[1] = fresh)
  BY Zenon, <1>2, AllocateAdds
<1>4. Keeps(heap, heap') /\ DOMAIN heap' = DOMAIN heap \cup {at[1]}
  <2>1. Keeps(heap, heap')
    BY Zenon, <1>1, <1>3, AddsKeeps
  <2>. QED
    BY Zenon, <1>3, <2>1 DEF Adds
<1>5. /\ DOMAIN linked = DOMAIN heap /\ binaries \in Seq(BinaryRecord) /\ Counts(heap, linked, binaries)
      /\ \A h \in off_heap : linked[h] = {}
      /\ old # NoHeap => \A a \in linked[old] : a[1] = old
  BY Zenon DEF Held
<1>6. /\ young \in DOMAIN heap /\ (old # NoHeap => old \in DOMAIN heap /\ old # young)
      /\ off_heap \subseteq DOMAIN heap /\ young \notin off_heap /\ fresh \notin DOMAIN heap
  BY <1>1 DEF IdleHeaps, NoHeap
<1>7. CASE o.kind = "procbin" /\ at[1] = young
  <2>1. /\ linked' = [linked EXCEPT ![young] = @ \cup {at}] /\ off_heap' = off_heap
        /\ binaries' = Append(binaries, Counted(1, TRUE)) /\ o.bin = Len(binaries) + 1
    <3>1. at # <<fresh, 1>>
      BY <1>6, <1>7
    <3>2. at[1] = young <=> TRUE
      BY Zenon, <1>7
    <3>. QED
      BY Zenon, <1>2, <1>7, <3>1, <3>2 DEF Allocate, Builds
  <2>2. /\ DOMAIN linked' = DOMAIN linked /\ linked'[young] = linked[young] \cup {at}
        /\ \A h \in DOMAIN linked : h # young => linked'[h] = linked[h]
    BY Zenon, <1>5, <1>6, <2>1
  <2>3. ASSUME NEW x PROVE x \in AllLinks(linked') <=> x \in AllLinks(linked) \cup {at}
    BY <1>5, <1>6, <2>2 DEF AllLinks
  <2>4. AllLinks(linked') = AllLinks(linked) \cup {at}
    BY Zenon, <2>3
  <2>5. IsProcBin(heap', at) /\ heap'[at[1]][at[2]].bin = Len(binaries) + 1
    <3>1. heap'[at[1]][at[2]] = o /\ at \in Addr /\ at[1] \in DOMAIN heap' /\ Len(heap'[at[1]]) = at[2]
      BY Zenon, <1>3 DEF Adds
    <3>2. at[2] <= Len(heap'[at[1]])
      BY <3>1 DEF Addr
    <3>. QED
      BY Zenon, <1>7, <2>1, <3>1, <3>2 DEF IsProcBin, Live
  <2>6. Counts(heap', linked', binaries') /\ binaries' \in Seq(BinaryRecord)
    <3>1. Counted(1, TRUE) \in BinaryRecord /\ Counted(1, TRUE).refc = 1
      BY DEF Counted, BinaryRecord
    <3>2. IsFiniteSet(AllLinks(linked')) /\ AllLinks(linked) \subseteq AllLinks(linked')
      BY Zenon, <1>5, <2>4, FS_AddElement DEF Counts
    <3>3. \A a \in AllLinks(linked') : IsProcBin(heap', a)
      BY Zenon, <1>4, <1>5, <2>4, <2>5 DEF Counts, Keeps
    <3>4. LinksOf(heap', linked', Len(binaries) + 1) # {}
      <4>1. at \in LinksOf(heap', linked', Len(binaries) + 1)
        BY Zenon, <2>4, <2>5 DEF LinksOf
      <4>. QED
        BY Zenon, <4>1
    <3>. QED
      BY Zenon, <1>4, <1>5, <2>1, <3>1, <3>2, <3>3, <3>4, CountsAdded
  <2>7. DOMAIN linked' = DOMAIN heap'
    <3>1. at[1] \in DOMAIN heap
      BY Zenon, <1>6, <1>7
    <3>. QED
      BY Zenon, <1>4, <1>5, <2>2, <3>1
  <2>. QED
    BY Zenon, <1>2, <1>5, <1>6, <2>1, <2>2, <2>6, <2>7 DEF Held
<1>8. CASE o.kind # "procbin" /\ at[1] = young
  <2>1. linked' = linked /\ off_heap' = off_heap /\ binaries' = binaries
    <3>1. at # <<fresh, 1>>
      BY <1>6, <1>8
    <3>. QED
      BY Zenon, <1>2, <1>8, <3>1 DEF Allocate, Builds
  <2>2. Counts(heap', linked', binaries')
    BY Zenon, <1>4, <1>5, <2>1, CountsKept
  <2>3. DOMAIN heap' = DOMAIN heap
    BY Zenon, <1>4, <1>6, <1>8
  <2>. QED
    BY Zenon, <1>2, <1>5, <2>1, <2>2, <2>3 DEF Held
<1>9. CASE at[1] = fresh
  <2>1. /\ linked' = With(linked, {fresh}, {}) /\ off_heap' = off_heap \cup {fresh}
        /\ \/ binaries' = binaries
           \/ binaries' = Append(binaries, Counted(1, FALSE))
    <3>1. at # <<young, Len(heap[young]) + 1>>
      BY <1>6, <1>9
    <3>2. at[1] = young <=> FALSE
      BY <1>6, <1>9
    <3>. QED
      BY Zenon, <1>2, <1>9, <3>1, <3>2 DEF Allocate, Builds
  <2>. DEFINE new == {fresh}
  <2>2. new \cap DOMAIN linked = {} /\ linked' = With(linked, new, {})
    BY Zenon, <1>5, <1>6, <2>1
  <2>. HIDE DEF new
  <2>3. /\ DOMAIN linked' = DOMAIN linked \cup new /\ AllLinks(linked') = AllLinks(linked)
        /\ \A h \in DOMAIN linked : linked'[h] = linked[h]
        /\ \A h \in new : linked'[h] = {}
    <3>1. Widens(linked, With(linked, new, {}), new)
      BY Zenon, <2>2, WithLinks
    <3>2. Widens(linked, linked', new)
      BY Zenon, <2>2, <3>1
    <3>. QED
      BY Zenon, <3>2 DEF Widens
  <2>4. Counts(heap', linked', binaries') /\ binaries' \in Seq(BinaryRecord)
    <3>1. Counts(heap', linked', binaries)
      BY Zenon, <1>4, <1>5, <2>3, CountsKept
    <3>2. CASE binaries' = Append(binaries, Counted(1, FALSE))
      <4>1. /\ Counted(1, FALSE) \in BinaryRecord /\ Counted(1, FALSE).refc = 1
            /\ ~Counted(1, FALSE).managed
        BY DEF Counted, BinaryRecord
      <4>2. /\ IsFiniteSet(AllLinks(linked')) /\ AllLinks(linked) \subseteq AllLinks(linked')
            /\ \A a \in AllLinks(linked') : IsProcBin(heap', a)
        BY Zenon, <2>3, <3>1 DEF Counts
      <4>. QED
        BY Zenon, <1>4, <1>5, <3>2, <4>1, <4>2, CountsAdded
    <3>. QED
      BY Zenon, <1>5, <2>1, <3>1, <3>2
  <2>5. DOMAIN linked' = DOMAIN heap'
    BY Zenon, <1>4, <1>5, <1>9, <2>3 DEF new
  <2>. QED
    BY Zenon, <1>2, <1>5, <1>6, <2>1, <2>3, <2>4, <2>5 DEF Held, new
<1>. QED
  BY Zenon, <1>3, <1>7, <1>8, <1>9

LEMMA StartsCounted ==
  ASSUME CollectorTypes, IdleInv, Held(heap, linked, binaries, off_heap, old), NEW new, Starts(new)
  PROVE  Held(heap', linked', binaries', off_heap', old') /\ Aims(linked', Frame')
<1>1. /\ IdleHeaps /\ Sane(heap)
  BY Zenon DEF IdleInv
<1>2. /\ DOMAIN linked = DOMAIN heap /\ binaries \in Seq(BinaryRecord) /\ Counts(heap, linked, binaries)
      /\ \A h \in off_heap : linked[h] = {}
      /\ old # NoHeap => \A a \in linked[old] : a[1] = old
  BY Zenon DEF Held
<1>3. /\ Opens(heap, heap', new) /\ linked' = With(linked, new, {}) /\ Frame'.target \in new
      /\ (old' = old \/ old' \in new) /\ off_heap' = off_heap /\ binaries' = binaries
  BY Zenon DEF Starts, Frame
<1>4. DOMAIN heap' = DOMAIN heap \cup new /\ new \cap DOMAIN heap = {}
  BY Zenon, <1>3 DEF Opens
<1>5. Keeps(heap, heap')
  BY Zenon, <1>1, <1>3, OpensKeeps
<1>6. Widens(linked, linked', new)
  <2>1. Widens(linked, With(linked, new, {}), new)
    BY Zenon, <1>2, <1>4, WithLinks
  <2>. QED
    BY Zenon, <1>3, <2>1
<1>7. /\ DOMAIN linked' = DOMAIN linked \cup new /\ AllLinks(linked') = AllLinks(linked)
      /\ \A h \in DOMAIN linked : linked'[h] = linked[h]
      /\ \A h \in new : linked'[h] = {}
  BY Zenon, <1>6 DEF Widens
<1>8. Counts(heap', linked', binaries')
  BY Zenon, <1>2, <1>3, <1>5, <1>7, CountsKept
<1>9. /\ off_heap \subseteq DOMAIN linked /\ (old # NoHeap => old \in DOMAIN linked)
  BY Zenon, <1>1, <1>2 DEF IdleHeaps
<1>10. \A h \in off_heap' : linked'[h] = {}
  BY Zenon, <1>2, <1>3, <1>7, <1>9
<1>11. old' # NoHeap => \A a \in linked'[old'] : a[1] = old'
  <2>1. CASE old' = old
    BY Zenon, <1>2, <1>7, <1>9, <2>1
  <2>2. CASE old' \in new
    BY Zenon, <1>7, <2>2
  <2>. QED
    BY Zenon, <1>3, <2>1, <2>2
<1>12. Aims(linked', Frame')
  BY Zenon, <1>3, <1>7 DEF Aims
<1>. QED
  BY Zenon, <1>2, <1>3, <1>4, <1>7, <1>8, <1>10, <1>11, <1>12 DEF Held

LEMMA LeavesCounted ==
  ASSUME CollectorTypes, GcInv, gc.phase # "idle", Held(heap, linked, binaries, off_heap, old),
         Aims(linked, Frame), NEW left, Leaves(left)
  PROVE  Held(left.heap, left.linked, binaries, off_heap, old) /\ Aims(left.linked, Frame)
<1>1. GcHeaps /\ Sane(heap) /\ Scans(heap, Frame, gc.phase, gc.at)
  BY Zenon DEF GcInv, GcSafe
<1>2. Frame.target = gc.target /\ Frame.old = old
  BY Zenon, <1>1, FrameFacts
<1>3. /\ DOMAIN linked = DOMAIN heap /\ binaries \in Seq(BinaryRecord) /\ Counts(heap, linked, binaries)
      /\ \A h \in off_heap : linked[h] = {}
      /\ old # NoHeap => \A a \in linked[old] : a[1] = old
  BY Zenon DEF Held
<1>4. CASE left.heap = heap /\ left.linked = linked
  BY Zenon, <1>4
<1>5. ASSUME NEW a \in Addr, NEW d \in Addr, Moves(heap, left.heap, a, d), Links(left.linked, a, d),
             Fits(heap, Frame, gc.phase, gc.at, a, d)
      PROVE  Held(left.heap, left.linked, binaries, off_heap, old) /\ Aims(left.linked, Frame)
  <2>. DEFINE K == left.heap
              M == left.linked
  <2>1. Keeps(heap, K) /\ Live(K, d)
    BY Zenon, <1>1, <1>5, MovesKeeps, MovesLive
  <2>2. DOMAIN K = DOMAIN heap
    BY Zenon, <1>5 DEF Moves
  <2>3. CASE heap[a[1]][a[2]].kind # "procbin"
    <3>1. M = linked
      BY Zenon, <1>5, <2>3 DEF Links
    <3>2. Counts(K, linked, binaries)
      BY Zenon, <1>3, <2>1, CountsKept
    <3>3. Held(K, linked, binaries, off_heap, old)
      BY Zenon, <1>3, <2>2, <3>2 DEF Held
    <3>. QED
      BY Zenon, <3>1, <3>3
  <2>4. CASE heap[a[1]][a[2]].kind = "procbin"
    <3>. DEFINE v == VirtualTarget
    <3>1. M = Relinked(a, d)
      BY Zenon, <1>5, <2>4 DEF Links
    <3>2. /\ v \in DOMAIN linked /\ v \notin off_heap
          /\ v = old => d[1] = old
      <4>1. CASE gc.phase = "tenured"
        <5>1. v = old /\ old # NoHeap /\ d[1] = old
          BY Zenon, <1>1, <1>2, <1>5, <4>1 DEF VirtualTarget, Scans, Fits
        <5>. QED
          BY Zenon, <1>1, <1>3, <5>1 DEF GcHeaps
      <4>2. CASE gc.phase # "tenured"
        <5>1. v = gc.target
          BY Zenon, <4>2 DEF VirtualTarget
        <5>. QED
          BY Zenon, <1>1, <1>3, <5>1 DEF GcHeaps, NoHeap
      <4>. QED
        BY Zenon, <4>1, <4>2
    <3>. HIDE DEF v, K, M
    <3>3. Relinks(linked, M, v, a, d)
      <4>1. Relinks(linked, Relinked(a, d), v, a, d)
        BY Zenon, <3>2, RelinkedRelinks DEF v
      <4>. QED
        BY Zenon, <3>1, <4>1
    <3>4. K[d[1]][d[2]] = heap[a[1]][a[2]]
      BY Zenon, <1>5, <2>4 DEF Moves, K
    <3>5. IsProcBin(K, d)
      BY Zenon, <2>1, <2>4, <3>4 DEF IsProcBin, K
    <3>6. Counts(K, M, binaries)
      <4>1. Keeps(heap, K)
        BY Zenon, <2>1 DEF K
      <4>. QED
        BY Zenon, <1>3, <4>1, <3>3, <3>4, <3>5, CountsMoved
    <3>7. /\ DOMAIN M = DOMAIN linked
          /\ \A h \in DOMAIN linked : \A x \in M[h] : x \in linked[h] \/ (h = v /\ x = d)
      BY Zenon, <3>3 DEF Relinks
    <3>8. ASSUME NEW h \in off_heap PROVE M[h] = {}
      <4>1. h \in DOMAIN linked /\ h # v /\ linked[h] = {}
        BY Zenon, <1>1, <1>3, <3>2 DEF GcHeaps
      <4>. QED
        BY Zenon, <3>7, <4>1
    <3>9. ASSUME old # NoHeap, NEW x \in M[old] PROVE x[1] = old
      <4>1. old \in DOMAIN linked
        BY Zenon, <1>1, <1>3, <3>9 DEF GcHeaps
      <4>. QED
        BY Zenon, <1>3, <3>2, <3>7, <3>9, <4>1
    <3>10. ASSUME NEW x \in M[gc.target] PROVE x[1] \in Targets(Frame)
      <4>1. gc.target \in DOMAIN linked
        BY Zenon, <1>1, <1>3 DEF GcHeaps, NoHeap
      <4>2. \A y \in linked[gc.target] : y[1] \in Targets(Frame)
        BY Zenon, <1>2 DEF Aims
      <4>3. d[1] \in Targets(Frame)
        BY Zenon, <1>5 DEF Fits
      <4>. QED
        BY Zenon, <3>7, <4>1, <4>2, <4>3
    <3>11. Held(K, M, binaries, off_heap, old)
      BY Zenon, <1>3, <2>2, <3>6, <3>7, <3>8, <3>9 DEF Held, K
    <3>12. Aims(M, Frame)
      BY Zenon, <1>2, <3>10 DEF Aims
    <3>. QED
      BY Zenon, <3>11, <3>12 DEF K, M
  <2>. QED
    BY Zenon, <2>3, <2>4
<1>. QED
  BY Zenon, <1>4, <1>5 DEF Leaves

LEMMA SweepWordCounted ==
  ASSUME CollectorTypes, GcInv, gc.phase # "idle", Held(heap, linked, binaries, off_heap, old),
         Aims(linked, Frame), SweepWord
  PROVE  Held(heap', linked', binaries, off_heap, old) /\ Aims(linked', Frame) /\ Continued
<1>1. CASE HasElement
  <2>. DEFINE left == SweepTerm(Element)
  <2>1. Scanning /\ ~AtEnd /\ ElementSwept(left)
    BY Zenon, <1>1 DEF SweepWord, ElementSwept, HasElement, Element
  <2>. HIDE DEF left
  <2>2. Continued /\ Leaves(left) /\ Writes(left.heap, heap', Scanned, gc.at[1], gc.at[2], left.word)
    BY Zenon, <1>1, <2>1, SweepElement
  <2>3. Held(left.heap, left.linked, binaries, off_heap, old) /\ Aims(left.linked, Frame)
    BY Zenon, <2>2, LeavesCounted
  <2>4. linked' = left.linked
    BY Zenon, <2>1 DEF ElementSwept
  <2>5. Sane(left.heap)
    BY Zenon, <2>2, LeavesSafe DEF GcSafe
  <2>6. Keeps(left.heap, heap')
    BY Zenon, <2>2, <2>5, WritesKeeps
  <2>7. /\ DOMAIN heap' = DOMAIN left.heap
        /\ DOMAIN left.linked = DOMAIN left.heap /\ binaries \in Seq(BinaryRecord)
        /\ Counts(left.heap, left.linked, binaries)
    BY Zenon, <2>2, <2>3 DEF Held, Writes
  <2>8. Counts(heap', left.linked, binaries)
    BY Zenon, <2>6, <2>7, CountsKept
  <2>9. Held(heap', left.linked, binaries, off_heap, old)
    BY Zenon, <2>3, <2>7, <2>8 DEF Held
  <2>. QED
    BY Zenon, <2>2, <2>3, <2>4, <2>9
<1>2. CASE ~HasElement
  <2>1. Scanning /\ ~AtEnd /\ ObjectSkipped
    BY Zenon, <1>2 DEF SweepWord, ObjectSkipped, HasElement
  <2>2. Continued /\ heap' = heap /\ linked' = linked
    BY Zenon, <1>2, <2>1, SkipObject DEF ObjectSkipped
  <2>. QED
    BY Zenon, <2>2
<1>. QED
  BY Zenon, <1>1, <1>2

LEMMA ReleasesAreNat ==
  ASSUME NEW times \in Releases
  PROVE  \A n \in DOMAIN binaries : times[n] \in Nat
<1>1. PICK most : times \in [DOMAIN binaries -> 0..most]
  BY Zenon DEF Releases
<1>. QED
  BY <1>1

LEMMA FinishCounted ==
  ASSUME CollectorTypes, GcInv, Held(heap, linked, binaries, off_heap, old), Aims(linked, Frame), Finish
  PROVE  Held(heap', linked', binaries', off_heap', old')
<1>1. GcHeaps /\ Sane(heap) /\ gc.full \in BOOLEAN
  BY Zenon DEF GcInv, GcSafe, CollectorTypes, GcRecord
<1>2. /\ DOMAIN linked = DOMAIN heap /\ binaries \in Seq(BinaryRecord) /\ Counts(heap, linked, binaries)
      /\ old # NoHeap => \A a \in linked[old] : a[1] = old
  BY Zenon DEF Held
<1>. DEFINE kept == DOMAIN heap \ Dropped
            D == UNION {linked[h] : h \in Dropped}
            E == UNION {linked[h] : h \in kept}
<1>3. /\ heap' = [h \in kept |-> heap[h]] /\ linked' = [h \in kept |-> linked[h]]
      /\ off_heap' = {} /\ old' = (IF gc.full THEN NoHeap ELSE old)
  BY Zenon DEF Finish
<1>4. PICK times \in Releases : Discounts(binaries', binaries, heap, D, E, times)
  BY Zenon DEF Finish, Object, Discounts, LinksIn
<1>5. \A n \in DOMAIN binaries : times[n] \in Nat
  BY <1>4, Zenon, ReleasesAreNat
<1>6. /\ kept = Targets(Frame) \ {NoHeap}
      /\ gc.full => Targets(Frame) = {gc.target}
      /\ ~gc.full => Targets(Frame) = {gc.target, old}
      /\ Frame.target = gc.target
  BY Zenon, <1>1, FinishHeaps, FrameTargets, FrameFacts
<1>7. Dropped \subseteq DOMAIN linked
  <2>1. DOMAIN linked = ({gc.source, gc.target, old} \ {NoHeap}) \cup off_heap
    BY Zenon, <1>1, <1>2 DEF GcHeaps
  <2>2. Dropped \subseteq {gc.source} \cup off_heap \cup ({old} \ {NoHeap})
    BY Zenon, <1>1 DEF Dropped
  <2>. QED
    BY Zenon, <1>1, <2>1, <2>2 DEF GcHeaps, NoHeap
<1>8. kept \subseteq DOMAIN linked /\ DOMAIN linked = kept \cup Dropped
  BY Zenon, <1>2, <1>7
<1>. HIDE DEF kept
<1>9. /\ DOMAIN linked' = kept /\ DOMAIN heap' = kept
      /\ \A h \in kept : linked'[h] = linked[h] /\ heap'[h] = heap[h]
  BY Zenon, <1>3
<1>10. ASSUME NEW x PROVE x \in AllLinks(linked') <=> \E h \in kept : x \in linked[h]
  BY Zenon, <1>9 DEF AllLinks
<1>11. AllLinks(linked') = E
  BY Zenon, <1>10
<1>12. AllLinks(linked') \subseteq AllLinks(linked)
  BY Zenon, <1>8, <1>10 DEF AllLinks
<1>13. D \subseteq AllLinks(linked)
  BY Zenon, <1>7 DEF AllLinks
<1>14. AllLinks(linked) \subseteq D \cup AllLinks(linked')
  <2>. SUFFICES ASSUME NEW x \in AllLinks(linked), x \notin AllLinks(linked') PROVE x \in D
    BY Zenon
  <2>1. PICK h \in DOMAIN linked : x \in linked[h]
    BY Zenon DEF AllLinks
  <2>2. h \in Dropped
    BY Zenon, <1>8, <1>10, <2>1
  <2>. QED
    BY Zenon, <2>1, <2>2
<1>. HIDE DEF D, E
<1>15. ASSUME NEW x \in AllLinks(linked')
       PROVE  IsProcBin(heap', x) /\ heap'[x[1]][x[2]] = heap[x[1]][x[2]]
  <2>1. PICK h \in kept : x \in linked[h]
    BY Zenon, <1>10
  <2>2. x[1] \in Targets(Frame)
    <3>1. CASE h = gc.target
      BY Zenon, <1>6, <2>1, <3>1 DEF Aims
    <3>2. CASE h = old /\ old # NoHeap /\ old \in Targets(Frame)
      BY Zenon, <1>2, <2>1, <3>2
    <3>. QED
      BY Zenon, <1>1, <1>6, <2>1, <3>1, <3>2
  <2>3. IsProcBin(heap, x) /\ Live(heap, x)
    BY Zenon, <1>2, <1>12 DEF Counts, IsProcBin
  <2>4. x[1] \in kept
    BY Zenon, <1>6, <2>2, <2>3 DEF Live, Addr, NoHeap
  <2>5. heap'[x[1]] = heap[x[1]]
    BY Zenon, <1>9, <2>4
  <2>. QED
    BY Zenon, <1>9, <2>3, <2>4, <2>5 DEF IsProcBin, Live
<1>16. Counts(heap', linked', binaries') /\ binaries' \in Seq(BinaryRecord)
  <2>1. Splits(heap, heap', linked, linked', D)
    BY Zenon, <1>12, <1>13, <1>14, <1>15 DEF Splits
  <2>2. Discounts(binaries', binaries, heap, D, AllLinks(linked'), times)
    BY Zenon, <1>4, <1>11
  <2>. QED
    BY Zenon, <1>2, <1>5, <2>1, <2>2, CountsClosed
<1>17. old' # NoHeap => \A a \in linked'[old'] : a[1] = old'
  <2>. SUFFICES ASSUME old' # NoHeap PROVE \A a \in linked'[old'] : a[1] = old'
    BY Zenon
  <2>1. old' = old /\ ~gc.full
    BY Zenon, <1>1, <1>3
  <2>2. old \in kept
    BY Zenon, <1>6, <2>1
  <2>. QED
    BY Zenon, <1>2, <1>9, <2>1, <2>2
<1>. QED
  BY Zenon, <1>3, <1>9, <1>16, <1>17 DEF Held

LEMMA CountStep ==
  ASSUME CollectorInv, CountInv, panic = "none", Next
  PROVE  CountInv'
<1>0. CollectorTypes /\ Held(heap, linked, binaries, off_heap, old)
  BY Zenon DEF CollectorInv, CountInv
<1>1. CASE gc.phase = "idle"
  <2>1. IdleInv
    BY Zenon, <1>1 DEF CollectorInv
  <2>2. CASE \/ \E s \in DOMAIN roots : BuildCompound(s) \/ BuildProcBin(s) \/ BuildSlice(s)
             \/ SendHeapMessage
    <3>1. PICK o, at : Builds(o, at)
      BY Zenon, <1>0, <2>1, <2>2, BuiltFacts
    <3>2. Held(heap', linked', binaries', off_heap', old')
      BY Zenon, <1>0, <2>1, <3>1, BuildsCounted
    <3>3. gc' = gc
      BY Zenon, <3>1 DEF Builds, Unmoved
    <3>. QED
      BY Zenon, <1>1, <3>2, <3>3 DEF CountInv
  <2>3. CASE \E s \in DOMAIN roots : Assign(s) \/ ReceiveMessage(s)
    <3>1. /\ heap' = heap /\ linked' = linked /\ binaries' = binaries /\ off_heap' = off_heap
          /\ old' = old /\ gc' = gc
      BY Zenon, <2>3 DEF Assign, ReceiveMessage, Unmoved
    <3>2. Held(heap', linked', binaries', off_heap', old')
      BY Zenon, <1>0, <3>1
    <3>. QED
      BY Zenon, <1>1, <3>1, <3>2 DEF CountInv
  <2>4. CASE StartFull \/ StartMinor
    <3>1. PICK new : Starts(new)
      BY Zenon, <1>0, <2>1, <2>4, StartFullStep, StartMinorStep
    <3>2. Held(heap', linked', binaries', off_heap', old') /\ Aims(linked', Frame')
      BY Zenon, <1>0, <2>1, <3>1, StartsCounted
    <3>. QED
      BY Zenon, <3>2 DEF CountInv
  <2>5. ~SweepRoot /\ ~RootsSwept /\ ~SweepWord /\ ~SweepTenured /\ ~Finish
    BY Zenon, <1>1 DEF SweepRoot, RootsSwept, SweepWord, SweepTenured, Finish, Scanning
  <2>. QED
    BY Zenon, <2>2, <2>3, <2>4, <2>5 DEF Next
<1>2. CASE gc.phase # "idle"
  <2>1. GcInv /\ Aims(linked, Frame)
    BY Zenon, <1>2 DEF CollectorInv, CountInv
  <2>2. \/ SweepRoot \/ RootsSwept \/ SweepWord \/ SweepTenured \/ Finish
    BY Zenon, <1>2 DEF Next, BuildCompound, BuildProcBin, BuildSlice, Assign, ReceiveMessage,
       SendHeapMessage, StartFull, StartMinor, Running
  <2>3. ASSUME Held(heap', linked', binaries, off_heap, old), Aims(linked', Frame), Continued
        PROVE  CountInv'
    <3>1. binaries' = binaries /\ off_heap' = off_heap /\ old' = old /\ Frame' = Frame
      BY Zenon, <2>3 DEF Continued
    <3>2. Held(heap', linked', binaries', off_heap', old') /\ Aims(linked', Frame')
      BY Zenon, <2>3, <3>1
    <3>. QED
      BY Zenon, <3>2 DEF CountInv
  <2>4. CASE SweepRoot
    <3>. DEFINE left == SweepTerm(roots[gc.at[1]])
    <3>1. heap' = left.heap /\ linked' = left.linked
      BY Zenon, <2>4 DEF SweepRoot
    <3>2. Continued /\ Leaves(left)
      BY Zenon, <1>0, <2>1, <2>4, SweepRootStep
    <3>. HIDE DEF left
    <3>3. Held(left.heap, left.linked, binaries, off_heap, old) /\ Aims(left.linked, Frame)
      BY Zenon, <1>0, <1>2, <2>1, <3>2, LeavesCounted
    <3>4. Held(heap', linked', binaries, off_heap, old) /\ Aims(linked', Frame)
      BY Zenon, <3>1, <3>3
    <3>. QED
      BY Zenon, <2>3, <3>2, <3>4
  <2>5. CASE SweepWord
    BY Zenon, <1>0, <1>2, <2>1, <2>3, <2>5, SweepWordCounted
  <2>6. CASE RootsSwept \/ SweepTenured
    <3>1. Continued /\ heap' = heap /\ linked' = linked
      BY Zenon, <1>0, <2>1, <2>6, RootsSweptStep, SweepTenuredStep DEF RootsSwept, SweepTenured
    <3>2. Held(heap', linked', binaries, off_heap, old) /\ Aims(linked', Frame)
      BY Zenon, <1>0, <2>1, <3>1
    <3>. QED
      BY Zenon, <2>3, <3>1, <3>2
  <2>7. CASE Finish
    <3>1. Held(heap', linked', binaries', off_heap', old')
      BY Zenon, <1>0, <2>1, <2>7, FinishCounted
    <3>2. gc'.phase = "idle"
      BY Zenon, <2>7 DEF Finish, Idle
    <3>. QED
      BY Zenon, <3>1, <3>2 DEF CountInv
  <2>. QED
    BY Zenon, <2>2, <2>4, <2>5, <2>6, <2>7
<1>. QED
  BY Zenon, <1>1, <1>2

(* A managed binary that is counted has a link, in a heap that is no        *)
(* fragment                                                                 *)
LEMMA CountedHasLink ==
  ASSUME CollectorInv, CountInv
  PROVE  CountedAreLinked
<1>. SUFFICES ASSUME Running, NEW n \in DOMAIN binaries, binaries[n].managed, binaries[n].refc > 0
              PROVE  \E h \in Generations : \E a \in linked[h] : Object(a).bin = n
  BY Zenon DEF CountedAreLinked, IsLinked
<1>1. IdleHeaps /\ Held(heap, linked, binaries, off_heap, old)
  BY Zenon DEF CollectorInv, CountInv, IdleInv, Running
<1>2. /\ DOMAIN linked = DOMAIN heap /\ binaries \in Seq(BinaryRecord) /\ Counts(heap, linked, binaries)
      /\ \A h \in off_heap : linked[h] = {}
  BY Zenon, <1>1 DEF Held
<1>3. LinksOf(heap, linked, n) # {}
  BY Zenon, <1>2 DEF Counts, LinkedIfCounted
<1>4. PICK a \in AllLinks(linked) : heap[a[1]][a[2]].bin = n
  BY Zenon, <1>3 DEF LinksOf
<1>5. PICK h \in DOMAIN linked : a \in linked[h]
  BY Zenon DEF AllLinks
<1>6. h \in Generations
  BY Zenon, <1>1, <1>2, <1>5 DEF Generations, IdleHeaps
<1>. QED
  BY Zenon, <1>4, <1>5, <1>6 DEF Object

LEMMA CountNext ==
  ASSUME CollectorInv, CountInv, [Next]_vars
  PROVE  CountInv'
<1>1. CASE panic = "none" /\ Next
  BY Zenon, <1>1, CountStep
<1>2. CASE panic # "none" /\ Next
  BY Zenon, <1>2 DEF Next, BuildCompound, BuildProcBin, BuildSlice, Assign, ReceiveMessage,
     SendHeapMessage, StartFull, StartMinor, Running, SweepRoot, RootsSwept, SweepWord,
     SweepTenured, Finish, Scanning
<1>3. CASE UNCHANGED vars
  <2>1. /\ heap' = heap /\ linked' = linked /\ binaries' = binaries /\ off_heap' = off_heap
        /\ old' = old /\ gc' = gc /\ panic' = panic /\ Frame' = Frame
    BY Zenon, <1>3 DEF vars, Frame
  <2>. QED
    BY Zenon, <2>1 DEF CountInv
<1>. QED
  BY Zenon, <1>1, <1>2, <1>3

LEMMA CountInit ==
  ASSUME Init
  PROVE  CountInv
<1>1. /\ DOMAIN heap = {1} /\ linked = [h \in {1} |-> {}] /\ binaries = <<>> /\ off_heap = {}
      /\ old = NoHeap /\ gc.phase = "idle"
  BY Zenon DEF Init, Idle
<1>2. AllLinks(linked) = {} /\ DOMAIN linked = {1}
  BY Zenon, <1>1 DEF AllLinks
<1>3. binaries \in Seq(BinaryRecord) /\ DOMAIN binaries = {}
  BY <1>1
<1>4. Counts(heap, linked, binaries)
  BY Zenon, <1>2, <1>3, FS_EmptySet DEF Counts
<1>. QED
  BY Zenon, <1>1, <1>2, <1>3, <1>4 DEF CountInv, Held

(* Whatever is built, dropped and moved, and however often a ProcBin is     *)
(* copied for want of a marker, a binary that was linked to a virtual heap  *)
(* once and was not released since is linked to that of a generation        *)
(* (virtual_unlink, virtual_alloc and the drop of a virtual heap).  Nothing *)
(* is said of a binary built in a fragment and never moved.                 *)
THEOREM CountedBinariesAreLinked == Spec => []CountedAreLinked
<1>1. Init => CountInv
  BY CountInit
<1>2. CollectorInv /\ CountInv /\ [Next]_vars => CountInv'
  BY Zenon, CountNext
<1>3. CollectorInv /\ CountInv => CountedAreLinked
  BY CountedHasLink
<1>. QED
  BY <1>1, <1>2, <1>3, CollectorInvariant, PTL DEF Spec

=============================================================================
