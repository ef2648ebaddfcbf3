------------------------- MODULE BlockCarrierProofs -------------------------
(***************************************************************************)
(* Proofs about the carrier of mixed sizes, for any word size, carrier     *)
(* size and layouts.                                                       *)
(***************************************************************************)
EXTENDS BlockCarrier, FiniteSetTheorems, TLAPS

(***************************************************************************)
(* The inductive invariant                                                 *)
(***************************************************************************)
Header == [size : Nat, free : BOOLEAN, prev_free : BOOLEAN, last : BOOLEAN]

\* The blocks of h follow each other from the first address to the end.
Tiles(h) ==
    /\ h \in [DOMAIN h -> Header] /\ DOMAIN h \subseteq Nat /\ Head \in DOMAIN h
    /\ \A b \in DOMAIN h :
          /\ Head <= b /\ h[b].size >= MinBlockSize /\ End(h, b) <= Size
          /\ h[b].last <=> End(h, b) = Size
          /\ ~h[b].last => End(h, b) \in DOMAIN h
          /\ b # Head => \E a \in DOMAIN h : End(h, a) = b
    /\ \A a, b \in DOMAIN h : a < b => End(h, a) <= b

Flags(h) ==
    /\ ~h[Head].prev_free
    /\ \A a, b \in DOMAIN h : End(h, a) = b => (h[b].prev_free <=> h[a].free)

Sound(h, t) == Tiles(h) /\ Flags(h) /\ \A b \in t : b \in DOMAIN h /\ h[b].free

Held == [ptr : Nat, size : Nat \ {0}]

\* The data of l lies in the allocated block b.
Placed(h, b, l) ==
    b \in DOMAIN h /\ ~h[b].free /\ Data(b) <= l.ptr /\ l.ptr + l.size <= End(h, b)

\* What callers hold lies in allocated blocks, each in its own.
Lives(h, L) ==
    /\ \A l \in L : l \in Held /\ \E b \in DOMAIN h : Placed(h, b, l)
    /\ \A b \in DOMAIN h : \A l, k \in L : Placed(h, b, l) /\ Placed(h, b, k) => l = k

\* Nothing is said of the data once a piece has grown past the end of its block.
Intact == fault = "none" \/ ~Outgrows

CarrierInv == Sound(blk, tree) /\ (Intact => Lives(blk, live))

(***************************************************************************)
(* Numbers                                                                 *)
(***************************************************************************)
LEMMA WordFacts ==
    /\ Word \in Nat /\ Word > 0 /\ Head \in Nat /\ Size \in Nat
    /\ MinBlockSize \in Nat /\ MinBlockSize > 0 /\ Head + Word + MinBlockSize <= Size
  BY CarrierAssumption DEF MinBlockSize

LEMMA SmallestAddress ==
    ASSUME NEW S \in SUBSET Nat, S # {}
    PROVE  Min(S) \in S /\ \A m \in S : Min(S) <= m
  <1>1. PICK n \in S : \A m \in S : ~(<<m, n>> \in OpToRel(<, Nat))
    BY Zenon, NatLessThanWellFounded, WFMin
  <1>2. \A m \in S : n <= m
    <2> TAKE m \in S
    <2>1. ~(m < n)
      BY Zenon, <1>1 DEF OpToRel
    <2> QED BY <2>1
  <1> QED BY Zenon, <1>2 DEF Min

LEMMA LargestAddress ==
    ASSUME NEW S \in SUBSET Nat, S # {}, NEW n \in Nat, \A m \in S : m <= n
    PROVE  Max(S) \in S /\ \A m \in S : m <= Max(S)
  <1> DEFINE T == {k \in Nat : n - k \in S}
  <1>1. PICK s \in S : TRUE
    BY Zenon
  <1>2. s \in Nat /\ s <= n /\ n - s \in Nat /\ n - (n - s) = s
    BY <1>1
  <1>3. T \in SUBSET Nat /\ n - s \in T
    BY Zenon, <1>1, <1>2
  <1>4. Min(T) \in T /\ \A m \in T : Min(T) <= m
    BY Zenon, <1>3, SmallestAddress
  <1>5. PICK k \in T : \A m \in T : k <= m
    BY Zenon, <1>4
  <1>6. ASSUME NEW m \in S PROVE m <= n - k
    <2>1. n - m \in Nat /\ n - (n - m) = m
      OBVIOUS
    <2>2. k <= n - m
      BY Zenon, <1>5, <2>1
    <2> QED BY <1>5, <2>2
  <1> QED BY Zenon, <1>5, <1>6 DEF Max

LEMMA AlignedUp ==
    ASSUME NEW p \in Nat, NEW a \in Nat \ {0}
    PROVE  AlignUp(p, a) \in Nat /\ AlignUp(p, a) >= p
  <1> DEFINE n == p + a - 1
             q == n \div a
  <1>1. n \in Nat
    OBVIOUS
  <1>2. q \in Nat /\ n % a \in 0..a - 1 /\ n = q * a + (n % a)
    <2> HIDE DEF n
    <2> QED BY <1>1
  <1>3. q * a \in Nat
    <2> HIDE DEF q
    <2> QED BY <1>2
  <1>4. q * a >= p
    <2> HIDE DEF q
    <2> QED BY <1>2, <1>3
  <1> QED BY Zenon, <1>3, <1>4 DEF AlignUp

LEMMA EndFacts ==
    ASSUME NEW h, Tiles(h), NEW b \in DOMAIN h
    PROVE  /\ b \in Nat /\ h[b] \in Header /\ h[b].size \in Nat /\ End(h, b) \in Nat
           /\ End(h, b) = b + Word + h[b].size /\ Data(b) = b + Word /\ b + Word < End(h, b)
  BY WordFacts DEF Tiles, Header, End, Data

LEMMA SameEnd ==
    ASSUME NEW h, Tiles(h), NEW a \in DOMAIN h, NEW b \in DOMAIN h, End(h, a) = End(h, b)
    PROVE  a = b
  <1>1. /\ a < b => End(h, a) <= b
        /\ b < a => End(h, b) <= a
    BY Zenon DEF Tiles
  <1> QED BY <1>1, EndFacts, WordFacts

\* Data lies in one block.
LEMMA OneBlock ==
    ASSUME NEW h, Tiles(h), NEW b \in DOMAIN h, NEW c \in DOMAIN h, NEW p \in Nat,
           Data(b) <= p, p <= End(h, b), Data(c) <= p, p <= End(h, c)
    PROVE  b = c
  <1>1. ~(b < c) /\ ~(c < b)
    BY WordFacts, EndFacts DEF Tiles
  <1> QED BY <1>1, EndFacts

\* The block that owns a pointer to data is the one it lies in.
LEMMA OwnerFound ==
    ASSUME Tiles(blk), NEW l \in Held, NEW b \in DOMAIN blk,
           Placed(blk, b, l)
    PROVE  Owner(l.ptr) = b
  <1> DEFINE S == {c \in DOMAIN blk : Owns(blk, c, l.ptr)}
  <1>1. b \in S
    BY EndFacts, WordFacts DEF Placed, Owns, Held
  <1>2. \A c \in S : b <= c
    <2> SUFFICES ASSUME NEW c \in S, c < b PROVE FALSE
      BY EndFacts
    <2>1. End(blk, c) <= b
      BY Zenon DEF Tiles
    <2> QED BY <2>1, EndFacts, WordFacts DEF Placed, Owns, Held
  <1>3. S \in SUBSET Nat /\ S # {}
    BY Zenon, <1>1 DEF Tiles
  <1>4. Min(S) \in S /\ \A m \in S : Min(S) <= m
    BY Zenon, <1>3, SmallestAddress
  <1>5. Min(S) = b
    BY <1>1, <1>2, <1>3, <1>4
  <1> QED BY Zenon, <1>5 DEF Owner

(***************************************************************************)
(* A block is allocated whole, or freed: its flag and that of the next     *)
(***************************************************************************)
Flagged(h, b, free) == FlagNext([h EXCEPT ![b].free = free], b, free)

LEMMA FlaggedFacts ==
    ASSUME NEW h, Tiles(h), NEW b \in DOMAIN h, NEW free \in BOOLEAN
    PROVE  /\ Flagged(h, b, free) \in [DOMAIN h -> Header]
           /\ \A c \in DOMAIN h :
                 /\ Flagged(h, b, free)[c].size = h[c].size
                 /\ (Flagged(h, b, free)[c].last <=> h[c].last)
                 /\ (Flagged(h, b, free)[c].free <=> IF c = b THEN free ELSE h[c].free)
                 /\ (Flagged(h, b, free)[c].prev_free <=> IF c = End(h, b) THEN free ELSE h[c].prev_free)
  <1> DEFINE g == [h EXCEPT ![b].free = free]
             e == End(h, b)
  <1>0. h \in [DOMAIN h -> Header] /\ h[b] \in Header /\ e \in Nat /\ b < e
    BY EndFacts, WordFacts DEF Tiles
  <1>1. g \in [DOMAIN h -> Header] /\ (g[b].last <=> h[b].last) /\ End(g, b) = e
    BY Zenon, <1>0 DEF Header, End
  <1>2. \A c \in DOMAIN h : /\ g[c].size = h[c].size /\ (g[c].last <=> h[c].last)
                            /\ (g[c].free <=> IF c = b THEN free ELSE h[c].free)
                            /\ (g[c].prev_free <=> h[c].prev_free)
    BY Zenon, <1>0 DEF Header
  <1>3. CASE h[b].last
    <2>1. Flagged(h, b, free) = g
      BY Zenon, <1>1, <1>3 DEF Flagged, FlagNext, HasNext
    <2>2. e \notin DOMAIN h
      BY <1>3, EndFacts, WordFacts DEF Tiles
    <2> QED BY Zenon, <1>1, <1>2, <2>1, <2>2
  <1>4. CASE ~h[b].last
    <2> DEFINE f == [g EXCEPT ![e].prev_free = free]
    <2>1. Flagged(h, b, free) = f
      BY Zenon, <1>1, <1>4 DEF Flagged, FlagNext, HasNext, NextBlock, SetPrevFree
    <2>2. e \in DOMAIN h
      BY Zenon, <1>4 DEF Tiles
    <2>3. /\ f \in [DOMAIN h -> Header]
          /\ \A c \in DOMAIN h : /\ f[c].size = g[c].size /\ (f[c].last <=> g[c].last) /\ (f[c].free <=> g[c].free)
                                 /\ (f[c].prev_free <=> IF c = e THEN free ELSE g[c].prev_free)
      <3> HIDE DEF g, e
      <3> QED BY Zenon, <1>1, <2>2 DEF Header
    <2> QED BY Zenon, <1>2, <2>1, <2>3
  <1> QED BY Zenon, <1>3, <1>4

LEMMA FlaggedSound ==
    ASSUME NEW h, Tiles(h), Flags(h), NEW b \in DOMAIN h, NEW free \in BOOLEAN
    PROVE  Tiles(Flagged(h, b, free)) /\ Flags(Flagged(h, b, free))
  <1> DEFINE g == Flagged(h, b, free)
  <1>1. /\ g \in [DOMAIN h -> Header] /\ DOMAIN g = DOMAIN h
        /\ \A c \in DOMAIN h :
                 /\ g[c].size = h[c].size /\ (g[c].last <=> h[c].last)
                 /\ (g[c].free <=> IF c = b THEN free ELSE h[c].free)
                 /\ (g[c].prev_free <=> IF c = End(h, b) THEN free ELSE h[c].prev_free)
    BY FlaggedFacts
  <1> HIDE DEF g
  <1>2. \A c \in DOMAIN h : End(g, c) = End(h, c)
    BY Zenon, <1>1 DEF End
  <1>3. Tiles(g)
    BY Zenon, <1>1, <1>2 DEF Tiles
  <1>4. \A a \in DOMAIN h : End(h, a) = End(h, b) => a = b
    BY Zenon, SameEnd
  <1>5. Head # End(h, b) /\ Head \in DOMAIN h
    BY EndFacts, WordFacts DEF Tiles
  <1>6. Flags(g)
    BY Zenon, <1>1, <1>2, <1>4, <1>5 DEF Flags
  <1> QED BY Zenon, <1>3, <1>6 DEF g

(***************************************************************************)
(* A block is cut: what is needed, and a free block behind it              *)
(***************************************************************************)
Cut(h, b, size) ==
    WithBlock([[h EXCEPT ![b].free = FALSE] EXCEPT ![b].size = size, ![b].last = FALSE],
              Data(b) + size,
              [size |-> h[b].size - size - Word, free |-> TRUE, prev_free |-> FALSE, last |-> h[b].last])

LEMMA CutFacts ==
    ASSUME NEW h, Tiles(h), NEW b \in DOMAIN h, NEW size \in Nat, size >= MinBlockSize,
           h[b].size - size - Word >= MinBlockSize
    PROVE  LET g == Cut(h, b, size)
               s == b + Word + size
           IN  /\ s \in Nat /\ s \notin DOMAIN h /\ b < s /\ s < End(h, b)
               /\ DOMAIN g = DOMAIN h \cup {s} /\ g \in [DOMAIN g -> Header]
               /\ g[s] = [size |-> h[b].size - size - Word, free |-> TRUE, prev_free |-> FALSE,
                          last |-> h[b].last]
               /\ g[b] = [size |-> size, free |-> FALSE, prev_free |-> h[b].prev_free, last |-> FALSE]
               /\ \A c \in DOMAIN h \ {b} : g[c] = h[c]
  <1> DEFINE s == b + Word + size
             new == [size |-> h[b].size - size - Word, free |-> TRUE, prev_free |-> FALSE, last |-> h[b].last]
             f == [[h EXCEPT ![b].free = FALSE] EXCEPT ![b].size = size, ![b].last = FALSE]
  <1>0. h \in [DOMAIN h -> Header] /\ h[b] \in Header
    BY Zenon DEF Tiles
  <1>1. s \in Nat /\ b < s /\ s < End(h, b)
    BY EndFacts, WordFacts
  <1>2. s \notin DOMAIN h
    BY <1>1, EndFacts, WordFacts DEF Tiles
  <1>3. new \in Header
    BY <1>0, WordFacts DEF Header
  <1>4. /\ f \in [DOMAIN h -> Header] /\ \A c \in DOMAIN h \ {b} : f[c] = h[c]
        /\ f[b] = [size |-> size, free |-> FALSE, prev_free |-> h[b].prev_free, last |-> FALSE]
    BY Zenon, <1>0 DEF Header
  <1>5. Cut(h, b, size) = WithBlock(f, s, new)
    BY Zenon DEF Cut, Data
  <1>6. Cut(h, b, size) = [a \in DOMAIN h \cup {s} |-> IF a = s THEN new ELSE f[a]]
    <2> HIDE DEF f, s, new
    <2> QED BY Zenon, <1>4, <1>5 DEF WithBlock
  <1> HIDE DEF f
  <1> QED BY Zenon, <1>1, <1>2, <1>3, <1>4, <1>6

LEMMA CutSound ==
    ASSUME NEW h, Tiles(h), Flags(h), NEW b \in DOMAIN h, h[b].free,
           NEW size \in Nat, size >= MinBlockSize, h[b].size - size - Word >= MinBlockSize
    PROVE  Tiles(Cut(h, b, size)) /\ Flags(Cut(h, b, size))
  <1> DEFINE g == Cut(h, b, size)
             s == b + Word + size
  <1>1. /\ s \in Nat /\ s \notin DOMAIN h /\ b < s /\ s < End(h, b)
        /\ DOMAIN g = DOMAIN h \cup {s} /\ g \in [DOMAIN g -> Header]
        /\ g[s] = [size |-> h[b].size - size - Word, free |-> TRUE, prev_free |-> FALSE, last |-> h[b].last]
        /\ g[b] = [size |-> size, free |-> FALSE, prev_free |-> h[b].prev_free, last |-> FALSE]
        /\ \A c \in DOMAIN h \ {b} : g[c] = h[c]
    BY CutFacts
  <1>2. End(g, b) = s /\ End(g, s) = End(h, b) /\ \A c \in DOMAIN h \ {b} : End(g, c) = End(h, c)
    BY <1>1, EndFacts, WordFacts DEF End, Data
  <1>3. DOMAIN g \subseteq Nat /\ Head \in DOMAIN g /\ Head \in DOMAIN h
    BY Zenon, <1>1 DEF Tiles
  <1> HIDE DEF g, s
  <1>4. ASSUME NEW c \in DOMAIN g
        PROVE  /\ Head <= c /\ g[c].size >= MinBlockSize /\ End(g, c) <= Size
               /\ g[c].last <=> End(g, c) = Size
               /\ ~g[c].last => End(g, c) \in DOMAIN g
    <2>1. CASE c = s
      <3>1. Head <= b /\ End(h, b) <= Size /\ (h[b].last <=> End(h, b) = Size) /\ (~h[b].last => End(h, b) \in DOMAIN h)
        BY Zenon DEF Tiles
      <3> QED BY <1>1, <1>2, <2>1, <3>1, EndFacts, WordFacts
    <2>2. CASE c = b
      <3>1. Head <= b /\ End(h, b) <= Size
        BY Zenon DEF Tiles
      <3> QED BY <1>1, <1>2, <2>2, <3>1, EndFacts, WordFacts
    <2>3. CASE c \in DOMAIN h \ {b}
      BY Zenon, <1>1, <1>2, <2>3 DEF Tiles
    <2> QED BY Zenon, <1>1, <2>1, <2>2, <2>3
  <1>5. ASSUME NEW c \in DOMAIN g, c # Head PROVE \E a \in DOMAIN g : End(g, a) = c
    <2>1. CASE c = s
      BY Zenon, <1>1, <1>2, <2>1
    <2>2. CASE c \in DOMAIN h
      <3>1. PICK a \in DOMAIN h : End(h, a) = c
        BY Zenon, <1>5, <2>2 DEF Tiles
      <3> QED BY Zenon, <1>1, <1>2, <3>1
    <2> QED BY Zenon, <1>1, <2>1, <2>2
  <1>6. ASSUME NEW a \in DOMAIN g, NEW c \in DOMAIN g, a < c PROVE End(g, a) <= c
    <2>1. \A x, y \in DOMAIN h : x < y => End(h, x) <= y
      BY Zenon DEF Tiles
    <2>2. b \in Nat /\ End(h, b) \in Nat /\ (a \in DOMAIN h => a \in Nat /\ End(h, a) \in Nat)
      BY Zenon, EndFacts
    <2>3. c \in Nat
      BY Zenon, <1>3
    <2>4. CASE a = s
      <3>1. c \in DOMAIN h /\ b < c
        BY <1>1, <1>6, <2>2, <2>3, <2>4
      <3> QED BY Zenon, <1>2, <2>1, <2>4, <3>1
    <2>5. CASE a = b
      <3>1. c = s \/ End(h, b) <= c
        BY Zenon, <1>1, <1>6, <2>1, <2>5
      <3> QED BY <1>1, <1>2, <2>2, <2>3, <2>5, <3>1
    <2>6. CASE a \in DOMAIN h \ {b}
      <3>1. CASE c = s
        <4>1. a < b
          BY <1>1, <1>6, <2>1, <2>2, <2>6, <3>1
        <4> QED BY <1>1, <1>2, <2>1, <2>2, <2>6, <3>1, <4>1
      <3>2. CASE c \in DOMAIN h
        BY Zenon, <1>2, <1>6, <2>1, <2>6, <3>2
      <3> QED BY Zenon, <1>1, <3>1, <3>2
    <2> QED BY Zenon, <1>1, <2>4, <2>5, <2>6
  <1>7. Tiles(g)
    BY Zenon, <1>1, <1>3, <1>4, <1>5, <1>6 DEF Tiles
  <1>8. ASSUME NEW a \in DOMAIN g, NEW c \in DOMAIN g, End(g, a) = c PROVE g[c].prev_free <=> g[a].free
    <2>1. \A x, y \in DOMAIN h : End(h, x) = y => (h[y].prev_free <=> h[x].free)
      BY Zenon DEF Flags
    <2>3. CASE a = s
      <3>1. c = End(h, b) /\ c \in DOMAIN h \ {b}
        BY <1>1, <1>2, <1>8, <2>3, EndFacts
      <3> QED BY <1>1, <2>1, <2>3, <3>1
    <2>4. CASE a = b
      BY <1>1, <1>2, <1>8, <2>4
    <2>5. CASE a \in DOMAIN h \ {b}
      <3>1. End(h, a) = c /\ c # s
        <4>1. End(h, a) = c
          BY Zenon, <1>2, <1>8, <2>5
        <4>2. a < b \/ b < a
          BY <2>5, EndFacts
        <4>3. End(h, a) <= b \/ End(h, b) <= a
          BY Zenon, <2>5, <4>2 DEF Tiles
        <4> QED BY <1>1, <2>5, <4>1, <4>3, EndFacts, WordFacts
      <3>2. c \in DOMAIN h
        BY Zenon, <1>1, <3>1
      <3> QED BY <1>1, <2>1, <2>5, <3>1, <3>2
    <2> QED BY Zenon, <1>1, <2>3, <2>4, <2>5
  <1>9. ~g[Head].prev_free
    BY <1>1, <1>3 DEF Flags
  <1> QED BY Zenon, <1>7, <1>8, <1>9 DEF Flags, g

(***************************************************************************)
(* A free block swallows the free blocks behind it                         *)
(***************************************************************************)
Merged(h, b, run) ==
    LET last == Max(run)
    IN  [Restrict(h, DOMAIN h \ run) EXCEPT ![b].size = End(h, last) - Data(b), ![b].last = h[last].last]

\* The run ends at its largest block and leaves no block out.
LEMMA RunFacts ==
    ASSUME NEW h, Tiles(h), NEW b \in DOMAIN h, NEW run, run = FreeRun(h, b), run # {}
    PROVE  /\ Max(run) \in run /\ run \subseteq DOMAIN h
           /\ \A c \in DOMAIN h : c \in run <=> b < c /\ c <= Max(run)
           /\ \A c \in run : h[c].free
           /\ End(h, b) \in run /\ ~h[b].last
  <1>1. run \in SUBSET Nat /\ run \subseteq DOMAIN h /\ Size \in Nat
    BY Zenon, WordFacts DEF FreeRun, Tiles
  <1>2. \A c \in run : c <= Size
    BY <1>1, EndFacts, WordFacts DEF Tiles
  <1>3. Max(run) \in run /\ \A c \in run : c <= Max(run)
    BY Zenon, <1>1, <1>2, LargestAddress
  <1>4. PICK last \in run : Max(run) = last
    BY Zenon, <1>3
  <1>5. /\ last \in DOMAIN h /\ last \in Nat /\ b \in Nat /\ b < last
        /\ \A d \in DOMAIN h : b < d /\ d <= last => h[d].free
    BY Zenon, <1>1, <1>4, EndFacts DEF FreeRun
  <1>6. \A c \in run : b < c /\ h[c].free
    BY <1>1, EndFacts DEF FreeRun
  <1>7. ASSUME NEW c \in DOMAIN h, b < c, c <= last PROVE c \in run
    <2>1. \A d \in DOMAIN h : b < d /\ d <= c => h[d].free
      BY <1>5, <1>7, EndFacts
    <2> QED BY Zenon, <1>7, <2>1 DEF FreeRun
  <1>8. End(h, b) <= last
    BY Zenon, <1>5 DEF Tiles
  <1>9. ~h[b].last /\ End(h, b) \in DOMAIN h
    BY <1>5, <1>8, EndFacts, WordFacts DEF Tiles
  <1>10. End(h, b) \in run
    BY <1>7, <1>8, <1>9, EndFacts, WordFacts
  <1> QED BY Zenon, <1>1, <1>3, <1>4, <1>6, <1>7, <1>9, <1>10

LEMMA MergedFacts ==
    ASSUME NEW h, Tiles(h), NEW b \in DOMAIN h, NEW run, run = FreeRun(h, b), run # {}
    PROVE  LET g == Merged(h, b, run)
           IN  /\ DOMAIN g = DOMAIN h \ run /\ g \in [DOMAIN g -> Header] /\ b \in DOMAIN g
               /\ \A c \in DOMAIN g \ {b} : g[c] = h[c]
               /\ End(g, b) = End(h, Max(run)) /\ g[b].size > h[b].size
               /\ (g[b].free <=> h[b].free) /\ (g[b].prev_free <=> h[b].prev_free)
               /\ (g[b].last <=> h[Max(run)].last)
  <1>1. PICK last \in DOMAIN h : last = Max(run) /\ b < last /\ b \notin run
    BY RunFacts, EndFacts
  <1> DEFINE size == End(h, last) - Data(b)
             kept == Restrict(h, DOMAIN h \ run)
             g == [kept EXCEPT ![b].size = size, ![b].last = h[last].last]
  <1>2. Merged(h, b, run) = g
    BY Zenon, <1>1 DEF Merged
  <1>3. h \in [DOMAIN h -> Header] /\ h[b] \in Header /\ h[last] \in Header
    BY Zenon DEF Tiles
  <1>4. kept \in [DOMAIN h \ run -> Header] /\ \A c \in DOMAIN h \ run : kept[c] = h[c]
    BY Zenon, <1>3 DEF Restrict
  <1>5. End(h, b) <= last
    BY Zenon, <1>1 DEF Tiles
  <1>6. size \in Nat /\ size > h[b].size /\ b + Word + size = End(h, last)
    BY <1>1, <1>5, EndFacts, WordFacts
  <1> HIDE DEF size, kept
  <1>7. /\ g \in [DOMAIN h \ run -> Header]
        /\ \A c \in (DOMAIN h \ run) \ {b} : g[c] = h[c]
        /\ g[b] = [size |-> size, free |-> h[b].free, prev_free |-> h[b].prev_free, last |-> h[last].last]
    BY ZenonT(60), <1>1, <1>3, <1>4, <1>6 DEF Header
  <1> HIDE DEF g
  <1>8. End(g, b) = b + Word + size
    BY <1>7 DEF End, Data
  <1> QED BY <1>1, <1>2, <1>6, <1>7, <1>8

LEMMA MergedSound ==
    ASSUME NEW h, Tiles(h), Flags(h), NEW b \in DOMAIN h, h[b].free,
           NEW run, run = FreeRun(h, b), run # {}
    PROVE  Tiles(Merged(h, b, run)) /\ Flags(Merged(h, b, run))
  <1> DEFINE g == Merged(h, b, run)
  <1>1. PICK last \in DOMAIN h :
          /\ last = Max(run) /\ last \in run /\ run \subseteq DOMAIN h
          /\ \A c \in DOMAIN h : c \in run <=> b < c /\ c <= last
          /\ \A c \in run : h[c].free
          /\ End(h, b) \in run /\ ~h[b].last
    BY Zenon, RunFacts
  <1>2. /\ DOMAIN g = DOMAIN h \ run /\ g \in [DOMAIN g -> Header] /\ b \in DOMAIN g
        /\ \A c \in DOMAIN g \ {b} : g[c] = h[c]
        /\ End(g, b) = End(h, last) /\ g[b].size > h[b].size
        /\ (g[b].free <=> h[b].free) /\ (g[b].prev_free <=> h[b].prev_free) /\ (g[b].last <=> h[last].last)
    <2>1. /\ DOMAIN g = DOMAIN h \ run /\ g \in [DOMAIN g -> Header] /\ b \in DOMAIN g
          /\ \A c \in DOMAIN g \ {b} : g[c] = h[c]
          /\ End(g, b) = End(h, Max(run)) /\ g[b].size > h[b].size
          /\ (g[b].free <=> h[b].free) /\ (g[b].prev_free <=> h[b].prev_free)
          /\ (g[b].last <=> h[Max(run)].last)
      BY MergedFacts
    <2> HIDE DEF g
    <2> QED BY Zenon, <1>1, <2>1
  <1> HIDE DEF g
  <1>3. \A c \in DOMAIN g \ {b} : End(g, c) = End(h, c)
    BY Zenon, <1>2 DEF End
  <1>4. b \in Nat /\ last \in Nat /\ End(h, last) \in Nat /\ b < last /\ last < End(h, last)
    BY <1>1, EndFacts, WordFacts
  <1>5. Head \in DOMAIN g /\ Head \in DOMAIN h /\ Head <= b
    BY <1>1, <1>2, EndFacts, WordFacts DEF Tiles
  <1>6. \A c \in DOMAIN h \ run : c \in Nat /\ (c <= b \/ End(h, last) <= c)
    BY <1>1, <1>4, EndFacts DEF Tiles
  <1>7. ASSUME NEW c \in DOMAIN h, End(h, c) \in DOMAIN h, End(h, c) \notin run, c \in run
        PROVE  c = last
    <2>1. c < last => End(h, c) <= last
      BY Zenon, <1>1 DEF Tiles
    <2> QED BY <1>1, <1>4, <1>7, <2>1, EndFacts, WordFacts
  <1>8. ASSUME NEW c \in DOMAIN g
        PROVE  /\ Head <= c /\ g[c].size >= MinBlockSize /\ End(g, c) <= Size
               /\ g[c].last <=> End(g, c) = Size
    <2>1. CASE c = b
      <3>1. h[b].size >= MinBlockSize /\ End(h, last) <= Size /\ (h[last].last <=> End(h, last) = Size)
        BY Zenon DEF Tiles
      <3>2. g[b].size \in Nat
        BY Zenon, <1>2 DEF Header
      <3> QED BY <1>2, <1>5, <2>1, <3>1, <3>2, EndFacts, WordFacts
    <2>2. CASE c # b
      BY Zenon, <1>2, <1>3, <2>2 DEF Tiles
    <2> QED BY Zenon, <2>1, <2>2
  <1>9. ASSUME NEW c \in DOMAIN g, ~g[c].last PROVE End(g, c) \in DOMAIN g
    <2>1. CASE c = b
      <3>1. End(h, last) \in DOMAIN h
        BY Zenon, <1>2, <1>9, <2>1 DEF Tiles
      <3> QED BY <1>1, <1>2, <1>4, <2>1, <3>1
    <2>2. CASE c # b
      <3>1. End(h, c) \in DOMAIN h /\ c \in DOMAIN h /\ c \notin run
        BY Zenon, <1>2, <1>9, <2>2 DEF Tiles
      <3>2. End(h, c) \notin run
        <4>1. CASE c < b
          <5>1. End(h, c) <= b
            BY Zenon, <3>1, <4>1 DEF Tiles
          <5> QED BY <1>1, <1>4, <3>1, <5>1, EndFacts
        <4>2. CASE c > b
          BY <1>1, <1>4, <1>6, <3>1, <4>2, EndFacts, WordFacts
        <4> QED BY <1>4, <1>6, <2>2, <3>1, <4>1, <4>2
      <3> QED BY Zenon, <1>2, <1>3, <2>2, <3>1, <3>2
    <2> QED BY Zenon, <2>1, <2>2
  <1>10. ASSUME NEW c \in DOMAIN g, c # Head PROVE \E a \in DOMAIN g : End(g, a) = c
    <2>1. PICK a \in DOMAIN h : End(h, a) = c
      BY Zenon, <1>2, <1>10 DEF Tiles
    <2>2. CASE a \in run
      BY Zenon, <1>2, <1>7, <2>1, <2>2
    <2>3. CASE a \notin run
      <3>1. a # b
        BY Zenon, <1>1, <1>2, <2>1
      <3> QED BY Zenon, <1>2, <1>3, <2>1, <2>3, <3>1
    <2> QED BY Zenon, <2>2, <2>3
  <1>11. ASSUME NEW a \in DOMAIN g, NEW c \in DOMAIN g, a < c PROVE End(g, a) <= c
    <2>1. CASE a = b
      BY <1>2, <1>4, <1>6, <1>11, <2>1
    <2>2. CASE a # b
      <3>1. End(h, a) <= c
        BY Zenon, <1>2, <1>11 DEF Tiles
      <3> QED BY Zenon, <1>3, <2>2, <3>1
    <2> QED BY Zenon, <2>1, <2>2
  <1>12. Tiles(g)
    BY Zenon, <1>2, <1>5, <1>6, <1>8, <1>9, <1>10, <1>11 DEF Tiles
  <1>13. ASSUME NEW a \in DOMAIN g, NEW c \in DOMAIN g, End(g, a) = c PROVE g[c].prev_free <=> g[a].free
    <2>1. \A x, y \in DOMAIN h : End(h, x) = y => (h[y].prev_free <=> h[x].free)
      BY Zenon DEF Flags
    <2>2. (g[c].prev_free <=> h[c].prev_free) /\ (g[a].free <=> h[a].free) /\ c \in DOMAIN h /\ a \in DOMAIN h
      BY Zenon, <1>2
    <2>3. CASE a = b
      <3>1. h[last].free /\ End(h, last) = c
        BY Zenon, <1>1, <1>2, <1>13, <2>3
      <3> QED BY Zenon, <2>1, <2>2, <2>3, <3>1
    <2>4. CASE a # b
      BY Zenon, <1>3, <1>13, <2>1, <2>2, <2>4
    <2> QED BY Zenon, <2>3, <2>4
  <1>14. ~g[Head].prev_free
    BY Zenon, <1>2, <1>5 DEF Flags
  <1> QED BY Zenon, <1>12, <1>13, <1>14 DEF Flags, g

(***************************************************************************)
(* What callers hold stays where it is                                     *)
(***************************************************************************)
\* The allocated blocks of h are those of g, except for some of h.
LEMMA LivesKept ==
    ASSUME NEW h, NEW g, NEW L, Lives(h, L),
           \A b \in DOMAIN h : ~h[b].free => b \in DOMAIN g /\ ~g[b].free /\ End(g, b) = End(h, b),
           \A b \in DOMAIN g : ~g[b].free => b \in DOMAIN h /\ ~h[b].free /\ End(g, b) = End(h, b)
    PROVE  Lives(g, L)
  <1>1. \A b, l : Placed(h, b, l) <=> Placed(g, b, l)
    BY Zenon DEF Placed
  <1>2. \A l \in L : \E b \in DOMAIN g : Placed(g, b, l)
    BY Zenon, <1>1 DEF Lives, Placed
  <1> QED BY Zenon, <1>1, <1>2 DEF Lives, Placed

\* From h to g no allocated block is freed or resized, and only b may be new.
OnlyTakes(h, g, b) ==
    /\ \A c \in DOMAIN h : ~h[c].free => c \in DOMAIN g /\ ~g[c].free /\ End(g, c) = End(h, c)
    /\ \A c \in DOMAIN g : ~g[c].free /\ c # b => c \in DOMAIN h /\ ~h[c].free /\ End(g, c) = End(h, c)

\* A block that was free gets the data of a new piece.
LEMMA LivesAllocated ==
    ASSUME NEW h, Tiles(h), NEW g, Tiles(g), NEW L, Lives(h, L), NEW b \in DOMAIN h, h[b].free,
           NEW p \in Held, Placed(g, b, p), OnlyTakes(h, g, b)
    PROVE  /\ Lives(g, L \cup {p}) /\ p \notin L
           /\ \A c \in DOMAIN h, l \in L : Placed(h, c, l) => Placed(g, c, l)
  <1>1. \A c, l : Placed(h, c, l) => Placed(g, c, l) /\ c # b
    BY Zenon DEF Placed, OnlyTakes
  <1>2. \A c, l : Placed(g, c, l) /\ c # b => Placed(h, c, l)
    BY Zenon DEF Placed, OnlyTakes
  <1>3. ASSUME NEW l \in Held, NEW c \in DOMAIN g, NEW d \in DOMAIN g,
               Placed(g, c, l), Placed(g, d, l)
        PROVE  c = d
    <2>1. /\ l.ptr \in Nat /\ Data(c) <= l.ptr /\ l.ptr <= End(g, c)
          /\ Data(d) <= l.ptr /\ l.ptr <= End(g, d)
      BY <1>3, EndFacts DEF Placed, Held
    <2> QED BY Zenon, <2>1, OneBlock
  <1>4. \A l \in L : l \in Held /\ \E c \in DOMAIN g : Placed(g, c, l) /\ c # b
    BY Zenon, <1>1 DEF Lives, Placed
  <1>5. \A l \in L : ~Placed(g, b, l)
    BY Zenon, <1>3, <1>4 DEF Placed
  <1>6. p \notin L
    BY Zenon, <1>5
  <1>7. ASSUME NEW c \in DOMAIN g, NEW l \in L \cup {p}, NEW k \in L \cup {p}, Placed(g, c, l), Placed(g, c, k)
        PROVE  l = k
    <2>1. CASE c = b
      BY Zenon, <1>5, <1>7, <2>1
    <2>2. CASE c # b
      <3>1. ~Placed(g, c, p)
        BY Zenon, <1>3, <2>2 DEF Placed
      <3>2. l \in L /\ k \in L /\ Placed(h, c, l) /\ Placed(h, c, k)
        BY Zenon, <1>2, <1>7, <2>2, <3>1
      <3> QED BY Zenon, <3>2 DEF Lives, Placed
    <2> QED BY Zenon, <2>1, <2>2
  <1>8. \A l \in L \cup {p} : l \in Held /\ \E c \in DOMAIN g : Placed(g, c, l)
    BY Zenon, <1>4 DEF Placed
  <1>9. Lives(g, L \cup {p})
    BY Zenon, <1>7, <1>8 DEF Lives
  <1> QED BY Zenon, <1>1, <1>6, <1>9

\* The block of a piece is freed.
LEMMA LivesFreed ==
    ASSUME NEW h, Tiles(h), NEW L, Lives(h, L), NEW b \in DOMAIN h, NEW l \in L, Placed(h, b, l)
    PROVE  Lives(Flagged(h, b, TRUE), L \ {l})
  <1>0. PICK free \in BOOLEAN : free = TRUE
    BY Zenon
  <1> DEFINE g == Flagged(h, b, free)
  <1>1. /\ DOMAIN g = DOMAIN h
        /\ \A c \in DOMAIN h : g[c].size = h[c].size /\ (g[c].free <=> c = b \/ h[c].free)
    <2>1. /\ g \in [DOMAIN h -> Header]
          /\ \A c \in DOMAIN h : g[c].size = h[c].size /\ (g[c].free <=> IF c = b THEN free ELSE h[c].free)
      BY FlaggedFacts
    <2> HIDE DEF g
    <2> QED BY Zenon, <1>0, <2>1
  <1> HIDE DEF g
  <1>2. \A c \in DOMAIN h : End(g, c) = End(h, c)
    BY Zenon, <1>1 DEF End
  <1>3. \A c, k : Placed(g, c, k) <=> Placed(h, c, k) /\ c # b
    BY Zenon, <1>1, <1>2 DEF Placed
  <1>4. \A k \in L \ {l} : ~Placed(h, b, k)
    BY Zenon DEF Lives
  <1>5. ASSUME NEW k \in L \ {l} PROVE k \in Held /\ \E c \in DOMAIN g : Placed(g, c, k)
    <2>1. k \in Held /\ \E c \in DOMAIN h : Placed(h, c, k)
      BY Zenon DEF Lives
    <2>2. PICK c \in DOMAIN h : Placed(g, c, k)
      BY Zenon, <1>3, <1>4, <2>1
    <2> QED BY Zenon, <1>1, <2>1, <2>2
  <1>6. \A c \in DOMAIN g : \A j, k \in L \ {l} : Placed(g, c, j) /\ Placed(g, c, k) => j = k
    BY Zenon, <1>1, <1>3 DEF Lives
  <1>7. Lives(g, L \ {l})
    BY Zenon, <1>5, <1>6 DEF Lives
  <1> QED BY Zenon, <1>0, <1>7 DEF g

(***************************************************************************)
(* Freeing, extending and coalescing on whole memories                     *)
(***************************************************************************)
LEMMA FlaggedFree ==
    ASSUME NEW h, Tiles(h), NEW b \in DOMAIN h, h[b].free
    PROVE  FlagNext(h, b, TRUE) = Flagged(h, b, TRUE)
  <1>1. h \in [DOMAIN h -> Header] /\ h[b] \in Header
    BY Zenon DEF Tiles
  <1>2. [h EXCEPT ![b].free = TRUE] = h
    BY Zenon, <1>1 DEF Header
  <1> QED BY Zenon, <1>2 DEF Flagged

LEMMA FlaggedTrue ==
    ASSUME NEW h, Tiles(h), Flags(h), NEW b \in DOMAIN h
    PROVE  LET g == Flagged(h, b, TRUE)
           IN  /\ Tiles(g) /\ Flags(g) /\ DOMAIN g = DOMAIN h
               /\ \A c \in DOMAIN h : End(g, c) = End(h, c) /\ (g[c].free <=> c = b \/ h[c].free)
  <1>0. PICK free \in BOOLEAN : free = TRUE
    BY Zenon
  <1> DEFINE g == Flagged(h, b, free)
  <1>1. /\ g \in [DOMAIN h -> Header]
        /\ \A c \in DOMAIN h : g[c].size = h[c].size /\ (g[c].free <=> IF c = b THEN free ELSE h[c].free)
    BY FlaggedFacts
  <1>2. Tiles(g) /\ Flags(g)
    BY Zenon, FlaggedSound
  <1> HIDE DEF g
  <1>3. DOMAIN g = DOMAIN h /\ \A c \in DOMAIN h : End(g, c) = End(h, c) /\ (g[c].free <=> c = b \/ h[c].free)
    BY Zenon, <1>0, <1>1 DEF End
  <1>4. Flagged(h, b, TRUE) = g
    BY Zenon, <1>0 DEF g
  <1> QED BY Zenon, <1>2, <1>3, <1>4

LEMMA FlaggedFalse ==
    ASSUME NEW h, Tiles(h), Flags(h), NEW b \in DOMAIN h
    PROVE  LET g == Flagged(h, b, FALSE)
           IN  /\ Tiles(g) /\ Flags(g) /\ DOMAIN g = DOMAIN h
               /\ \A c \in DOMAIN h : End(g, c) = End(h, c) /\ (g[c].free <=> c # b /\ h[c].free)
  <1>0. PICK free \in BOOLEAN : free = FALSE
    BY Zenon
  <1> DEFINE g == Flagged(h, b, free)
  <1>1. /\ g \in [DOMAIN h -> Header]
        /\ \A c \in DOMAIN h : g[c].size = h[c].size /\ (g[c].free <=> IF c = b THEN free ELSE h[c].free)
    BY FlaggedFacts
  <1>2. Tiles(g) /\ Flags(g)
    BY Zenon, FlaggedSound
  <1> HIDE DEF g
  <1>3. DOMAIN g = DOMAIN h /\ \A c \in DOMAIN h : End(g, c) = End(h, c) /\ (g[c].free <=> c # b /\ h[c].free)
    BY Zenon, <1>0, <1>1 DEF End
  <1>4. Flagged(h, b, FALSE) = g
    BY Zenon, <1>0 DEF g
  <1> QED BY Zenon, <1>2, <1>3, <1>4

\* m is what is left when b is freed.
FreedTo(m, h, t, b) == \E e : m = Mem(Flagged(h, b, TRUE), e, t \ {b})

LEMMA FreeIs ==
    ASSUME NEW h, NEW f, NEW t, NEW b
    PROVE  FreedTo(Free(Mem(h, f, t), b), h, t, b)
  <1> DEFINE m == Mem(h, f, t)
             x == Flagged(h, b, TRUE)
             y == WithFooter(f, End(h, b) - Word, h[b].size)
             z == t \ {b}
  <1>1. m.blk = h /\ m.foot = f /\ m.tree = t
    BY Zenon DEF Mem
  <1> HIDE DEF x, y, z
  <1>2. [m EXCEPT !.blk = x, !.foot = y, !.tree = z] = Mem(x, y, z)
    <2>1. [m EXCEPT !.blk = x] = Mem(x, f, t)
      BY DEF Mem
    <2>2. [Mem(x, f, t) EXCEPT !.foot = y] = Mem(x, y, t)
      BY DEF Mem
    <2>3. [Mem(x, y, t) EXCEPT !.tree = z] = Mem(x, y, z)
      BY DEF Mem
    <2> QED BY Zenon, <2>1, <2>2, <2>3
  <1> HIDE DEF m
  <1>3. Free(m, b) = [m EXCEPT !.blk = x, !.foot = y, !.tree = z]
    BY Zenon, <1>1 DEF Free, Flagged, x, y, z
  <1>4. Free(Mem(h, f, t), b) = Mem(Flagged(h, b, TRUE), y, t \ {b})
    BY Zenon, <1>2, <1>3 DEF m, x, z
  <1> QED BY Zenon, <1>4 DEF FreedTo

\* A free block, linked or not, and the free ones behind it become one.
LEMMA ExtendSafe ==
    ASSUME NEW h, NEW f, NEW t, Sound(h, t), NEW b \in DOMAIN h, h[b].free, NEW L, Lives(h, L),
           Extend(Mem(h, f, t), b).fault = "none"
    PROVE  /\ Sound(Extend(Mem(h, f, t), b).blk, Extend(Mem(h, f, t), b).tree)
           /\ Lives(Extend(Mem(h, f, t), b).blk, L)
  <1> DEFINE r == Extend(Mem(h, f, t), b)
             run == FreeRun(h, b)
             m == Merged(h, b, run)
  <1>0. Tiles(h) /\ Flags(h) /\ \A c \in t : c \in DOMAIN h /\ h[c].free
    BY Zenon DEF Sound
  <1>1. CASE run = {}
    <2> DEFINE g == Flagged(h, b, TRUE)
    <2>1. r.blk = g /\ r.tree = t
      <3>1. r.blk = FlagNext(h, b, TRUE) /\ r.tree = t
        BY Zenon, <1>1 DEF Extend, Mem
      <3> QED BY Zenon, <1>0, <3>1, FlaggedFree
    <2>2. /\ Tiles(g) /\ Flags(g) /\ DOMAIN g = DOMAIN h
          /\ \A c \in DOMAIN h : End(g, c) = End(h, c) /\ (g[c].free <=> c = b \/ h[c].free)
      BY Zenon, <1>0, FlaggedTrue
    <2> HIDE DEF g, r
    <2>3. Sound(g, t)
      BY Zenon, <1>0, <2>2 DEF Sound
    <2>4. Lives(g, L)
      BY Zenon, <2>2, LivesKept
    <2> QED BY Zenon, <2>1, <2>3, <2>4 DEF r
  <1>2. CASE run # {}
    <2> DEFINE g == Flagged(m, b, TRUE)
    <2>1. Tiles(m) /\ Flags(m)
      BY Zenon, <1>0, <1>2, MergedSound
    <2>2. /\ DOMAIN m = DOMAIN h \ run /\ b \in DOMAIN m
          /\ \A c \in DOMAIN m \ {b} : m[c] = h[c]
          /\ (m[b].free <=> h[b].free)
      BY <1>0, <1>2, MergedFacts
    <2>3. \A c \in run : h[c].free
      BY Zenon, <1>0, <1>2, RunFacts
    <2>4. r.blk = g /\ r.tree = (t \ run) \cup {b}
      <3>1. r.blk = FlagNext(m, b, TRUE) /\ r.tree = (t \ run) \cup {b}
        BY Zenon, <1>2 DEF Extend, Mem, Insert, Fault, Merged
      <3>2. FlagNext(m, b, TRUE) = g
        BY Zenon, <2>1, <2>2, FlaggedFree
      <3> QED BY Zenon, <3>1, <3>2
    <2> HIDE DEF m
    <2>5. /\ Tiles(g) /\ Flags(g) /\ DOMAIN g = DOMAIN m
          /\ \A c \in DOMAIN m : End(g, c) = End(m, c) /\ (g[c].free <=> c = b \/ m[c].free)
      BY Zenon, <2>1, <2>2, FlaggedTrue
    <2> HIDE DEF g, r, run
    <2>6. Sound(g, (t \ run) \cup {b})
      BY Zenon, <1>0, <2>2, <2>5 DEF Sound
    <2>7. \A c \in DOMAIN m \ {b} : End(m, c) = End(h, c)
      BY Zenon, <2>2 DEF End
    <2>8. /\ \A c \in DOMAIN h : ~h[c].free => c \in DOMAIN g /\ ~g[c].free /\ End(g, c) = End(h, c)
          /\ \A c \in DOMAIN g : ~g[c].free => c \in DOMAIN h /\ ~h[c].free /\ End(g, c) = End(h, c)
      BY Zenon, <2>2, <2>3, <2>5, <2>7
    <2>9. Lives(g, L)
      BY Zenon, <2>8, LivesKept
    <2> QED BY Zenon, <2>4, <2>6, <2>9 DEF r
  <1> QED BY Zenon, <1>1, <1>2

\* The trail of coalesce goes through linked blocks only.
LEMMA TrailFacts ==
    ASSUME NEW m, NEW b \in DOMAIN m.blk, m.tree \subseteq DOMAIN m.blk, DOMAIN m.blk \subseteq Nat
    PROVE  Min(Trail(m, b)) \in m.tree \cup {b}
  <1>1. {b} \cup m.tree \in SUBSET DOMAIN m.blk
    BY Zenon
  <1>2. \A d \in {b} \cup m.tree : Follows(m, d) => PrevPtr(m.foot, d) \in {b} \cup m.tree
    BY Zenon DEF Follows
  <1>3. Trail(m, b) \subseteq {b} \cup m.tree
    BY Zenon, <1>1, <1>2 DEF Trail
  <1>4. b \in Trail(m, b)
    BY Zenon DEF Trail
  <1>5. Trail(m, b) \in SUBSET Nat /\ Trail(m, b) # {}
    BY Zenon, <1>4 DEF Trail
  <1>6. Min(Trail(m, b)) \in Trail(m, b)
    BY Zenon, <1>5, SmallestAddress
  <1> QED BY Zenon, <1>3, <1>6

LEMMA CoalesceSafe ==
    ASSUME NEW h, NEW f, NEW t, Sound(h, t), NEW b \in DOMAIN h, h[b].free, NEW L, Lives(h, L),
           Coalesce(Mem(h, f, t), b).fault = "none"
    PROVE  /\ Sound(Coalesce(Mem(h, f, t), b).blk, Coalesce(Mem(h, f, t), b).tree)
           /\ Lives(Coalesce(Mem(h, f, t), b).blk, L)
  <1> DEFINE m == Mem(h, f, t)
             trail == Trail(m, b)
             first == Min(trail)
             u == t \ trail
  <1>0. /\ m.blk = h /\ m.tree = t /\ m.foot = f
        /\ t \subseteq DOMAIN h /\ DOMAIN h \subseteq Nat /\ \A c \in t : h[c].free
    BY Zenon DEF Mem, Sound, Tiles
  <1>1. first \in t \cup {b}
    <2>1. b \in DOMAIN m.blk /\ m.tree \subseteq DOMAIN m.blk /\ DOMAIN m.blk \subseteq Nat
      BY Zenon, <1>0
    <2>2. first \in m.tree \cup {b}
      BY Zenon, <2>1, TrailFacts
    <2> QED BY Zenon, <1>0, <2>2
  <1>2. Sound(h, u)
    BY Zenon DEF Sound
  <1>3. [m EXCEPT !.tree = @ \ trail] = Mem(h, f, u)
    BY DEF Mem
  <1>4. Coalesce(m, b) = Extend(Mem(h, f, u), first)
    <2>1. Coalesce(m, b) = IF ~m.blk[first].prev_free THEN Extend(Mem(h, f, u), first)
                           ELSE IF PrevPtr(m.foot, first) \in DOMAIN m.blk THEN Fault(m, "remove of an unlinked block")
                           ELSE Fault(m, "prev() is no block")
      BY Zenon, <1>3 DEF Coalesce
    <2>2. Fault(m, "remove of an unlinked block").fault # "none" /\ Fault(m, "prev() is no block").fault # "none"
      BY Zenon DEF Fault, Mem
    <2> HIDE DEF m, first, u
    <2> QED BY Zenon, <2>1, <2>2 DEF m
  <1> HIDE DEF first, u, trail
  <1>5. first \in DOMAIN h /\ h[first].free
    BY Zenon, <1>0, <1>1
  <1> QED BY Zenon, <1>2, <1>4, <1>5, ExtendSafe

(***************************************************************************)
(* Allocation on whole memories                                            *)
(***************************************************************************)
\* find_best_fit returns a linked block or none.
LEMMA BestFit ==
    ASSUME NEW h, NEW f, NEW t, Sound(h, t), NEW layout, FindBestFit(Mem(h, f, t), layout) # {}
    PROVE  \E b \in t : FindBestFit(Mem(h, f, t), layout) = {b}
  <1> DEFINE fit == {b \in t : Fits(h, b, layout)}
             sizes == {h[b].size : b \in fit}
             best == {b \in fit : \A c \in fit : h[b].size <= h[c].size}
  <1>1. fit # {} /\ FindBestFit(Mem(h, f, t), layout) = {Max(best)}
    BY Zenon DEF FindBestFit, Mem
  <1>2. Tiles(h) /\ t \subseteq DOMAIN h
    BY Zenon DEF Sound
  <1>3. sizes \in SUBSET Nat /\ sizes # {}
    BY Zenon, <1>1, <1>2, EndFacts
  <1>4. Min(sizes) \in sizes /\ \A n \in sizes : Min(sizes) <= n
    BY Zenon, <1>3, SmallestAddress
  <1>5. PICK b \in fit : h[b].size = Min(sizes)
    BY Zenon, <1>4
  <1>6. b \in best
    BY Zenon, <1>4, <1>5
  <1>7. best \in SUBSET Nat /\ best # {} /\ Size \in Nat /\ \A n \in best : n <= Size
    BY <1>2, <1>6, EndFacts, WordFacts DEF Tiles
  <1>8. Max(best) \in best
    BY Zenon, <1>7, LargestAddress
  <1> QED BY Zenon, <1>1, <1>8

LEMMA LayoutFacts ==
    ASSUME NEW b \in Nat, NEW layout \in Layouts
    PROVE  /\ layout.size \in Nat \ {0}
           /\ RealSize(b, layout) \in Nat /\ RealSize(b, layout) >= MinBlockSize
           /\ AlignUp(Data(b), layout.align) \in Nat /\ AlignUp(Data(b), layout.align) >= b + Word
           /\ AlignUp(Data(b), layout.align) + layout.size <= b + Word + RealSize(b, layout)
  <1>1. layout.size \in Nat \ {0} /\ layout.align \in Nat \ {0}
    BY Zenon, CarrierAssumption
  <1>2. Data(b) \in Nat /\ Data(b) = b + Word
    BY WordFacts DEF Data
  <1>3. AlignUp(Data(b), layout.align) \in Nat /\ AlignUp(Data(b), layout.align) >= Data(b)
    BY Zenon, <1>1, <1>2, AlignedUp
  <1>4. /\ Larger(layout.size, MinBlockSize) \in Nat /\ Larger(layout.size, MinBlockSize) >= MinBlockSize
        /\ Larger(layout.size, MinBlockSize) >= layout.size
    BY <1>1, WordFacts DEF Larger
  <1> QED BY <1>1, <1>2, <1>3, <1>4, WordFacts DEF RealSize, Padding

\* What an allocation that found a block leaves.
AllocatedIn(h, t, L, layout, r) ==
    \E g, e, u : \E p \in Nat :
        /\ r = [mem |-> Mem(g, e, u), ptr |-> {p}]
        /\ Sound(g, u) /\ Lives(g, L \cup {[ptr |-> p, size |-> layout.size]})
        /\ [ptr |-> p, size |-> layout.size] \notin L
        /\ \A c \in DOMAIN h, l \in L : Placed(h, c, l) => Placed(g, c, l)

LEMMA WholeSafe ==
    ASSUME NEW h, NEW f, NEW t, Sound(h, t), NEW L, Lives(h, L), NEW layout \in Layouts, NEW b \in t,
           CanAlloc(h, b, layout)
    PROVE  AllocatedIn(h, t, L, layout,
                       [mem |-> Mem(Flagged(h, b, FALSE), f, t \ {b}), ptr |-> {AlignUp(Data(b), layout.align)}])
  <1> DEFINE g == Flagged(h, b, FALSE)
             p == AlignUp(Data(b), layout.align)
             piece == [ptr |-> p, size |-> layout.size]
  <1>0. Tiles(h) /\ Flags(h) /\ b \in DOMAIN h /\ h[b].free /\ \A c \in t : c \in DOMAIN h /\ h[c].free
    BY Zenon DEF Sound
  <1>1. /\ Tiles(g) /\ Flags(g) /\ DOMAIN g = DOMAIN h
        /\ \A c \in DOMAIN h : End(g, c) = End(h, c) /\ (g[c].free <=> c # b /\ h[c].free)
    BY Zenon, <1>0, FlaggedFalse
  <1> HIDE DEF g
  <1>2. /\ p \in Nat /\ layout.size \in Nat \ {0} /\ p >= b + Word /\ RealSize(b, layout) \in Nat
        /\ p + layout.size <= b + Word + RealSize(b, layout)
    BY Zenon, <1>0, EndFacts, LayoutFacts
  <1>3. piece \in Held /\ piece.ptr = p /\ piece.size = layout.size
    BY Zenon, <1>2 DEF Held
  <1> HIDE DEF p
  <1>4. Placed(g, b, piece)
    BY <1>0, <1>1, <1>2, <1>3, EndFacts, WordFacts DEF Placed, CanAlloc
  <1> HIDE DEF piece
  <1>5. Sound(g, t \ {b})
    BY Zenon, <1>0, <1>1 DEF Sound
  <1>6. OnlyTakes(h, g, b)
    BY Zenon, <1>1 DEF OnlyTakes
  <1>7. /\ Lives(g, L \cup {piece}) /\ piece \notin L
        /\ \A c \in DOMAIN h, l \in L : Placed(h, c, l) => Placed(g, c, l)
    BY Zenon, <1>0, <1>1, <1>3, <1>4, <1>6, LivesAllocated
  <1> QED BY Zenon, <1>2, <1>5, <1>7 DEF AllocatedIn, g, p, piece

LEMMA SplitSafe ==
    ASSUME NEW h, NEW f, NEW t, Sound(h, t), NEW L, Lives(h, L), NEW layout \in Layouts, NEW b \in t,
           h[b].size - RealSize(b, layout) - Word >= MinBlockSize
    PROVE  AllocatedIn(h, t, L, layout,
                       [mem |-> Mem(Cut(h, b, RealSize(b, layout)), f, (t \ {b}) \cup {Data(b) + RealSize(b, layout)}),
                        ptr |-> {AlignUp(Data(b), layout.align)}])
  <1> DEFINE n == RealSize(b, layout)
             g == Cut(h, b, n)
             s == b + Word + n
             p == AlignUp(Data(b), layout.align)
             piece == [ptr |-> p, size |-> layout.size]
  <1>0. /\ Tiles(h) /\ Flags(h) /\ b \in DOMAIN h /\ h[b].free /\ b \in Nat
        /\ \A c \in t : c \in DOMAIN h /\ h[c].free
    BY Zenon, EndFacts DEF Sound
  <1>1. /\ p \in Nat /\ layout.size \in Nat \ {0} /\ p >= b + Word /\ n \in Nat /\ n >= MinBlockSize
        /\ p + layout.size <= b + Word + n
        /\ h[b].size - n - Word >= MinBlockSize
    BY Zenon, <1>0, LayoutFacts
  <1> HIDE DEF n
  <1>2. /\ s \in Nat /\ s \notin DOMAIN h /\ b < s /\ s < End(h, b)
        /\ DOMAIN g = DOMAIN h \cup {s}
        /\ g[s] = [size |-> h[b].size - n - Word, free |-> TRUE, prev_free |-> FALSE, last |-> h[b].last]
        /\ g[b] = [size |-> n, free |-> FALSE, prev_free |-> h[b].prev_free, last |-> FALSE]
        /\ \A c \in DOMAIN h \ {b} : g[c] = h[c]
    BY <1>0, <1>1, CutFacts
  <1>3. Tiles(g) /\ Flags(g)
    BY Zenon, <1>0, <1>1, CutSound
  <1> HIDE DEF g, n
  <1>4. End(g, b) = b + Word + n /\ \A c \in DOMAIN h \ {b} : End(g, c) = End(h, c)
    BY <1>2 DEF End, Data
  <1>5. piece \in Held /\ piece.ptr = p /\ piece.size = layout.size
    BY Zenon, <1>1 DEF Held
  <1> HIDE DEF p
  <1>6. Placed(g, b, piece)
    BY <1>0, <1>1, <1>2, <1>4, <1>5 DEF Placed, Data
  <1> HIDE DEF piece
  <1>7. Sound(g, (t \ {b}) \cup {s})
    BY <1>0, <1>2, <1>3 DEF Sound
  <1>8. OnlyTakes(h, g, b)
    BY <1>0, <1>2, <1>4 DEF OnlyTakes
  <1>9. /\ Lives(g, L \cup {piece}) /\ piece \notin L
        /\ \A c \in DOMAIN h, l \in L : Placed(h, c, l) => Placed(g, c, l)
    BY Zenon, <1>0, <1>3, <1>5, <1>6, <1>8, LivesAllocated
  <1>10. Data(b) + n = s
    BY Zenon DEF Data
  <1> HIDE DEF s
  <1> QED BY Zenon, <1>1, <1>7, <1>9, <1>10 DEF AllocatedIn, g, p, piece, n

\* What allocation does to the block it takes, whole or cut.
Taken(h, b) == [h EXCEPT ![b].free = FALSE]

LEMMA TakenFree ==
    ASSUME NEW h, NEW f, NEW t, NEW b \in t
    PROVE  Remove([Mem(h, f, t) EXCEPT !.blk[b].free = FALSE], b)
             = Mem(Taken(h, b), f, t \ {b})
  <1> DEFINE x == [h EXCEPT ![b].free = FALSE]
             z == t \ {b}
  <1>1. [Mem(h, f, t) EXCEPT !.blk[b].free = FALSE] = Mem(x, f, t)
    <2> DEFINE m == Mem(h, f, t)
    <2>1. m.blk = h
      BY Zenon DEF Mem
    <2> HIDE DEF m
    <2>2. [m EXCEPT !.blk[b].free = FALSE] = [m EXCEPT !.blk = x]
      BY Zenon, <2>1
    <2>3. [m EXCEPT !.blk = x] = Mem(x, f, t)
      <3> HIDE DEF x
      <3> QED BY DEF m, Mem
    <2> QED BY Zenon, <2>2, <2>3 DEF m, x
  <1> HIDE DEF x
  <1>2. Remove(Mem(x, f, t), b) = [Mem(x, f, t) EXCEPT !.tree = @ \ {b}]
    BY Zenon DEF Remove, Mem
  <1>3. [Mem(x, f, t) EXCEPT !.tree = @ \ {b}] = Mem(x, f, z)
    BY DEF Mem
  <1> QED BY Zenon, <1>1, <1>2, <1>3 DEF x, Taken

\* m is what is left when b is cut behind n and the rest is linked.
CutTo(m, h, t, b, n) == \E e : m = Mem(Cut(h, b, n), e, (t \ {b}) \cup {Data(b) + n})

Faultless(m) == m.fault = "none"

LEMMA SplitIs ==
    ASSUME NEW h, NEW f, NEW t, Tiles(h), NEW b \in DOMAIN h, NEW layout \in Layouts,
           Faultless(TrySplit(Mem(Taken(h, b), f, t \ {b}), b, layout))
    PROVE  /\ h[b].size - RealSize(b, layout) - Word >= MinBlockSize
           /\ CutTo(TrySplit(Mem(Taken(h, b), f, t \ {b}), b, layout), h, t, b, RealSize(b, layout))
  <1> DEFINE x == [h EXCEPT ![b].free = FALSE]
             m == Mem(Taken(h, b), f, t \ {b})
             n == RealSize(b, layout)
             usable == h[b].size - n - Word
             split == Data(b) + n
             g == Cut(h, b, n)
             e == WithFooter(f, SplitFooterAt(split, usable), usable)
  <1>0. h \in [DOMAIN h -> Header] /\ h[b] \in Header /\ b \in Nat /\ h[b].size \in Nat
    BY Zenon, EndFacts DEF Tiles
  <1>1. n \in Nat
    BY Zenon, <1>0, LayoutFacts
  <1> USE DEF Taken
  <1>2. x[b].size = h[b].size /\ x[b].last = h[b].last
    BY Zenon, <1>0 DEF Header
  <1>3. m.blk = x /\ m.foot = f /\ m.tree = t \ {b}
    BY Zenon DEF Mem
  <1>4. SplitSize(x, b, layout) - Word = usable
    BY Zenon, <1>2 DEF SplitSize
  <1>5. g = WithBlock([x EXCEPT ![b].size = n, ![b].last = FALSE], split,
                      [size |-> usable, free |-> TRUE, prev_free |-> FALSE, last |-> h[b].last])
    BY Zenon DEF Cut
  <1> HIDE DEF x, n, g, Taken
  <1>6. TrySplit(m, b, layout) =
          IF usable < MinBlockSize THEN Fault(m, "new block below the minimum size")
          ELSE Insert(Mem(g, e, t \ {b}), split)
    <2>1. SplitSize(m.blk, b, layout) - Word = usable
      BY Zenon, <1>3, <1>4
    <2>2. WithBlock([m.blk EXCEPT ![b].size = n, ![b].last = FALSE], split,
                    [size |-> usable, free |-> TRUE, prev_free |-> FALSE, last |-> m.blk[b].last]) = g
      BY Zenon, <1>2, <1>3, <1>5
    <2>3. TrySplit(m, b, layout) =
            IF SplitSize(m.blk, b, layout) - Word < MinBlockSize THEN Fault(m, "new block below the minimum size")
            ELSE Insert(Mem(WithBlock([m.blk EXCEPT ![b].size = n, ![b].last = FALSE], split,
                                      [size |-> SplitSize(m.blk, b, layout) - Word, free |-> TRUE,
                                       prev_free |-> FALSE, last |-> m.blk[b].last]),
                            WithFooter(m.foot, SplitFooterAt(split, SplitSize(m.blk, b, layout) - Word),
                                       SplitSize(m.blk, b, layout) - Word), m.tree), split)
      BY Zenon DEF TrySplit, n
    <2> QED BY Zenon, <1>3, <2>1, <2>2, <2>3
  <1>7. Fault(m, "new block below the minimum size").fault # "none"
    BY Zenon DEF Fault, Mem
  <1>8. ~(usable < MinBlockSize)
    BY Zenon, <1>6, <1>7 DEF Faultless
  <1> HIDE DEF e, split
  <1>9. Insert(Mem(g, e, t \ {b}), split) = Mem(g, e, (t \ {b}) \cup {split})
    BY DEF Mem, Insert
  <1>10. TrySplit(m, b, layout) = Mem(g, e, (t \ {b}) \cup {split})
    BY Zenon, <1>6, <1>8, <1>9
  <1> QED BY <1>0, <1>1, <1>8, <1>10, WordFacts DEF CutTo, g, n, split

\* An allocation that does not fail finds no block, or takes one.
LEMMA AllocSafe ==
    ASSUME NEW h, NEW f, NEW t, Sound(h, t), NEW L, Lives(h, L), NEW layout \in Layouts,
           Allocated(Mem(h, f, t), layout).mem.fault = "none"
    PROVE  \/ Allocated(Mem(h, f, t), layout) = [mem |-> Mem(h, f, t), ptr |-> {}]
           \/ AllocatedIn(h, t, L, layout, Allocated(Mem(h, f, t), layout))
  <1> DEFINE m == Mem(h, f, t)
             fit == FindBestFit(m, layout)
             r == Allocated(m, layout)
  <1>1. CASE fit = {}
    BY Zenon, <1>1 DEF Allocated
  <1>2. CASE fit # {}
    <2>1. PICK b \in t : fit = {b}
      BY <1>2, BestFit
    <2> DEFINE p == AlignUp(Data(b), layout.align)
               a == Mem(Taken(h, b), f, t \ {b})
               clash == Fault(m, "find_best_fit and try_alloc disagreed")
    <2>2. (CHOOSE c \in fit : TRUE) = b
      BY Zenon, <2>1
    <2>3. m.blk = h /\ b \in DOMAIN h /\ Tiles(h)
      BY Zenon DEF Mem, Sound
    <2>0. r.mem.fault = "none" /\ a = Mem(Taken(h, b), f, t \ {b})
      BY Zenon
    <2>4. Remove([m EXCEPT !.blk[b].free = FALSE], b) = a
      BY TakenFree
    <2>5. clash.fault # "none"
      BY Zenon DEF Fault, Mem
    <2>6. Mem(FlagNext(a.blk, b, FALSE), a.foot, a.tree) = Mem(Flagged(h, b, FALSE), f, t \ {b})
      <3>1. a.blk = Taken(h, b) /\ a.foot = f /\ a.tree = t \ {b}
        BY Zenon DEF Mem
      <3>2. Flagged(h, b, FALSE) = FlagNext(Taken(h, b), b, FALSE)
        BY Zenon DEF Flagged, Taken
      <3> HIDE DEF a
      <3> QED BY Zenon, <3>1, <3>2
    <2>7. r = IF ~CanAlloc(m.blk, b, layout) THEN [mem |-> clash, ptr |-> {}]
              ELSE IF CanSplit(m.blk, b, layout) THEN [mem |-> TrySplit(a, b, layout), ptr |-> {p}]
              ELSE [mem |-> Mem(Flagged(h, b, FALSE), f, t \ {b}), ptr |-> {p}]
      <3> HIDE DEF m, fit, a
      <3> QED BY Zenon, <1>2, <2>2, <2>4, <2>6 DEF Allocated, fit
    <2> HIDE DEF a, clash, p, m, r
    <2>8. CanAlloc(h, b, layout)
      BY Zenon, <2>0, <2>3, <2>5, <2>7
    <2>9. CASE CanSplit(h, b, layout)
      <3>1. r = [mem |-> TrySplit(a, b, layout), ptr |-> {p}]
        BY Zenon, <2>3, <2>7, <2>8, <2>9
      <3>2. Faultless(TrySplit(a, b, layout))
        BY Zenon, <2>0, <3>1 DEF Faultless
      <3>3. /\ h[b].size - RealSize(b, layout) - Word >= MinBlockSize
            /\ CutTo(TrySplit(a, b, layout), h, t, b, RealSize(b, layout))
        BY Zenon, <2>3, <3>2, SplitIs DEF a
      <3>4. PICK e : TrySplit(a, b, layout)
                        = Mem(Cut(h, b, RealSize(b, layout)), e, (t \ {b}) \cup {Data(b) + RealSize(b, layout)})
        BY Zenon, <3>3 DEF CutTo
      <3>5. AllocatedIn(h, t, L, layout, r)
        BY Zenon, <3>1, <3>3, <3>4, SplitSafe DEF p
      <3> QED BY Zenon, <3>5 DEF r, m
    <2>10. CASE ~CanSplit(h, b, layout)
      <3>1. r = [mem |-> Mem(Flagged(h, b, FALSE), f, t \ {b}), ptr |-> {p}]
        BY Zenon, <2>3, <2>7, <2>8, <2>10
      <3>2. AllocatedIn(h, t, L, layout, r)
        BY Zenon, <2>8, <3>1, WholeSafe DEF p
      <3> QED BY <3>2 DEF r, m
    <2> QED BY Zenon, <2>9, <2>10
  <1> QED BY Zenon, <1>1, <1>2

(***************************************************************************)
(* The operations keep the invariant                                       *)
(***************************************************************************)
\* What a step does to the pieces callers hold: nothing, one more, one less, or
\* one for another.
OnePiece(L, M) ==
    \/ M = L
    \/ \E p \in M \ L : M = L \cup {p}
    \/ \E p \in L \ M : M = L \ {p}
    \/ \E p \in L \ M, q \in M \ L : M = (L \ {p}) \cup {q}

LEMMA FreedSafe ==
    ASSUME NEW h, NEW t, Sound(h, t), NEW L, Lives(h, L), NEW b \in DOMAIN h, NEW l \in L, Placed(h, b, l)
    PROVE  /\ Sound(Flagged(h, b, TRUE), t \ {b}) /\ Sound(Flagged(h, b, TRUE), (t \ {b}) \cup {b})
           /\ Lives(Flagged(h, b, TRUE), L \ {l})
           /\ b \in DOMAIN Flagged(h, b, TRUE) /\ Flagged(h, b, TRUE)[b].free
  <1> DEFINE g == Flagged(h, b, TRUE)
  <1>0. Tiles(h) /\ Flags(h) /\ \A c \in t : c \in DOMAIN h /\ h[c].free
    BY Zenon DEF Sound
  <1>1. /\ Tiles(g) /\ Flags(g) /\ DOMAIN g = DOMAIN h
        /\ \A c \in DOMAIN h : End(g, c) = End(h, c) /\ (g[c].free <=> c = b \/ h[c].free)
    BY Zenon, <1>0, FlaggedTrue
  <1>2. Lives(g, L \ {l})
    BY Zenon, <1>0, LivesFreed
  <1> HIDE DEF g
  <1>3. Sound(g, t \ {b}) /\ Sound(g, (t \ {b}) \cup {b}) /\ b \in DOMAIN g /\ g[b].free
    BY Zenon, <1>0, <1>1 DEF Sound
  <1> QED BY Zenon, <1>2, <1>3 DEF g

\* A piece that is resized in its block stays the only one there.
LEMMA ResizedSafe ==
    ASSUME NEW h, Tiles(h), NEW L, Lives(h, L), NEW b \in DOMAIN h, NEW l \in L, Placed(h, b, l),
           NEW q \in Held, Placed(h, b, q)
    PROVE  Lives(h, (L \ {l}) \cup {q})
  <1>1. \A c \in DOMAIN h : Placed(h, c, q) => c = b
    <2> SUFFICES ASSUME NEW c \in DOMAIN h, Placed(h, c, q) PROVE c = b
      BY Zenon
    <2>1. /\ q.ptr \in Nat /\ Data(c) <= q.ptr /\ q.ptr <= End(h, c)
          /\ Data(b) <= q.ptr /\ q.ptr <= End(h, b)
      BY EndFacts DEF Placed, Held
    <2> QED BY Zenon, <2>1, OneBlock
  <1>2. \A k \in L : Placed(h, b, k) => k = l
    BY Zenon DEF Lives
  <1> DEFINE M == (L \ {l}) \cup {q}
  <1>3. \A k \in M : k = q \/ (k \in L /\ k # l)
    BY Zenon
  <1> HIDE DEF M
  <1>4. \A k \in M : k \in Held /\ \E c \in DOMAIN h : Placed(h, c, k)
    BY Zenon, <1>3 DEF Lives
  <1>5. ASSUME NEW c \in DOMAIN h, NEW k \in M, NEW j \in M, Placed(h, c, k), Placed(h, c, j)
        PROVE  k = j
    <2>1. CASE k = q
      BY Zenon, <1>1, <1>2, <1>3, <1>5, <2>1
    <2>2. CASE j = q
      BY Zenon, <1>1, <1>2, <1>3, <1>5, <2>2
    <2>3. CASE k \in L /\ j \in L
      BY Zenon, <1>5, <2>3 DEF Lives
    <2> QED BY Zenon, <1>3, <2>1, <2>2, <2>3
  <1>6. Lives(h, M)
    BY Zenon, <1>4, <1>5 DEF Lives
  <1> QED BY Zenon, <1>6 DEF M

LEMMA CarrierInitSafe == CarrierInit => CarrierInv
  <1> SUFFICES ASSUME CarrierInit PROVE CarrierInv
    BY Zenon
  <1>1. /\ DOMAIN blk = {Head} /\ tree = {Head} /\ live = {}
        /\ blk[Head] = [size |-> Size - Head - Word, free |-> TRUE, prev_free |-> FALSE, last |-> TRUE]
        /\ blk \in [{Head} -> {[size |-> Size - Head - Word, free |-> TRUE, prev_free |-> FALSE, last |-> TRUE]}]
    BY Zenon DEF CarrierInit
  <1>2. blk[Head].size = Size - Head - Word /\ blk[Head].free /\ ~blk[Head].prev_free /\ blk[Head].last
    BY <1>1
  <1>3. Size - Head - Word \in Nat /\ Size - Head - Word >= MinBlockSize
    BY WordFacts
  <1>4. blk \in [DOMAIN blk -> Header]
    <2> DEFINE n == Size - Head - Word
    <2>1. [size |-> n, free |-> TRUE, prev_free |-> FALSE, last |-> TRUE] \in Header
      BY Zenon, <1>3 DEF Header
    <2> QED BY Zenon, <1>1, <2>1
  <1>5. End(blk, Head) = Size
    BY <1>2, WordFacts DEF End, Data
  <1>6. Tiles(blk)
    BY <1>1, <1>2, <1>3, <1>4, <1>5, WordFacts DEF Tiles
  <1>7. Flags(blk)
    BY <1>1, <1>2, <1>5, WordFacts DEF Flags
  <1> QED BY Zenon, <1>1, <1>2, <1>6, <1>7 DEF CarrierInv, Sound, Lives

LEMMA AllocBlockSafe ==
    ASSUME CarrierInv, NEW layout \in Layouts, AllocBlock(layout)
    PROVE  CarrierInv' /\ OnePiece(live, live')
  <1> DEFINE r == Allocated(Now, layout)
  <1>0. Sound(blk, tree) /\ Lives(blk, live)
    BY Zenon DEF CarrierInv, Intact, AllocBlock
  <1>1. Becomes(r.mem, live \cup Holds(r.ptr, layout.size))
    BY Zenon DEF AllocBlock
  <1>2. CASE r.mem.fault # "none"
    BY Zenon, <1>0, <1>1, <1>2 DEF Becomes, CarrierInv, OnePiece
  <1>3. CASE r.mem.fault = "none"
    <2>1. /\ blk' = r.mem.blk /\ tree' = r.mem.tree
          /\ live' = live \cup Holds(r.ptr, layout.size)
      BY Zenon, <1>1, <1>3 DEF Becomes
    <2>2. \/ r = [mem |-> Now, ptr |-> {}]
          \/ AllocatedIn(blk, tree, live, layout, r)
      BY Zenon, <1>0, <1>3, AllocSafe DEF Now
    <2> HIDE DEF r
    <2>3. CASE r = [mem |-> Now, ptr |-> {}]
      <3>1. blk' = blk /\ tree' = tree /\ live' = live
        BY Zenon, <2>1, <2>3 DEF Now, Mem, Holds
      <3> QED BY Zenon, <1>0, <3>1 DEF CarrierInv, OnePiece
    <2>4. CASE AllocatedIn(blk, tree, live, layout, r)
      <3>1. PICK g, e, u, p :
              /\ r = [mem |-> Mem(g, e, u), ptr |-> {p}]
              /\ Sound(g, u) /\ Lives(g, live \cup {[ptr |-> p, size |-> layout.size]})
              /\ [ptr |-> p, size |-> layout.size] \notin live
        BY Zenon, <2>4 DEF AllocatedIn
      <3> DEFINE new == [ptr |-> p, size |-> layout.size]
      <3>2. blk' = g /\ tree' = u /\ live' = live \cup {new}
        BY Zenon, <2>1, <3>1 DEF Mem, Holds
      <3>3. Sound(g, u) /\ Lives(g, live \cup {new}) /\ new \notin live
        BY Zenon, <3>1
      <3> HIDE DEF new
      <3> QED BY Zenon, <3>2, <3>3 DEF CarrierInv, OnePiece
    <2> QED BY Zenon, <2>2, <2>3, <2>4
  <1> QED BY Zenon, <1>2, <1>3

\* The block that owns a held piece is the allocated one it lies in.
LEMMA HeldPlace ==
    ASSUME CarrierInv, fault = "none", NEW l \in live
    PROVE  l \in Held /\ Owner(l.ptr) \in DOMAIN blk /\ Placed(blk, Owner(l.ptr), l)
  <1>1. Tiles(blk) /\ Lives(blk, live)
    BY Zenon DEF CarrierInv, Intact, Sound
  <1>2. PICK b \in DOMAIN blk : l \in Held /\ Placed(blk, b, l)
    BY Zenon, <1>1 DEF Lives
  <1>3. Owner(l.ptr) = b
    BY Zenon, <1>1, <1>2, OwnerFound
  <1> QED BY Zenon, <1>2, <1>3

LEMMA FreeBlockSafe ==
    ASSUME CarrierInv, NEW l \in live, FreeBlock(l)
    PROVE  CarrierInv' /\ OnePiece(live, live')
  <1> DEFINE b == Owner(l.ptr)
             x == Flagged(blk, b, TRUE)
             m == Coalesce(Free(Now, b), b)
  <1>0. Sound(blk, tree) /\ Lives(blk, live)
    BY Zenon DEF CarrierInv, Intact, FreeBlock
  <1>1. Becomes(m, live \ {l})
    BY Zenon DEF FreeBlock
  <1>2. b \in DOMAIN blk /\ Placed(blk, b, l)
    BY Zenon, HeldPlace DEF FreeBlock
  <1>3. PICK y : Free(Now, b) = Mem(x, y, tree \ {b})
    <2>1. FreedTo(Free(Now, b), blk, tree, b)
      BY Zenon, FreeIs DEF Now
    <2> QED BY Zenon, <2>1 DEF FreedTo
  <1> HIDE DEF b
  <1>4. /\ Sound(x, tree \ {b}) /\ Lives(x, live \ {l})
        /\ b \in DOMAIN x /\ x[b].free
    BY Zenon, <1>0, <1>2, FreedSafe
  <1>5. CASE m.fault # "none"
    BY Zenon, <1>0, <1>1, <1>5 DEF Becomes, CarrierInv, OnePiece
  <1>6. CASE m.fault = "none"
    <2>1. blk' = m.blk /\ tree' = m.tree /\ live' = live \ {l}
      BY Zenon, <1>1, <1>6 DEF Becomes
    <2>2. m = Coalesce(Mem(x, y, tree \ {b}), b)
      BY Zenon, <1>3
    <2> HIDE DEF m, x
    <2>3. Sound(m.blk, m.tree) /\ Lives(m.blk, live \ {l})
      BY Zenon, <1>4, <1>6, <2>2, CoalesceSafe
    <2> QED BY Zenon, <2>1, <2>3 DEF CarrierInv, OnePiece
  <1> QED BY Zenon, <1>5, <1>6

\* The data moves to a new block and the old one is freed and linked.
LEMMA MovedSafe ==
    ASSUME CarrierInv, fault = "none", NEW l \in live, NEW layout \in Layouts, NEW b,
           b = Owner(l.ptr),
           NEW r, AllocatedIn(blk, tree, live, layout, r),
           Becomes(Insert(Free(r.mem, b), b), (live \ {l}) \cup Holds(r.ptr, layout.size))
    PROVE  CarrierInv' /\ OnePiece(live, live')
  <1>0. b \in DOMAIN blk /\ Placed(blk, b, l)
    BY Zenon, HeldPlace
  <1>1. PICK g, e, u, p :
          /\ r = [mem |-> Mem(g, e, u), ptr |-> {p}]
          /\ Sound(g, u) /\ Lives(g, live \cup {[ptr |-> p, size |-> layout.size]})
          /\ [ptr |-> p, size |-> layout.size] \notin live
          /\ \A c \in DOMAIN blk, k \in live : Placed(blk, c, k) => Placed(g, c, k)
    BY Zenon DEF AllocatedIn
  <1> DEFINE new == [ptr |-> p, size |-> layout.size]
             M == live \cup {new}
             x == Flagged(g, b, TRUE)
  <1>2. r.mem = Mem(g, e, u) /\ Holds(r.ptr, layout.size) = {new}
    BY Zenon, <1>1 DEF Holds
  <1>3. Sound(g, u) /\ Lives(g, M) /\ new \notin live /\ l \in M
    BY Zenon, <1>1
  <1>4. b \in DOMAIN g /\ Placed(g, b, l)
    BY Zenon, <1>0, <1>1 DEF Placed
  <1> HIDE DEF new
  <1>5. PICK y : Free(Mem(g, e, u), b) = Mem(x, y, u \ {b})
    <2>1. FreedTo(Free(Mem(g, e, u), b), g, u, b)
      BY Zenon, FreeIs
    <2> QED BY Zenon, <2>1 DEF FreedTo
  <1> HIDE DEF M
  <1>6. Sound(x, (u \ {b}) \cup {b}) /\ Lives(x, M \ {l})
    BY Zenon, <1>3, <1>4, FreedSafe
  <1> HIDE DEF x
  <1>7. Insert(Free(r.mem, b), b) = Mem(x, y, (u \ {b}) \cup {b})
    <2>1. Insert(Mem(x, y, u \ {b}), b) = Mem(x, y, (u \ {b}) \cup {b})
      BY DEF Insert, Mem
    <2> QED BY Zenon, <1>2, <1>5, <2>1
  <1>8. blk' = x /\ tree' = (u \ {b}) \cup {b} /\ live' = (live \ {l}) \cup {new}
    BY <1>2, <1>7 DEF Becomes, Mem
  <1>9. M \ {l} = (live \ {l}) \cup {new}
    BY Zenon, <1>3 DEF M
  <1>10. OnePiece(live, live')
    BY Zenon, <1>3, <1>8 DEF OnePiece
  <1> QED BY Zenon, <1>6, <1>8, <1>9, <1>10 DEF CarrierInv

LEMMA ReallocBlockSafe ==
    ASSUME CarrierInv, NEW l \in live, NEW layout \in Layouts, ReallocBlock(l, layout)
    PROVE  CarrierInv' /\ (~Outgrows => OnePiece(live, live'))
  <1> DEFINE b == Owner(l.ptr)
             r == Allocated(Now, layout)
             q == [ptr |-> l.ptr, size |-> layout.size]
             out == Outgrown(b, l.ptr, layout.size)
  <1>0. fault = "none" /\ Sound(blk, tree) /\ Tiles(blk) /\ Lives(blk, live)
    BY Zenon DEF CarrierInv, Intact, Sound, ReallocBlock
  <1>1. l \in Held /\ b \in DOMAIN blk /\ Placed(blk, b, l)
    BY Zenon, <1>0, HeldPlace
  <1>2. q \in Held /\ q.ptr = l.ptr /\ q.size = layout.size
    BY Zenon, <1>1, CarrierAssumption DEF Held
  <1>3. CASE /\ out => Outgrows
             /\ live' = (live \ {l}) \cup Holds({l.ptr}, layout.size)
             /\ fault' = IF out THEN "data beyond its block" ELSE "none"
             /\ UNCHANGED <<blk, foot, tree>>
    <2>1. CASE out
      BY Zenon, <1>0, <1>3, <2>1 DEF CarrierInv, Intact
    <2>2. CASE ~out
      <3>1. ~(l.ptr + layout.size > End(blk, b))
        BY Zenon, <2>2 DEF Outgrown
      <3>2. Holds({l.ptr}, layout.size) = {q}
        BY Zenon DEF Holds
      <3>3. Placed(blk, b, q)
        BY <1>0, <1>1, <1>2, <3>1, EndFacts DEF Placed, Held
      <3> HIDE DEF q, out
      <3>4. Lives(blk, (live \ {l}) \cup {q})
        BY Zenon, <1>0, <1>1, <1>2, <3>3, ResizedSafe DEF q
      <3>5. blk' = blk /\ tree' = tree /\ live' = (live \ {l}) \cup {q}
        BY Zenon, <1>3, <3>2
      <3>6. q \in live => q = l
        BY Zenon, <1>0, <1>1, <3>3 DEF Lives
      <3>7. OnePiece(live, live')
        BY Zenon, <3>5, <3>6 DEF OnePiece
      <3> QED BY Zenon, <1>0, <3>4, <3>5, <3>7 DEF CarrierInv
    <2> QED BY Zenon, <2>1, <2>2
  <1>4. CASE (r.ptr = {} \/ r.mem.fault # "none") /\ Becomes(r.mem, live)
    <2>1. CASE r.mem.fault # "none"
      <3> HIDE DEF r
      <3> QED BY Zenon, <1>0, <1>4, <2>1 DEF Becomes, CarrierInv, OnePiece
    <2>2. CASE r.mem.fault = "none"
      <3>1. r = [mem |-> Now, ptr |-> {}] \/ AllocatedIn(blk, tree, live, layout, r)
        BY Zenon, <1>0, <2>2, AllocSafe DEF Now
      <3> HIDE DEF r
      <3>2. r = [mem |-> Now, ptr |-> {}]
        <4> SUFFICES ASSUME AllocatedIn(blk, tree, live, layout, r) PROVE FALSE
          BY Zenon, <3>1
        <4>1. PICK g, e, u, p : r = [mem |-> Mem(g, e, u), ptr |-> {p}]
          BY Zenon DEF AllocatedIn
        <4> QED BY Zenon, <1>4, <2>2, <4>1
      <3>3. blk' = blk /\ tree' = tree /\ live' = live
        BY Zenon, <1>4, <2>2, <3>2 DEF Becomes, Now, Mem
      <3> QED BY Zenon, <1>0, <3>3 DEF CarrierInv, OnePiece
    <2> QED BY Zenon, <2>1, <2>2
  <1>5. CASE /\ r.ptr # {} /\ r.mem.fault = "none"
             /\ Becomes(Insert(Free(r.mem, b), b), (live \ {l}) \cup Holds(r.ptr, layout.size))
    <2>1. r = [mem |-> Now, ptr |-> {}] \/ AllocatedIn(blk, tree, live, layout, r)
      BY Zenon, <1>0, <1>5, AllocSafe DEF Now
    <2> HIDE DEF r, b
    <2>2. AllocatedIn(blk, tree, live, layout, r)
      BY <1>5, <2>1
    <2>3. b = Owner(l.ptr)
      BY Zenon DEF b
    <2> QED BY Zenon, <1>0, <1>5, <2>2, <2>3, MovedSafe
  <1> QED BY Zenon, <1>3, <1>4, <1>5 DEF ReallocBlock

LEMMA CarrierStepSafe ==
    CarrierInv /\ [CarrierNext]_carrierVars => CarrierInv' /\ (~Outgrows => OnePiece(live, live'))
  <1> SUFFICES ASSUME CarrierInv, [CarrierNext]_carrierVars
               PROVE  CarrierInv' /\ (~Outgrows => OnePiece(live, live'))
    BY Zenon
  <1>1. CASE UNCHANGED carrierVars
    BY Zenon, <1>1 DEF carrierVars, CarrierInv, Intact, OnePiece
  <1>2. ASSUME NEW layout \in Layouts, AllocBlock(layout) PROVE CarrierInv' /\ OnePiece(live, live')
    BY Zenon, <1>2, AllocBlockSafe
  <1>3. ASSUME NEW l \in live, FreeBlock(l) PROVE CarrierInv' /\ OnePiece(live, live')
    BY Zenon, <1>3, FreeBlockSafe
  <1>4. ASSUME NEW l \in live, NEW layout \in Layouts, ReallocBlock(l, layout)
        PROVE  CarrierInv' /\ (~Outgrows => OnePiece(live, live'))
    BY Zenon, <1>4, ReallocBlockSafe
  <1> QED BY Zenon, <1>1, <1>2, <1>3, <1>4 DEF CarrierNext

\* The inductive invariant holds in every state: the blocks tile the carrier,
\* prev_free and the trees follow their flags, and each piece callers hold lies
\* in an allocated block of its own, until one is grown in place past its block.
THEOREM CarrierInvariant == CarrierSpec => []CarrierInv
<1>1. CarrierInit => CarrierInv
  BY Zenon, CarrierInitSafe
<1>2. CarrierInv /\ [CarrierNext]_carrierVars => CarrierInv'
  BY Zenon, CarrierStepSafe
<1> QED BY <1>1, <1>2, PTL DEF CarrierSpec

LEMMA SoundHeaders == CarrierInv => HeadersAgree
  <1> SUFFICES ASSUME CarrierInv PROVE HeadersAgree
    BY Zenon
  <1>0. Tiles(blk) /\ Flags(blk) /\ \A b \in tree : b \in DOMAIN blk /\ blk[b].free
    BY Zenon DEF CarrierInv, Sound
  <1>1. ASSUME NEW a \in DOMAIN blk, NEW b \in DOMAIN blk, End(blk, a) = b
        PROVE  BlockBefore(b) = {a}
    <2>1. ~blk[a].last
      BY <1>0, <1>1, EndFacts, WordFacts DEF Tiles
    <2>2. \A c \in DOMAIN blk : End(blk, c) = b => c = a
      BY Zenon, <1>0, <1>1, SameEnd
    <2> QED BY Zenon, <1>1, <2>1, <2>2 DEF BlockBefore, HasNext, NextBlock
  <1>2. BlockBefore(Head) = {}
    BY <1>0, EndFacts, WordFacts DEF BlockBefore, HasNext, NextBlock, Tiles
  <1>3. \A b \in DOMAIN blk : b # Head => \E a \in DOMAIN blk : End(blk, a) = b
    BY Zenon, <1>0 DEF Tiles
  <1>4. ASSUME NEW b \in DOMAIN blk, b # Head PROVE Cardinality(BlockBefore(b)) = 1
    <2>1. PICK a \in DOMAIN blk : End(blk, a) = b
      BY Zenon, <1>3, <1>4
    <2>2. BlockBefore(b) = {a}
      BY Zenon, <1>1, <2>1
    <2> QED BY Zenon, <2>2, FS_Singleton
  <1>5. BlocksTile
    BY Zenon, <1>0, <1>4 DEF BlocksTile, Tiles, HasNext, NextBlock
  <1>6. ASSUME NEW b \in DOMAIN blk PROVE blk[b].prev_free <=> \E a \in BlockBefore(b) : blk[a].free
    <2>1. CASE b = Head
      BY Zenon, <1>0, <1>2, <2>1 DEF Flags
    <2>2. CASE b # Head
      <3>1. PICK a \in DOMAIN blk : End(blk, a) = b
        BY <1>3, <2>2
      <3>2. BlockBefore(b) = {a}
        BY <1>1, <3>1
      <3>3. blk[b].prev_free <=> blk[a].free
        BY Zenon, <1>0, <3>1 DEF Flags
      <3> QED BY Zenon, <3>2, <3>3
    <2> QED BY Zenon, <2>1, <2>2
  <1> QED BY Zenon, <1>0, <1>5, <1>6 DEF HeadersAgree, PrevFreeIsTrue, TrackedAreFree

\* After any sequence of allocations, frees and moves the headers tile the
\* carrier, prev_free says whether the block before is free, and the trees link
\* free blocks only, for every word size, carrier size and set of layouts.
THEOREM HeadersStayTrue == CarrierSpec => []HeadersAgree
BY CarrierInvariant, SoundHeaders, PTL

(***************************************************************************)
(* What callers hold stays apart                                           *)
(***************************************************************************)
PieceCells(p) == p.ptr..(p.ptr + p.size - 1)

LEMMA PiecesApart ==
    ASSUME NEW h, Tiles(h), NEW L, Lives(h, L), NEW p \in L
    PROVE  /\ PieceCells(p) \subseteq Data(Head)..(Size - 1)
           /\ \A q \in L \ {p} : PieceCells(p) \cap PieceCells(q) = {}
  <1>1. PICK b \in DOMAIN h : p \in Held /\ Placed(h, b, p)
    BY Zenon DEF Lives
  <1>2. /\ p.ptr \in Nat /\ p.size \in Nat /\ Data(b) <= p.ptr /\ p.ptr + p.size <= End(h, b)
        /\ b \in Nat /\ Data(b) = b + Word /\ End(h, b) \in Nat
    BY Zenon, <1>1, EndFacts DEF Placed, Held
  <1>3. Head <= b /\ End(h, b) <= Size
    BY Zenon, <1>1 DEF Tiles
  <1>4. PieceCells(p) \subseteq Data(Head)..(Size - 1)
    BY <1>2, <1>3, WordFacts DEF PieceCells, Data
  <1>5. ASSUME NEW q \in L \ {p} PROVE PieceCells(p) \cap PieceCells(q) = {}
    <2>1. PICK c \in DOMAIN h : q \in Held /\ Placed(h, c, q)
      BY Zenon, <1>5 DEF Lives
    <2>2. c # b
      BY Zenon, <1>1, <1>5, <2>1 DEF Lives
    <2>3. /\ q.ptr \in Nat /\ q.size \in Nat /\ Data(c) <= q.ptr /\ q.ptr + q.size <= End(h, c)
          /\ c \in Nat /\ Data(c) = c + Word /\ End(h, c) \in Nat
      BY Zenon, <2>1, EndFacts DEF Placed, Held
    <2>4. End(h, b) <= c \/ End(h, c) <= b
      <3>0. b \in Nat /\ c \in Nat
        BY Zenon, <1>2, <2>3
      <3>1. b < c \/ c < b
        BY <2>2, <3>0
      <3>2. \A x, y \in DOMAIN h : x < y => End(h, x) <= y
        BY Zenon DEF Tiles
      <3> QED BY Zenon, <3>1, <3>2
    <2> QED BY <1>2, <2>3, <2>4, WordFacts DEF PieceCells
  <1> QED BY Zenon, <1>4, <1>5

LEMMA CarrierStepIsAbstract ==
    ASSUME ~Outgrows, CarrierInv', OnePiece(live, live')
    PROVE  AbstractCarrier!Next \/ UNCHANGED live
  <1>0. Tiles(blk') /\ Lives(blk', live')
    BY Zenon DEF CarrierInv, Intact, Sound
  <1>1. \A p \in live' :
          /\ PieceCells(p) \subseteq Data(Head)..(Size - 1)
          /\ \A q \in live' \ {p} : PieceCells(p) \cap PieceCells(q) = {}
    BY Zenon, <1>0, PiecesApart
  <1>2. AbstractCarrier!Next <=>
          \/ \E p \in live' \ live : AbstractCarrier!Allocate(p)
          \/ \E p \in live \ live' : AbstractCarrier!Deallocate(p)
          \/ \E p \in live \ live', q \in live' \ live : AbstractCarrier!Reallocate(p, q)
    BY Zenon DEF AbstractCarrier!Next
  <1>3. \A p : AbstractCarrier!Allocate(p) <=>
          /\ PieceCells(p) \subseteq Data(Head)..(Size - 1)
          /\ \A q \in live : PieceCells(p) \cap PieceCells(q) = {}
          /\ live' = live \cup {p}
    BY Zenon DEF AbstractCarrier!Allocate, AbstractCarrier!Apart, AbstractCarrier!Cells, PieceCells
  <1>4. \A p : AbstractCarrier!Deallocate(p) <=> live' = live \ {p}
    BY Zenon DEF AbstractCarrier!Deallocate
  <1>5. \A p, q : AbstractCarrier!Reallocate(p, q) <=>
          /\ PieceCells(q) \subseteq Data(Head)..(Size - 1)
          /\ \A k \in live \ {p} : PieceCells(q) \cap PieceCells(k) = {}
          /\ live' = (live \ {p}) \cup {q}
    BY Zenon DEF AbstractCarrier!Reallocate, AbstractCarrier!Apart, AbstractCarrier!Cells, PieceCells
  <1>6. CASE live' = live
    BY Zenon, <1>6
  <1>7. ASSUME NEW p \in live' \ live, live' = live \cup {p} PROVE AbstractCarrier!Next
    <2>1. AbstractCarrier!Allocate(p)
      BY Zenon, <1>1, <1>3, <1>7
    <2> QED BY Zenon, <1>2, <2>1
  <1>8. ASSUME NEW p \in live \ live', live' = live \ {p} PROVE AbstractCarrier!Next
    BY Zenon, <1>2, <1>4, <1>8
  <1>9. ASSUME NEW p \in live \ live', NEW q \in live' \ live, live' = (live \ {p}) \cup {q}
        PROVE  AbstractCarrier!Next
    <2>1. AbstractCarrier!Reallocate(p, q)
      BY Zenon, <1>1, <1>5, <1>9
    <2> QED BY Zenon, <1>2, <2>1
  <1> QED BY Zenon, <1>6, <1>7, <1>8, <1>9 DEF OnePiece

\* Where no caller grows padded data in place past the end of its block, what
\* callers hold never overlaps and never leaves the carrier, although blocks are
\* cut, padded, merged and moved underneath: the carrier implements the abstract
\* allocator, for every word size, carrier size and set of layouts.
THEOREM CarrierImplementsAllocator == ~Outgrows => (CarrierSpec => KeepsDataApart)
<1> SUFFICES ASSUME ~Outgrows PROVE CarrierSpec => KeepsDataApart
  OBVIOUS
<1>1. CarrierInit => AbstractCarrier!Init
  BY Zenon DEF CarrierInit, AbstractCarrier!Init
<1>2. CarrierInv /\ [CarrierNext]_carrierVars => CarrierInv' /\ [AbstractCarrier!Next]_live
  BY Zenon, CarrierStepSafe, CarrierStepIsAbstract
<1> QED BY <1>1, <1>2, CarrierInitSafe, PTL DEF CarrierSpec, KeepsDataApart, AbstractCarrier!Spec

=============================================================================
