---------------------------- MODULE MemoryProofs ----------------------------
(***************************************************************************)
(* Proofs about two parts of the memory of processes: the lock-free bit    *)
(* set of a slab, for any number of threads, slabs and blocks, and         *)
(* HeapSizing, for every table of heap sizes, minimum, limit and request.  *)
(***************************************************************************)
EXTENDS BlockBitSet, HeapSizing, TLAPS

(***************************************************************************)
(* The slab: the inductive invariant                                       *)
(***************************************************************************)
Sub == 0..subset_len - 1
BitsOf(i) == 0..SubsetBitLen(i) - 1

BitTypeOK ==
    /\ slab \in Slabs /\ block \in Blocks /\ block_len > 1
    /\ word \in [Sub -> SUBSET Nat]
    /\ held \subseteq Nat \X Thread
    /\ pc \in [Thread -> {"idle", "load", "exchange", "err"}]
    /\ at \in [Thread -> [sub : Sub, bit : Nat, current : SUBSET Nat]]
    /\ disturbed \in [Thread -> BOOLEAN]

\* A bit is set if and only if its block is held, and by one caller.
BitsAreHeld ==
    /\ \A i \in Sub : word[i] \subseteq BitsOf(i)
    /\ \A i \in Sub : \A bit \in word[i] : \E t \in Thread : <<SetBit(i, bit), t>> \in held
    /\ \A x \in held : \E i \in Sub : \E bit \in word[i] : x[1] = SetBit(i, bit)
    /\ \A x, y \in held : x[1] = y[1] => x = y

\* All bits before bit b of word s are set.
SetBefore(s, b) ==
    \A i \in Sub : \A bit \in BitsOf(i) : i < s \/ (i = s /\ bit < b) => bit \in word[i]

\* A walk that nobody disturbed has seen nothing but set bits, and a word it
\* has loaded is still the same.
Walks(t) ==
    LET w == at[t]
    IN  /\ pc[t] = "load" => w.bit \in BitsOf(w.sub) \/ (w.bit = 0 /\ SubsetBitLen(w.sub) = 0)
        /\ pc[t] = "exchange" => w.bit \in BitsOf(w.sub) /\ w.bit \notin w.current
        /\ ~disturbed[t] =>
              /\ pc[t] \in {"load", "exchange"} => SetBefore(w.sub, w.bit)
              /\ pc[t] = "exchange" => word[w.sub] = w.current
              /\ pc[t] = "err" => SetBefore(subset_len, 0)

BitInv == BitTypeOK /\ BitsAreHeld /\ \A t \in Thread : Walks(t)

(***************************************************************************)
(* Indices and bits                                                        *)
(***************************************************************************)
LEMMA Split ==
    ASSUME NEW n \in Nat \ {0}, NEW a \in Nat
    PROVE  a \div n \in Nat /\ a % n \in 0..n - 1 /\ a = (a \div n) * n + (a % n)
  OBVIOUS

LEMMA Multiples ==
    ASSUME NEW n \in Nat \ {0}, NEW i \in Nat, NEW j \in Nat, i < j
    PROVE  i * n + n <= j * n
  <1>1. j - i - 1 \in Nat
    OBVIOUS
  <1>2. (j - i - 1) * n \in Nat
    BY <1>1
  <1>3. j * n = (j - i - 1) * n + i * n + n
    OBVIOUS
  <1> QED BY <1>2, <1>3

\* A number is split in one way.
LEMMA OneSplit ==
    ASSUME NEW n \in Nat \ {0}, NEW i \in Nat, NEW j \in Nat, NEW b \in 0..n - 1, NEW c \in 0..n - 1,
           i * n + b = j * n + c
    PROVE  i = j /\ b = c
  <1>0. i * n \in Nat /\ j * n \in Nat
    OBVIOUS
  <1>1. ~(i < j)
    <2> SUFFICES ASSUME i < j PROVE FALSE
      BY Zenon
    <2>1. i * n + n <= j * n
      BY Zenon, Multiples
    <2> QED BY <1>0, <2>1
  <1>2. ~(j < i)
    <2> SUFFICES ASSUME j < i PROVE FALSE
      BY Zenon
    <2>1. j * n + n <= i * n
      BY Zenon, Multiples
    <2> QED BY <1>0, <2>1
  <1> QED BY <1>1, <1>2

LEMMA SplitOf ==
    ASSUME NEW n \in Nat \ {0}, NEW i \in Nat, NEW b \in 0..n - 1
    PROVE  (i * n + b) \div n = i /\ (i * n + b) % n = b
  <1>1. i * n + b \in Nat
    OBVIOUS
  <1>2. PICK a \in Nat : a = i * n + b
    BY Zenon, <1>1
  <1>3. a \div n \in Nat /\ a % n \in 0..n - 1 /\ a = (a \div n) * n + (a % n)
    BY Zenon, Split
  <1> QED BY <1>2, <1>3, OneSplit

(***************************************************************************)
(* The layout of the slab                                                  *)
(***************************************************************************)
LEMMA SlabLayoutFacts ==
    ASSUME slab \in Slabs, block \in Blocks, block_len > 1
    PROVE  /\ Bits \in Nat \ {0} /\ block \in Nat \ {0} /\ block_len \in Nat
           /\ subset_len \in Nat \ {0} /\ Sub \subseteq Nat
           /\ \A i \in Sub : SubsetBitLen(i) \in 0..Bits /\ BitsOf(i) \subseteq 0..Bits - 1
  <1>0. /\ Bits \in Nat \ {0} /\ block \in Nat \ {0} /\ slab \in Nat /\ WordSize \in Nat \ {0}
    BY Zenon, BitSetAssumption
  <1>1. block_len \in Int
    <2> DEFINE usable == slab - WordSize
               unit == WordSize + block * Bits
               full == usable \div unit
               rest == usable - full * unit
    <2>1. usable \in Int /\ unit \in Nat \ {0}
      BY <1>0
    <2>2. full \in Int
      <3> HIDE DEF usable, unit
      <3> QED BY <2>1
    <2>3. rest \in Int /\ full * Bits \in Int
      <3> HIDE DEF usable, unit, full
      <3> QED BY <1>0, <2>1, <2>2 DEF rest
    <2>4. (rest - WordSize) \div block \in Int
      <3> HIDE DEF rest
      <3> QED BY <1>0, <2>3
    <2>5. block_len = full * Bits + (IF rest > WordSize THEN (rest - WordSize) \div block ELSE 0)
      BY Zenon DEF block_len, BlockLen
    <2> HIDE DEF full, rest
    <2> QED BY <2>3, <2>4, <2>5
  <1>2. block_len \in Nat
    BY <1>1
  <1> DEFINE full == block_len \div Bits
  <1>3. full \in Nat /\ full * Bits <= block_len
    <2>1. PICK a \in Nat : a = block_len
      BY Zenon, <1>2
    <2>2. a \div Bits \in Nat /\ a % Bits \in 0..Bits - 1 /\ a = (a \div Bits) * Bits + (a % Bits)
      BY Zenon, <1>0, Split
    <2>3. full = a \div Bits
      BY Zenon, <2>1
    <2> HIDE DEF full
    <2> QED BY <1>0, <2>1, <2>2, <2>3
  <1>4. subset_len = (IF full % Bits = 0 THEN full + 1 ELSE full)
    BY Zenon DEF subset_len, SubsetLen
  <1>5. full = 0 => full % Bits = 0
    <2>1. 0 \div Bits \in Nat /\ 0 % Bits \in 0..Bits - 1 /\ 0 = (0 \div Bits) * Bits + (0 % Bits)
      BY Zenon, <1>0, Split
    <2>2. (0 \div Bits) * Bits \in Nat
      BY <1>0, <2>1
    <2>3. 0 % Bits = 0
      BY <1>0, <2>1, <2>2
    <2> QED BY Zenon, <2>3
  <1> HIDE DEF full
  <1>6. subset_len \in Nat \ {0} /\ subset_len <= full + 1
    BY <1>3, <1>4, <1>5
  <1>7. ASSUME NEW i \in Sub PROVE SubsetBitLen(i) \in 0..Bits
    <2>1. i \in Nat /\ i <= full
      BY <1>3, <1>6 DEF Sub
    <2>2. i * Bits <= full * Bits /\ i * Bits \in Nat /\ full * Bits \in Nat
      BY <1>0, <1>3, <2>1, Multiples
    <2>3. PICK d \in Nat : d = block_len - Bits * i
      BY <1>0, <1>2, <1>3, <2>1, <2>2
    <2>4. Min({Bits, d}) \in {Bits, d} /\ Min({Bits, d}) <= Bits
      BY <1>0 DEF Min
    <2> QED BY <1>0, <2>3, <2>4 DEF SubsetBitLen
  <1>8. Sub \subseteq Nat
    BY <1>6 DEF Sub
  <1>9. \A i \in Sub : BitsOf(i) \subseteq 0..Bits - 1
    BY <1>0, <1>7 DEF BitsOf
  <1> QED BY Zenon, <1>0, <1>2, <1>6, <1>7, <1>8, <1>9

\* The layout never changes.
LEMMA LayoutStays ==
    ASSUME UNCHANGED <<slab, block>>
    PROVE  /\ subset_len' = subset_len /\ block_len' = block_len /\ Sub' = Sub
           /\ \A i : BitsOf(i)' = BitsOf(i) /\ SubsetBitLen(i)' = SubsetBitLen(i)
           /\ \A i : BlockOffset(i)' = BlockOffset(i)
  BY Zenon DEF subset_len, block_len, Sub, BitsOf, SubsetBitLen, BlockOffset, HeadOffset

\* A bit has one place in the slab.
LEMMA OneBit ==
    ASSUME BitTypeOK, NEW i \in Sub, NEW j \in Sub, NEW b \in BitsOf(i), NEW c \in BitsOf(j),
           SetBit(i, b) = SetBit(j, c)
    PROVE  i = j /\ b = c
  <1>1. Bits \in Nat \ {0} /\ i \in Nat /\ j \in Nat /\ b \in 0..Bits - 1 /\ c \in 0..Bits - 1
    BY Zenon, SlabLayoutFacts DEF BitTypeOK
  <1> QED BY <1>1, OneSplit DEF SetBit

(***************************************************************************)
(* The steps of a walk                                                     *)
(***************************************************************************)
LEMMA BitInitSafe == Init => BitInv
  <1> SUFFICES ASSUME Init PROVE BitInv
    BY Zenon
  <1>1. subset_len \in Nat \ {0} /\ 0 \in Sub
    BY SlabLayoutFacts DEF Init, Sub
  <1>2. BitTypeOK
    BY Zenon, <1>1 DEF Init, BitTypeOK, Sub
  <1>3. BitsAreHeld
    BY Zenon DEF Init, BitsAreHeld, Sub
  <1>4. \A t \in Thread : Walks(t)
    BY Zenon DEF Init, Walks
  <1> QED BY Zenon, <1>2, <1>3, <1>4 DEF BitInv

\* The walk goes on at the next bit that there is, with the bits before it set
\* when it has just seen a set bit; or it ends behind the last one.
LEMMA AdvanceFacts ==
    ASSUME BitTypeOK, NEW t \in Thread, at[t].bit \in Nat, Advance(t)
    PROVE  /\ pc' \in [Thread -> {"idle", "load", "exchange", "err"}]
           /\ at' \in [Thread -> [sub : Sub, bit : Nat, current : SUBSET Nat]]
           /\ \A u \in Thread : u # t => pc'[u] = pc[u] /\ at'[u] = at[u]
           /\ \/ /\ pc'[t] = "load"
                 /\ \/ at'[t].bit \in BitsOf(at'[t].sub)
                    \/ at'[t].bit = 0 /\ SubsetBitLen(at'[t].sub) = 0
                 /\ SetBefore(at[t].sub, at[t].bit + 1) => SetBefore(at'[t].sub, at'[t].bit)
              \/ /\ pc'[t] = "err"
                 /\ SetBefore(at[t].sub, at[t].bit + 1) => SetBefore(subset_len, 0)
  <1> DEFINE w == at[t]
  <1>0. /\ pc \in [Thread -> {"idle", "load", "exchange", "err"}]
        /\ at \in [Thread -> [sub : Sub, bit : Nat, current : SUBSET Nat]]
        /\ w.sub \in Sub /\ w.sub \in Nat /\ w.bit \in Nat /\ subset_len \in Nat \ {0} /\ Sub \subseteq Nat
        /\ \A i \in Sub : SubsetBitLen(i) \in Nat
        /\ \A i \in Sub : i \in Nat /\ i < subset_len
    BY SlabLayoutFacts DEF BitTypeOK, Sub
  <1>1. \A i \in Sub : \A bit \in BitsOf(i) : bit \in Nat /\ bit < SubsetBitLen(i)
    BY <1>0 DEF BitsOf
  <1>2. CASE w.bit + 1 < SubsetBitLen(w.sub)
    <2>1. pc' = [pc EXCEPT ![t] = "load"] /\ at' = [at EXCEPT ![t] = Walk(w.sub, w.bit + 1, {})]
      BY <1>0, <1>2 DEF Advance
    <2>2. Walk(w.sub, w.bit + 1, {}) \in [sub : Sub, bit : Nat, current : SUBSET Nat]
      BY <1>0 DEF Walk
    <2>3. at'[t].sub = w.sub /\ at'[t].bit = w.bit + 1 /\ pc'[t] = "load"
      BY Zenon, <1>0, <2>1 DEF Walk
    <2>4. w.bit + 1 \in BitsOf(w.sub)
      BY <1>0, <1>2 DEF BitsOf
    <2> QED BY Zenon, <1>0, <2>1, <2>2, <2>3, <2>4
  <1>3. CASE w.bit + 1 >= SubsetBitLen(w.sub) /\ w.sub + 1 < subset_len
    <2>1. pc' = [pc EXCEPT ![t] = "load"] /\ at' = [at EXCEPT ![t] = Walk(w.sub + 1, 0, {})]
      BY <1>0, <1>3 DEF Advance
    <2>2. Walk(w.sub + 1, 0, {}) \in [sub : Sub, bit : Nat, current : SUBSET Nat] /\ w.sub + 1 \in Sub
      BY <1>0, <1>3 DEF Walk, Sub
    <2>3. at'[t].sub = w.sub + 1 /\ at'[t].bit = 0 /\ pc'[t] = "load"
      BY Zenon, <1>0, <2>1 DEF Walk
    <2>4. 0 \in BitsOf(w.sub + 1) \/ SubsetBitLen(w.sub + 1) = 0
      BY <1>0, <2>2 DEF BitsOf
    <2>5. SetBefore(w.sub, w.bit + 1) => SetBefore(w.sub + 1, 0)
      <3> SUFFICES ASSUME SetBefore(w.sub, w.bit + 1), NEW i \in Sub, NEW bit \in BitsOf(i),
                          i < w.sub + 1 \/ (i = w.sub + 1 /\ bit < 0)
                   PROVE  bit \in word[i]
        BY Zenon DEF SetBefore
      <3>0. i < w.sub + 1
        BY <1>0, <1>1
      <3>1. i < w.sub \/ (i = w.sub /\ bit < w.bit + 1)
        BY <1>0, <1>1, <1>3, <3>0
      <3> QED BY Zenon, <3>1 DEF SetBefore
    <2> QED BY Zenon, <1>0, <2>1, <2>2, <2>3, <2>4, <2>5
  <1>4. CASE ~(w.bit + 1 < SubsetBitLen(w.sub)) /\ ~(w.bit + 1 >= SubsetBitLen(w.sub) /\ w.sub + 1 < subset_len)
    <2>1. pc' = [pc EXCEPT ![t] = "err"] /\ at' = [at EXCEPT ![t] = Walk(0, 0, {})]
      BY Zenon, <1>4 DEF Advance
    <2>2. Walk(0, 0, {}) \in [sub : Sub, bit : Nat, current : SUBSET Nat]
      BY <1>0 DEF Walk, Sub
    <2>3. SetBefore(w.sub, w.bit + 1) => SetBefore(subset_len, 0)
      <3> SUFFICES ASSUME SetBefore(w.sub, w.bit + 1), NEW i \in Sub, NEW bit \in BitsOf(i)
                   PROVE  bit \in word[i]
        BY Zenon DEF SetBefore
      <3>0. w.bit + 1 >= SubsetBitLen(w.sub) /\ w.sub + 1 >= subset_len
        BY <1>0, <1>4
      <3>1. i < w.sub \/ (i = w.sub /\ bit < w.bit + 1)
        BY <1>0, <1>1, <3>0
      <3> QED BY Zenon, <3>1 DEF SetBefore
    <2> QED BY Zenon, <1>0, <2>1, <2>2, <2>3
  <1> QED BY Zenon, <1>2, <1>3, <1>4

LEMMA StartSafe == ASSUME BitInv, NEW t \in Thread, Start(t) PROVE BitInv'
  <1>0. BitTypeOK /\ BitsAreHeld /\ \A u \in Thread : Walks(u)
    BY Zenon DEF BitInv
  <1>1. subset_len' = subset_len /\ block_len' = block_len /\ Sub' = Sub
        /\ \A i : BitsOf(i)' = BitsOf(i) /\ SubsetBitLen(i)' = SubsetBitLen(i)
    BY Zenon, LayoutStays DEF Start
  <1>2. 0 \in Sub /\ \A i \in Sub : i \in Nat /\ SubsetBitLen(i) \in Nat
    BY <1>0, SlabLayoutFacts DEF BitTypeOK, Sub
  <1>3. BitTypeOK'
    BY Zenon, <1>0, <1>1, <1>2 DEF BitTypeOK, Start, Walk
  <1>4. BitsAreHeld'
    BY Zenon, <1>0, <1>1 DEF BitsAreHeld, Start
  <1>5. \A u \in Thread : u # t => Walks(u)'
    <2> TAKE u \in Thread
    <2> HAVE u # t
    <2>1. pc'[u] = pc[u] /\ at'[u] = at[u] /\ disturbed'[u] = disturbed[u] /\ word' = word
      BY Zenon, <1>0 DEF BitTypeOK, Start
    <2> QED BY <1>0, <1>1, <2>1 DEF Walks, SetBefore
  <1>6. Walks(t)'
    <2>1. pc'[t] = "load" /\ at'[t].sub = 0 /\ at'[t].bit = 0
      BY Zenon, <1>0 DEF BitTypeOK, Start, Walk
    <2>2. 0 \in BitsOf(0) \/ SubsetBitLen(0) = 0
      BY <1>2 DEF BitsOf
    <2>3. \A i \in Sub : \A bit \in BitsOf(i) : ~(i < 0 \/ (i = 0 /\ bit < 0))
      BY <1>2 DEF BitsOf
    <2>4. SetBefore(0, 0)'
      BY Zenon, <1>1, <2>3 DEF SetBefore
    <2> QED BY Zenon, <1>1, <2>1, <2>2, <2>4 DEF Walks
  <1> QED BY Zenon, <1>3, <1>4, <1>5, <1>6 DEF BitInv

\* Only the walk of the thread changes.
LEMMA WalksOn ==
    ASSUME BitInv, NEW t \in Thread, UNCHANGED <<slab, block, word, held, disturbed>>,
           pc' \in [Thread -> {"idle", "load", "exchange", "err"}],
           at' \in [Thread -> [sub : Sub, bit : Nat, current : SUBSET Nat]],
           \A u \in Thread : u # t => pc'[u] = pc[u] /\ at'[u] = at[u],
           Walks(t)'
    PROVE  BitInv'
  <1>0. BitTypeOK /\ BitsAreHeld /\ \A u \in Thread : Walks(u)
    BY Zenon DEF BitInv
  <1>1. subset_len' = subset_len /\ block_len' = block_len /\ Sub' = Sub
        /\ \A i : BitsOf(i)' = BitsOf(i) /\ SubsetBitLen(i)' = SubsetBitLen(i)
    BY Zenon, LayoutStays
  <1>2. BitTypeOK'
    BY Zenon, <1>0, <1>1 DEF BitTypeOK
  <1>3. BitsAreHeld'
    BY Zenon, <1>0, <1>1 DEF BitsAreHeld
  <1>4. \A u \in Thread : u # t => Walks(u)'
    BY <1>0, <1>1 DEF Walks, SetBefore
  <1> QED BY Zenon, <1>2, <1>3, <1>4 DEF BitInv

LEMMA LoadSafe == ASSUME BitInv, NEW t \in Thread, Load(t) PROVE BitInv'
  <1> DEFINE w == at[t]
  <1>0. /\ BitTypeOK /\ Walks(t) /\ pc[t] = "load" /\ UNCHANGED <<slab, block, word, held, disturbed>>
        /\ w \in [sub : Sub, bit : Nat, current : SUBSET Nat] /\ w.sub \in Sub /\ w.bit \in Nat
    BY Zenon DEF BitInv, BitTypeOK, Load
  <1>1. subset_len' = subset_len /\ block_len' = block_len /\ Sub' = Sub
        /\ \A i : BitsOf(i)' = BitsOf(i) /\ SubsetBitLen(i)' = SubsetBitLen(i)
    BY Zenon, <1>0, LayoutStays
  <1>2. \A s, b : SetBefore(s, b)' <=> SetBefore(s, b)
    BY Zenon, <1>0, <1>1 DEF SetBefore
  <1>3. CASE SubsetBitLen(w.sub) = 0 \/ w.bit \in word[w.sub]
    <2>1. Advance(t)
      BY Zenon, <1>3 DEF Load
    <2>2. ASSUME ~disturbed[t] PROVE SetBefore(w.sub, w.bit + 1)
      <3>1. SetBefore(w.sub, w.bit)
        BY Zenon, <1>0, <2>2 DEF Walks
      <3> SUFFICES ASSUME NEW i \in Sub, NEW bit \in BitsOf(i), i < w.sub \/ (i = w.sub /\ bit < w.bit + 1)
                   PROVE  bit \in word[i]
        BY Zenon DEF SetBefore
      <3>2. bit \in Nat /\ (SubsetBitLen(i) = 0 => FALSE)
        BY <1>0, SlabLayoutFacts DEF BitTypeOK, BitsOf
      <3>3. CASE i < w.sub \/ (i = w.sub /\ bit < w.bit)
        BY Zenon, <3>1, <3>3 DEF SetBefore
      <3>4. CASE i = w.sub /\ bit = w.bit
        BY Zenon, <1>3, <3>2, <3>4
      <3> QED BY <1>0, <3>2, <3>3, <3>4
    <2>3. /\ pc' \in [Thread -> {"idle", "load", "exchange", "err"}]
          /\ at' \in [Thread -> [sub : Sub, bit : Nat, current : SUBSET Nat]]
          /\ \A u \in Thread : u # t => pc'[u] = pc[u] /\ at'[u] = at[u]
          /\ \/ /\ pc'[t] = "load"
                /\ \/ at'[t].bit \in BitsOf(at'[t].sub)
                   \/ at'[t].bit = 0 /\ SubsetBitLen(at'[t].sub) = 0
                /\ SetBefore(w.sub, w.bit + 1) => SetBefore(at'[t].sub, at'[t].bit)
             \/ /\ pc'[t] = "err"
                /\ SetBefore(w.sub, w.bit + 1) => SetBefore(subset_len, 0)
      BY Zenon, <1>0, <2>1, AdvanceFacts
    <2>4. Walks(t)'
      BY Zenon, <1>0, <1>1, <1>2, <2>2, <2>3 DEF Walks
    <2> QED BY Zenon, <1>0, <2>3, <2>4, WalksOn
  <1>4. CASE ~(SubsetBitLen(w.sub) = 0 \/ w.bit \in word[w.sub])
    <2>1. /\ pc' = [pc EXCEPT ![t] = "exchange"] /\ at' = [at EXCEPT ![t].current = word[w.sub]]
      BY Zenon, <1>4 DEF Load
    <2>2. word[w.sub] \in SUBSET Nat
      BY Zenon, <1>0 DEF BitTypeOK
    <2>3. /\ pc' \in [Thread -> {"idle", "load", "exchange", "err"}]
          /\ at' \in [Thread -> [sub : Sub, bit : Nat, current : SUBSET Nat]]
          /\ \A u \in Thread : u # t => pc'[u] = pc[u] /\ at'[u] = at[u]
          /\ pc'[t] = "exchange" /\ at'[t].sub = w.sub /\ at'[t].bit = w.bit /\ at'[t].current = word[w.sub]
      BY Zenon, <1>0, <2>1, <2>2 DEF BitTypeOK
    <2>4. w.bit \in BitsOf(w.sub) /\ (~disturbed[t] => SetBefore(w.sub, w.bit))
      BY Zenon, <1>0, <1>4 DEF Walks
    <2>5. Walks(t)'
      BY Zenon, <1>0, <1>1, <1>2, <1>4, <2>3, <2>4 DEF Walks
    <2> QED BY Zenon, <1>0, <2>3, <2>5, WalksOn
  <1> QED BY Zenon, <1>3, <1>4

\* Bits change and everybody else who is walking is told.
LEMMA OthersAreTold ==
    ASSUME BitInv, NEW t \in Thread, UNCHANGED <<slab, block>>, Disturbs(t),
           NEW u \in Thread, u # t, pc'[u] = pc[u], at'[u] = at[u]
    PROVE  Walks(u)'
  <1>1. \A i : BitsOf(i)' = BitsOf(i) /\ SubsetBitLen(i)' = SubsetBitLen(i)
    BY Zenon, LayoutStays
  <1>2. ~disturbed'[u] => pc[u] = "idle"
    BY Zenon DEF Disturbs
  <1>3. Walks(u)
    BY Zenon DEF BitInv
  <1> QED BY Zenon, <1>1, <1>2, <1>3 DEF Walks

LEMMA ExchangeWins ==
    ASSUME BitInv, NEW t \in Thread, Exchange(t), Exchanged(t)
    PROVE  /\ BitInv'
           /\ \A x \in held : x[1] # SetBit(at[t].sub, at[t].bit)
           /\ held' = held \cup {<<SetBit(at[t].sub, at[t].bit), t>>}
           /\ at[t].sub \in Sub /\ at[t].bit \in BitsOf(at[t].sub) /\ UNCHANGED <<slab, block>>
  <1> DEFINE w == at[t]
             k == SetBit(w.sub, w.bit)
  <1>0. /\ BitTypeOK /\ BitsAreHeld /\ pc[t] = "exchange" /\ UNCHANGED <<slab, block>>
        /\ w.sub \in Sub /\ w.bit \in BitsOf(w.sub) /\ w.bit \notin word[w.sub] /\ w.bit \in Nat
    BY Zenon DEF BitInv, BitTypeOK, Exchange, Walks, Exchanged
  <1>1. /\ word' = [word EXCEPT ![w.sub] = word[w.sub] \cup {w.bit}]
        /\ held' = held \cup {<<k, t>>}
        /\ pc' = [pc EXCEPT ![t] = "idle"] /\ at' = [at EXCEPT ![t] = Walk(0, 0, {})] /\ Disturbs(t)
    BY Zenon DEF Exchange, Exchanged
  <1>2. subset_len' = subset_len /\ block_len' = block_len /\ Sub' = Sub
        /\ \A i : BitsOf(i)' = BitsOf(i) /\ SubsetBitLen(i)' = SubsetBitLen(i)
    BY Zenon, <1>0, LayoutStays
  <1>3. 0 \in Sub /\ Bits \in Nat /\ w.sub \in Nat /\ k \in Nat
    BY <1>0, SlabLayoutFacts DEF BitTypeOK, Sub, SetBit
  <1>4. ASSUME NEW x \in held PROVE x[1] # k
    <2>1. PICK i \in Sub : \E bit \in word[i] : x[1] = SetBit(i, bit)
      BY Zenon, <1>0 DEF BitsAreHeld
    <2>2. PICK bit \in word[i] : x[1] = SetBit(i, bit)
      BY Zenon, <2>1
    <2>3. bit \in BitsOf(i)
      BY Zenon, <1>0 DEF BitsAreHeld
    <2> QED BY <1>0, <2>2, <2>3, OneBit
  <1> HIDE DEF k
  <1>5. BitTypeOK'
    <2>1. word' \in [Sub -> SUBSET Nat] /\ held' \subseteq Nat \X Thread
      BY <1>0, <1>1, <1>3 DEF BitTypeOK
    <2>2. Walk(0, 0, {}) \in [sub : Sub, bit : Nat, current : SUBSET Nat]
      BY Zenon, <1>3 DEF Walk
    <2>3. disturbed' \in [Thread -> BOOLEAN]
      BY Zenon, <1>0, <1>1 DEF BitTypeOK, Disturbs
    <2> QED BY Zenon, <1>0, <1>1, <1>2, <2>1, <2>2, <2>3 DEF BitTypeOK
  <1>6. \A i \in Sub : word'[i] = IF i = w.sub THEN word[i] \cup {w.bit} ELSE word[i]
    BY Zenon, <1>0, <1>1 DEF BitTypeOK
  <1>7. BitsAreHeld'
    <2>1. \A i \in Sub : word'[i] \subseteq BitsOf(i)
      BY Zenon, <1>0, <1>6 DEF BitsAreHeld
    <2>2. ASSUME NEW i \in Sub, NEW bit \in word'[i] PROVE \E u \in Thread : <<SetBit(i, bit), u>> \in held'
      <3>1. CASE bit \in word[i]
        BY Zenon, <1>0, <1>1, <3>1 DEF BitsAreHeld
      <3>2. CASE i = w.sub /\ bit = w.bit
        BY Zenon, <1>1, <3>2 DEF k
      <3> QED BY Zenon, <1>6, <3>1, <3>2
    <2>3. ASSUME NEW x \in held' PROVE \E i \in Sub : \E bit \in word'[i] : x[1] = SetBit(i, bit)
      <3>1. CASE x \in held
        <4>1. PICK i \in Sub : \E bit \in word[i] : x[1] = SetBit(i, bit)
          BY Zenon, <1>0, <3>1 DEF BitsAreHeld
        <4> QED BY Zenon, <1>6, <4>1
      <3>2. CASE x = <<k, t>>
        <4>1. x[1] = SetBit(w.sub, w.bit) /\ w.bit \in word'[w.sub]
          BY Zenon, <1>0, <1>6, <3>2 DEF k
        <4> QED BY Zenon, <1>0, <4>1
      <3> QED BY Zenon, <1>1, <3>1, <3>2
    <2>4. ASSUME NEW x \in held', NEW y \in held', x[1] = y[1] PROVE x = y
      <3>1. x \in held /\ y \in held => x = y
        BY Zenon, <1>0, <2>4 DEF BitsAreHeld
      <3> QED BY <1>1, <1>4, <2>4, <3>1
    <2> QED BY Zenon, <1>2, <2>1, <2>2, <2>3, <2>4 DEF BitsAreHeld
  <1>8. \A u \in Thread : Walks(u)'
    <2> TAKE u \in Thread
    <2>1. CASE u = t
      <3>1. pc'[t] = "idle"
        BY Zenon, <1>0, <1>1 DEF BitTypeOK
      <3> QED BY Zenon, <2>1, <3>1 DEF Walks
    <2>2. CASE u # t
      BY Zenon, <1>0, <1>1, <2>2, OthersAreTold DEF BitTypeOK
    <2> QED BY Zenon, <2>1, <2>2
  <1> QED BY Zenon, <1>0, <1>1, <1>4, <1>5, <1>7, <1>8 DEF BitInv, k

LEMMA ExchangeLoses ==
    ASSUME BitInv, NEW t \in Thread, Exchange(t), ~Exchanged(t)
    PROVE  BitInv' /\ UNCHANGED <<slab, block, held>>
  <1>0. /\ BitTypeOK /\ Walks(t) /\ pc[t] = "exchange" /\ UNCHANGED <<slab, block, word, held, disturbed>>
        /\ at[t].bit \in Nat /\ Advance(t) /\ disturbed[t] \in BOOLEAN
    BY Zenon DEF BitInv, BitTypeOK, Exchange, Lost
  <1>1. subset_len' = subset_len /\ \A i : BitsOf(i)' = BitsOf(i) /\ SubsetBitLen(i)' = SubsetBitLen(i)
    BY Zenon, <1>0, LayoutStays
  <1>2. disturbed[t]
    BY Zenon, <1>0 DEF Walks, Exchanged
  <1>3. /\ pc' \in [Thread -> {"idle", "load", "exchange", "err"}]
        /\ at' \in [Thread -> [sub : Sub, bit : Nat, current : SUBSET Nat]]
        /\ \A u \in Thread : u # t => pc'[u] = pc[u] /\ at'[u] = at[u]
        /\ \/ /\ pc'[t] = "load"
              /\ \/ at'[t].bit \in BitsOf(at'[t].sub)
                 \/ at'[t].bit = 0 /\ SubsetBitLen(at'[t].sub) = 0
              /\ SetBefore(at[t].sub, at[t].bit + 1) => SetBefore(at'[t].sub, at'[t].bit)
           \/ /\ pc'[t] = "err"
              /\ SetBefore(at[t].sub, at[t].bit + 1) => SetBefore(subset_len, 0)
    BY Zenon, <1>0, AdvanceFacts
  <1>4. Walks(t)'
    BY Zenon, <1>0, <1>1, <1>2, <1>3 DEF Walks
  <1> QED BY Zenon, <1>0, <1>3, <1>4, WalksOn

\* The pointer of a block gives its index back.
LEMMA IndexOfBlock ==
    ASSUME BitTypeOK, NEW i \in Nat
    PROVE  IndexOf(BlockOffset(i)) = i
  <1>1. block \in Nat \ {0} /\ HeadOffset \in Int /\ i * block \in Nat
    BY SlabLayoutFacts, BitSetAssumption DEF BitTypeOK, HeadOffset
  <1>2. BlockOffset(i) - HeadOffset = i * block + 0
    BY <1>1 DEF BlockOffset
  <1>3. (i * block + 0) \div block = i
    BY <1>1, SplitOf
  <1> QED BY Zenon, <1>2, <1>3 DEF IndexOf

LEMMA FreeSafe ==
    ASSUME BitInv, NEW t \in Thread, NEW b \in held, FreeSlabBlock(t, b)
    PROVE  BitInv' /\ held' = held \ {b} /\ UNCHANGED <<slab, block>>
  <1>0. BitTypeOK /\ BitsAreHeld /\ UNCHANGED <<slab, block, pc, at>> /\ Disturbs(t) /\ pc[t] = "idle"
        /\ held' = held \ {b} /\ b[1] \in Nat
    BY Zenon DEF BitInv, FreeSlabBlock, BitTypeOK
  <1>1. PICK s \in Sub : \E bit \in word[s] : b[1] = SetBit(s, bit)
    BY Zenon, <1>0 DEF BitsAreHeld
  <1>2. PICK c \in word[s] : b[1] = SetBit(s, c)
    BY Zenon, <1>1
  <1>3. c \in BitsOf(s) /\ s \in Nat /\ c \in 0..Bits - 1 /\ Bits \in Nat \ {0}
    BY Zenon, <1>0, SlabLayoutFacts DEF BitsAreHeld, BitTypeOK
  <1>4. b[1] \div Bits = s /\ b[1] % Bits = c
    BY Zenon, <1>2, <1>3, SplitOf DEF SetBit
  <1>5. word' = [word EXCEPT ![s] = @ \ {c}]
    BY Zenon, <1>0, <1>4, IndexOfBlock DEF FreeSlabBlock
  <1>6. subset_len' = subset_len /\ block_len' = block_len /\ Sub' = Sub
        /\ \A i : BitsOf(i)' = BitsOf(i) /\ SubsetBitLen(i)' = SubsetBitLen(i)
    BY Zenon, <1>0, LayoutStays
  <1>7. \A i \in Sub : word'[i] = IF i = s THEN word[i] \ {c} ELSE word[i]
    BY Zenon, <1>0, <1>5 DEF BitTypeOK
  <1>8. BitTypeOK'
    BY Zenon, <1>0, <1>5, <1>6 DEF BitTypeOK, Disturbs
  <1>9. BitsAreHeld'
    <2>1. \A i \in Sub : word'[i] \subseteq BitsOf(i)
      BY Zenon, <1>0, <1>7 DEF BitsAreHeld
    <2>2. ASSUME NEW i \in Sub, NEW bit \in word'[i] PROVE \E u \in Thread : <<SetBit(i, bit), u>> \in held'
      <3>1. bit \in word[i] /\ ~(i = s /\ bit = c) /\ bit \in BitsOf(i)
        BY Zenon, <1>0, <1>7 DEF BitsAreHeld
      <3>2. PICK u \in Thread : <<SetBit(i, bit), u>> \in held
        BY Zenon, <1>0, <3>1 DEF BitsAreHeld
      <3>3. SetBit(i, bit) # b[1]
        BY <1>0, <1>2, <1>3, <3>1, OneBit
      <3>4. <<SetBit(i, bit), u>> # b
        BY <3>3
      <3> QED BY Zenon, <1>0, <3>2, <3>4
    <2>3. ASSUME NEW x \in held' PROVE \E i \in Sub : \E bit \in word'[i] : x[1] = SetBit(i, bit)
      <3>1. x \in held /\ x[1] # b[1]
        BY Zenon, <1>0 DEF BitsAreHeld
      <3>2. PICK i \in Sub : \E bit \in word[i] : x[1] = SetBit(i, bit)
        BY Zenon, <1>0, <3>1 DEF BitsAreHeld
      <3>3. PICK bit \in word[i] : x[1] = SetBit(i, bit)
        BY Zenon, <3>2
      <3>4. bit \in word'[i]
        BY Zenon, <1>2, <1>7, <3>1, <3>3
      <3> QED BY Zenon, <3>3, <3>4
    <2>4. \A x, y \in held' : x[1] = y[1] => x = y
      BY Zenon, <1>0 DEF BitsAreHeld
    <2> QED BY Zenon, <1>6, <2>1, <2>2, <2>3, <2>4 DEF BitsAreHeld
  <1>10. \A u \in Thread : Walks(u)'
    <2> TAKE u \in Thread
    <2>1. CASE u = t
      BY Zenon, <1>0, <2>1 DEF Walks
    <2>2. CASE u # t
      BY Zenon, <1>0, <2>2, OthersAreTold
    <2> QED BY Zenon, <2>1, <2>2
  <1> QED BY Zenon, <1>0, <1>8, <1>9, <1>10 DEF BitInv

LEMMA BitNextSafe == BitInv /\ [Next]_vars => BitInv'
  <1> SUFFICES ASSUME BitInv, [Next]_vars PROVE BitInv'
    BY Zenon
  <1>1. ASSUME NEW t \in Thread, Start(t) \/ Load(t) \/ Exchange(t) \/ \E b \in held : FreeSlabBlock(t, b)
        PROVE  BitInv'
    BY Zenon, <1>1, StartSafe, LoadSafe, ExchangeWins, ExchangeLoses, FreeSafe
  <1>2. CASE UNCHANGED vars
    <2>1. UNCHANGED <<slab, block, word, held, pc, at, disturbed>>
      BY Zenon, <1>2 DEF vars
    <2>2. subset_len' = subset_len /\ block_len' = block_len /\ Sub' = Sub
          /\ \A i : BitsOf(i)' = BitsOf(i) /\ SubsetBitLen(i)' = SubsetBitLen(i)
      BY Zenon, <2>1, LayoutStays
    <2>3. BitTypeOK'
      BY Zenon, <2>1, <2>2 DEF BitInv, BitTypeOK
    <2>4. BitsAreHeld'
      BY Zenon, <2>1, <2>2 DEF BitInv, BitsAreHeld
    <2>5. \A t \in Thread : Walks(t)'
      BY <2>1, <2>2 DEF BitInv, Walks, SetBefore
    <2> QED BY Zenon, <2>3, <2>4, <2>5 DEF BitInv
  <1> QED BY Zenon, <1>1, <1>2 DEF Next

LEMMA BitInvariant == Spec => []BitInv
  BY BitInitSafe, BitNextSafe, PTL DEF Spec

(***************************************************************************)
(* An error is justified                                                   *)
(***************************************************************************)
LEMMA LayoutIsKept == [Next]_vars => UNCHANGED <<slab, block>>
  BY Zenon DEF Next, vars, Start, Load, Exchange, FreeSlabBlock

\* A bit stands for one of the blocks.
LEMMA BitBound ==
    ASSUME BitTypeOK, NEW i \in Sub, NEW bit \in BitsOf(i)
    PROVE  SetBit(i, bit) \in 0..block_len - 1 /\ SetBit(i, bit) < subset_len * Bits
  <1>1. /\ Bits \in Nat \ {0} /\ block_len \in Nat /\ subset_len \in Nat /\ i \in Nat /\ i < subset_len
        /\ SubsetBitLen(i) \in 0..Bits
    BY SlabLayoutFacts DEF BitTypeOK, Sub
  <1>2. bit \in Nat /\ bit < SubsetBitLen(i)
    BY <1>1 DEF BitsOf
  <1>3. PICK d \in Int : d = block_len - Bits * i
    BY <1>1
  <1>4. Min({Bits, d}) <= d
    BY <1>1 DEF Min
  <1>5. SubsetBitLen(i) <= block_len - Bits * i
    BY Zenon, <1>3, <1>4 DEF SubsetBitLen
  <1>6. Bits * i = i * Bits /\ i * Bits \in Nat /\ subset_len * Bits \in Nat
    BY <1>1
  <1>7. i * Bits + Bits <= subset_len * Bits
    BY Zenon, <1>1, Multiples
  <1> QED BY <1>1, <1>2, <1>5, <1>6, <1>7 DEF SetBit

\* A block that has a bit has its word and its place in the word.
LEMMA BitOfBlock ==
    ASSUME BitTypeOK, NEW k \in HaveBits
    PROVE  \E i \in Sub : \E bit \in BitsOf(i) : k = SetBit(i, bit)
  <1>1. /\ Bits \in Nat \ {0} /\ block_len \in Nat /\ subset_len \in Nat
        /\ k \in Nat /\ k < block_len /\ k < subset_len * Bits
    BY SlabLayoutFacts DEF BitTypeOK, HaveBits
  <1>2. PICK i \in Nat, bit \in 0..Bits - 1 : k = i * Bits + bit
    BY Zenon, <1>1, Split
  <1>3. i < subset_len
    <2> SUFFICES ASSUME subset_len <= i PROVE FALSE
      BY <1>1
    <2>1. subset_len * Bits <= i * Bits /\ i * Bits \in Nat /\ subset_len * Bits \in Nat
      BY <1>1, Multiples
    <2> QED BY <1>1, <1>2, <2>1
  <1>4. i \in Sub
    BY <1>1, <1>3 DEF Sub
  <1>5. PICK d \in Int : d = block_len - Bits * i
    BY <1>1
  <1>6. Min({Bits, d}) \in {Bits, d}
    BY <1>1 DEF Min
  <1>7. Bits * i = i * Bits /\ i * Bits \in Nat
    BY <1>1
  <1>8. bit < d /\ bit < Bits
    BY <1>1, <1>2, <1>5, <1>7
  <1>9. bit \in BitsOf(i)
    BY <1>1, <1>2, <1>5, <1>6, <1>8 DEF BitsOf, SubsetBitLen
  <1> QED BY Zenon, <1>2, <1>4, <1>9 DEF SetBit

\* alloc_block fails only when every block that has a bit is allocated or another
\* thread set or cleared a bit during the walk, for every number of threads, slab
\* size and block size: ErrIsJustified
THEOREM ErrorsAreJustified == Spec => []ErrIsJustified
<1>1. BitInv => ErrIsJustified
  <2> SUFFICES ASSUME BitInv, NEW t \in Thread, pc[t] = "err", ~disturbed[t], NEW k \in HaveBits
               PROVE  \E u \in Thread : <<k, u>> \in held
    BY Zenon DEF ErrIsJustified
  <2>0. BitTypeOK /\ BitsAreHeld /\ SetBefore(subset_len, 0)
    BY Zenon DEF BitInv, Walks
  <2>1. PICK i \in Sub : \E bit \in BitsOf(i) : k = SetBit(i, bit)
    BY Zenon, <2>0, BitOfBlock
  <2>2. PICK bit \in BitsOf(i) : k = SetBit(i, bit)
    BY Zenon, <2>1
  <2>3. i \in Nat /\ i < subset_len
    BY <2>0, SlabLayoutFacts DEF BitTypeOK, Sub
  <2>4. bit \in word[i]
    BY Zenon, <2>0, <2>3 DEF SetBefore
  <2> QED BY Zenon, <2>0, <2>2, <2>4 DEF BitsAreHeld
<1> QED BY <1>1, BitInvariant, PTL

(***************************************************************************)
(* The bit set implements an allocator                                     *)
(***************************************************************************)
BlockPiece(x) == [ptr |-> BlockOffset(x[1]), size |-> block, by |-> x[2]]
HeldPieces == {BlockPiece(x) : x \in held}

\* Blocks with different indices lie apart.
LEMMA BlocksLieApart ==
    ASSUME BitTypeOK, NEW i \in Nat, NEW j \in Nat, i # j
    PROVE  /\ BlockOffset(i) \in Int /\ BlockOffset(j) \in Int /\ BlockOffset(i) # BlockOffset(j)
           /\ (BlockOffset(i)..(BlockOffset(i) + block - 1)) \cap (BlockOffset(j)..(BlockOffset(j) + block - 1)) = {}
  <1>1. block \in Nat \ {0} /\ HeadOffset \in Int /\ i * block \in Nat /\ j * block \in Nat
    BY SlabLayoutFacts, BitSetAssumption DEF BitTypeOK, HeadOffset
  <1>2. i < j => i * block + block <= j * block
    BY Zenon, <1>1, Multiples
  <1>3. j < i => j * block + block <= i * block
    BY Zenon, <1>1, Multiples
  <1>4. BlockOffset(i) = HeadOffset + i * block /\ BlockOffset(j) = HeadOffset + j * block
    BY Zenon DEF BlockOffset
  <1>5. BlockOffset(i) + block <= BlockOffset(j) \/ BlockOffset(j) + block <= BlockOffset(i)
    BY <1>1, <1>2, <1>3, <1>4
  <1> QED BY <1>1, <1>4, <1>5

\* A block whose bit there is lies behind the bit vector and inside the slab.
LEMMA BlocksAreInSpace ==
    ASSUME BitTypeOK, BlocksFitTheSlab, NEW i \in Sub, NEW bit \in BitsOf(i)
    PROVE  LET k == SetBit(i, bit)
           IN  BlockOffset(k)..(BlockOffset(k) + block - 1)
                 \subseteq (CarrierHeader + 2 * WordSize)..(Max(Slabs) - 1)
  <1> DEFINE k == SetBit(i, bit)
  <1>1. k \in 0..block_len - 1 /\ k < subset_len * Bits /\ k \in Nat
    BY BitBound, SlabLayoutFacts DEF BitTypeOK
  <1>2. BlockOffset(k) + block <= slab
    BY Zenon, <1>1 DEF BlocksFitTheSlab, HaveBits
  <1>3. slab <= Max(Slabs) /\ slab \in Nat /\ Max(Slabs) \in Nat
    BY Zenon, BitSetAssumption DEF Max, BitTypeOK
  <1>4. block \in Nat \ {0} /\ subset_len \in Nat \ {0} /\ WordSize \in Nat \ {0} /\ CarrierHeader \in Nat
    BY Zenon, SlabLayoutFacts, BitSetAssumption DEF BitTypeOK
  <1>5. subset_len * WordSize \in Nat /\ WordSize <= subset_len * WordSize
    <2>1. subset_len - 1 \in Nat
      BY <1>4
    <2>2. (subset_len - 1) * WordSize \in Nat
      BY <1>4, <2>1
    <2>3. subset_len * WordSize = (subset_len - 1) * WordSize + WordSize
      BY <1>4
    <2> QED BY <1>4, <2>2, <2>3
  <1>6. k * block \in Nat
    BY <1>1, <1>4
  <1>7. BlockOffset(k) = CarrierHeader + WordSize + subset_len * WordSize + k * block
    BY Zenon DEF BlockOffset, HeadOffset
  <1> HIDE DEF k
  <1>8. BlockOffset(k) >= CarrierHeader + 2 * WordSize /\ BlockOffset(k) \in Nat
    BY <1>4, <1>5, <1>6, <1>7
  <1>9. BlockOffset(k)..(BlockOffset(k) + block - 1) \subseteq (CarrierHeader + 2 * WordSize)..(Max(Slabs) - 1)
    BY <1>2, <1>3, <1>4, <1>8
  <1> QED BY Zenon, <1>9 DEF k

LEMMA PieceStays == ASSUME UNCHANGED <<slab, block>> PROVE \A x : BlockPiece(x)' = BlockPiece(x)
  BY Zenon, LayoutStays DEF BlockPiece

\* Whoever wins an exchange allocates a piece that is nobody's.
LEMMA WinnerAllocates ==
    ASSUME BitInv, BlocksFitTheSlab, NEW t \in Thread, Exchange(t), Exchanged(t)
    PROVE  \E p \in HeldPieces' \ HeldPieces :
               /\ p.ptr..(p.ptr + p.size - 1) \subseteq (CarrierHeader + 2 * WordSize)..(Max(Slabs) - 1)
               /\ \A q \in HeldPieces : (p.ptr..(p.ptr + p.size - 1)) \cap (q.ptr..(q.ptr + q.size - 1)) = {}
               /\ HeldPieces' = HeldPieces \cup {p}
  <1> DEFINE i == at[t].sub
             bit == at[t].bit
             k == SetBit(i, bit)
             p == BlockPiece(<<k, t>>)
  <1>1. /\ \A x \in held : x[1] # k
        /\ held' = held \cup {<<k, t>>} /\ i \in Sub /\ bit \in BitsOf(i) /\ UNCHANGED <<slab, block>>
    BY Zenon, ExchangeWins
  <1>2. BitTypeOK /\ k \in Nat /\ \A x \in held : x[1] \in Nat
    BY <1>1, BitBound, SlabLayoutFacts DEF BitInv, BitTypeOK
  <1>3. BlockOffset(k)..(BlockOffset(k) + block - 1) \subseteq (CarrierHeader + 2 * WordSize)..(Max(Slabs) - 1)
    BY Zenon, <1>1, <1>2, BlocksAreInSpace
  <1> HIDE DEF i, bit, k
  <1>4. p.ptr = BlockOffset(k) /\ p.size = block
    BY Zenon DEF BlockPiece
  <1>5. \A q \in HeldPieces : /\ (p.ptr..(p.ptr + p.size - 1)) \cap (q.ptr..(q.ptr + q.size - 1)) = {}
                              /\ p.ptr # q.ptr
    <2> TAKE q \in HeldPieces
    <2>1. PICK x \in held : q = BlockPiece(x)
      BY Zenon DEF HeldPieces
    <2>2. q.ptr = BlockOffset(x[1]) /\ q.size = block
      BY Zenon, <2>1 DEF BlockPiece
    <2>3. x[1] \in Nat /\ x[1] # k
      BY Zenon, <1>1, <1>2
    <2> HIDE DEF p
    <2> QED BY Zenon, <1>2, <1>4, <2>2, <2>3, BlocksLieApart
  <1>6. HeldPieces' = HeldPieces \cup {p}
    <2>1. HeldPieces' = {BlockPiece(x) : x \in held'}
      BY Zenon, <1>1, PieceStays DEF HeldPieces
    <2> QED BY Zenon, <1>1, <2>1 DEF HeldPieces
  <1> HIDE DEF p
  <1>7. p \in HeldPieces' /\ p \notin HeldPieces
    BY Zenon, <1>5, <1>6
  <1> QED BY Zenon, <1>3, <1>4, <1>5, <1>6, <1>7

LEMMA FreeDeallocates ==
    ASSUME BitInv, NEW t \in Thread, NEW b \in held, FreeSlabBlock(t, b)
    PROVE  \E p \in HeldPieces \ HeldPieces' : HeldPieces' = HeldPieces \ {p}
  <1>1. held' = held \ {b} /\ UNCHANGED <<slab, block>>
    BY Zenon, FreeSafe
  <1>2. BitTypeOK /\ (\A x \in held : x[1] \in Nat) /\ \A x, y \in held : x[1] = y[1] => x = y
    BY Zenon DEF BitInv, BitTypeOK, BitsAreHeld
  <1>3. ASSUME NEW x \in held, x # b PROVE BlockPiece(x) # BlockPiece(b)
    <2>1. x[1] # b[1] /\ x[1] \in Nat /\ b[1] \in Nat
      BY Zenon, <1>2, <1>3
    <2>2. BlockOffset(x[1]) # BlockOffset(b[1])
      BY Zenon, <1>2, <2>1, BlocksLieApart
    <2>3. BlockPiece(x).ptr = BlockOffset(x[1]) /\ BlockPiece(b).ptr = BlockOffset(b[1])
      BY Zenon DEF BlockPiece
    <2> QED BY Zenon, <2>2, <2>3
  <1>4. HeldPieces' = {BlockPiece(x) : x \in held'}
    BY Zenon, <1>1, PieceStays DEF HeldPieces
  <1>5. BlockPiece(b) \in HeldPieces \ HeldPieces' /\ HeldPieces' = HeldPieces \ {BlockPiece(b)}
    BY Zenon, <1>1, <1>3, <1>4 DEF HeldPieces
  <1> QED BY Zenon, <1>5

LEMMA BitStepIsAbstract == BitInv /\ BlocksFitTheSlab /\ [Next]_vars => [Abstract!Next]_HeldPieces
  <1> SUFFICES ASSUME BitInv, BlocksFitTheSlab, [Next]_vars
               PROVE  Abstract!Next \/ UNCHANGED HeldPieces
    BY Zenon
  <1>0. Abstract!Next <=>
          \/ \E p \in HeldPieces' \ HeldPieces : Abstract!Allocate(p)
          \/ \E p \in HeldPieces \ HeldPieces' : Abstract!Deallocate(p)
          \/ \E p \in HeldPieces \ HeldPieces', q \in HeldPieces' \ HeldPieces : Abstract!Reallocate(p, q)
    BY Zenon DEF Abstract!Next, HeldPieces, BlockPiece
  <1>1. \A p : Abstract!Allocate(p) <=>
          /\ p.ptr..(p.ptr + p.size - 1) \subseteq (CarrierHeader + 2 * WordSize)..(Max(Slabs) - 1)
          /\ \A q \in HeldPieces : (p.ptr..(p.ptr + p.size - 1)) \cap (q.ptr..(q.ptr + q.size - 1)) = {}
          /\ HeldPieces' = HeldPieces \cup {p}
    BY Zenon DEF Abstract!Allocate, Abstract!Apart, Abstract!Cells, HeldPieces, BlockPiece
  <1>2. \A p : Abstract!Deallocate(p) <=> HeldPieces' = HeldPieces \ {p}
    BY Zenon DEF Abstract!Deallocate, HeldPieces, BlockPiece
  <1>3. ASSUME UNCHANGED <<slab, block, held>> PROVE UNCHANGED HeldPieces
    BY Zenon, <1>3, PieceStays DEF HeldPieces
  <1>4. ASSUME NEW t \in Thread, Start(t) \/ Load(t) PROVE UNCHANGED HeldPieces
    BY Zenon, <1>3, <1>4 DEF Start, Load
  <1>5. ASSUME NEW t \in Thread, Exchange(t) PROVE Abstract!Next \/ UNCHANGED HeldPieces
    <2>1. CASE Exchanged(t)
      BY Zenon, <1>0, <1>1, <1>5, <2>1, WinnerAllocates
    <2>2. CASE ~Exchanged(t)
      BY Zenon, <1>3, <1>5, <2>2, ExchangeLoses
    <2> QED BY Zenon, <2>1, <2>2
  <1>6. ASSUME NEW t \in Thread, NEW b \in held, FreeSlabBlock(t, b) PROVE Abstract!Next
    BY Zenon, <1>0, <1>2, <1>6, FreeDeallocates
  <1>7. CASE UNCHANGED vars
    BY Zenon, <1>3, <1>7 DEF vars
  <1> QED BY Zenon, <1>4, <1>5, <1>6, <1>7 DEF Next

\* The bit set never hands out a block that somebody holds, nor one that overlaps
\* it, the bit vector or the end of the slab, provided that the blocks with a bit
\* fit the slab: the refinement KeepsBlocksApart
THEOREM BitSetImplementsAllocator == Spec /\ BlocksFitTheSlab => KeepsBlocksApart
<1>1. Init => Abstract!Init
  BY Zenon DEF Init, Abstract!Init
<1>2. BlocksFitTheSlab /\ [Next]_vars => BlocksFitTheSlab'
  BY Zenon, LayoutIsKept, LayoutStays DEF BlocksFitTheSlab, HaveBits
<1>3. BitInv /\ BlocksFitTheSlab /\ [Next]_vars
        => [Abstract!Next]_{[ptr |-> BlockOffset(b[1]), size |-> block, by |-> b[2]] : b \in held}
  BY Zenon, BitStepIsAbstract DEF HeldPieces, BlockPiece
<1> QED BY <1>1, <1>2, <1>3, BitInvariant, PTL DEF Spec, KeepsBlocksApart, Abstract!Spec

(********************************************************************************)
(* The sizes of the heaps                                                       *)
(********************************************************************************)
(* What the estimates rest on: the stack and the heap share the young heap,  *)
(* the mature part is part of the heap, what was tenured fits the old heap,  *)
(* and the counter of the fragments covers them unless messages bring more.  *)
Words ==
  /\ heap_size \in Nat /\ heap_used \in Nat /\ stack_used \in Nat /\ mature \in Nat
  /\ old_size \in Nat /\ old_used \in Nat /\ off_heap \in Nat /\ off_heap_size \in Nat
  /\ need \in Nat

Sizing ==
  /\ heap_used + stack_used <= heap_size
  /\ mature <= heap_used
  /\ old_used <= old_size
  /\ ~Messages => off_heap <= off_heap_size

SizesSuffice ==
  /\ ~Messages /\ CopiesAreExact => NothingOverruns /\ RoomForTheNeed
  /\ CopiesAreExact => OldHasRoom

SizingInv == Words /\ Sizing /\ SizesSuffice

(* next_heap_size on the sums it is given *)
LEMMA NextSize ==
  ASSUME SizingAssumption, NEW size \in Nat
  PROVE  next_heap_size(size) \in Nat /\ next_heap_size(size) > size
BY Zenon DEF SizingAssumption

LEMMA SizingInitSafe == SizingAssumption /\ SizingInit => SizingInv
BY DEF SizingAssumption, SizingInit, SizingInv, Words, Sizing, SizesSuffice, NothingOverruns, RoomForTheNeed,
       OldHasRoom, heap_available

(* The operations of the running process *)
LEMMA MutatorSafe ==
  ASSUME SizingAssumption, SizingInv, NEW n \in Needs,
         Alloc(n) \/ Alloca(n) \/ AttachFragment(n) \/ SendHeapMessage(n)
  PROVE  SizingInv'
<1>1. n \in Nat
  BY Zenon DEF SizingAssumption
<1>2. Words'
  BY <1>1 DEF SizingInv, Words, Alloc, Alloca, AttachFragment, SendHeapMessage, Mutate, young
<1>3. Sizing'
  BY <1>1 DEF SizingInv, Words, Sizing, Alloc, Alloca, AttachFragment, SendHeapMessage, Mutate,
              heap_available, young
<1>4. outcome' = "none"
  BY Zenon DEF Alloc, Alloca, AttachFragment, SendHeapMessage, Mutate
<1> QED BY Zenon, <1>2, <1>3, <1>4 DEF SizingInv, SizesSuffice, NothingOverruns, RoomForTheNeed, OldHasRoom

LEMMA SetFlagsSafe == ASSUME SizingInv, SetFlags PROVE SizingInv'
<1>1. outcome' = "none" /\ need' = 0
  BY Zenon DEF SetFlags, Mutate
<1>2. Words' /\ Sizing'
  BY Zenon, <1>1 DEF SizingInv, Words, Sizing, SetFlags, young
<1> QED BY Zenon, <1>1, <1>2 DEF SizingInv, SizesSuffice, NothingOverruns, RoomForTheNeed, OldHasRoom

(* A full sweep that goes through asserts that what it was asked for fits;   *)
(* the estimate makes the assertion hold when the fragments are counted and  *)
(* copies are no larger than the originals.                                  *)
LEMMA CollectFullSafe == ASSUME SizingAssumption, SizingInv, CollectFull PROVE SizingInv'
<1>1. PICK n \in Needs : \E live \in 0..Copies(heap_used + old_used + off_heap) :
                          Alive /\ NeedsFull /\ FullSweep(n, live)
  BY Zenon DEF CollectFull
<1>2. PICK live \in 0..Copies(heap_used + old_used + off_heap) : FullSweep(n, live)
  BY Zenon, <1>1
<1>3. n \in Nat /\ live \in Nat
  BY DEF SizingAssumption
<1> DEFINE size == NewSize(n)
           needed_after == n + stack_used + live
<1>4. size \in Nat /\ size > PaddedEstimate(n)
  <2>1. PaddedEstimate(n) \in Nat
    BY <1>3 DEF SizingInv, Words, PaddedEstimate
  <2> HIDE DEF PaddedEstimate
  <2> DEFINE baseline == next_heap_size(PaddedEstimate(n))
  <2>2. baseline \in Nat /\ baseline > PaddedEstimate(n)
    BY Zenon, <2>1, NextSize
  <2> HIDE DEF baseline
  <2>3. next_heap_size(baseline) \in Nat /\ next_heap_size(baseline) > baseline
    BY Zenon, <2>2, NextSize
  <2>4. size = baseline \/ size = next_heap_size(baseline)
    BY Zenon DEF NewSize, baseline
  <2> QED BY <2>1, <2>2, <2>3, <2>4
<1>5. ~Messages /\ CopiesAreExact => needed_after <= size
  <2>1. SUFFICES ASSUME ~Messages, CopiesAreExact PROVE needed_after <= size
    BY Zenon
  <2>2. live <= heap_used + old_used + off_heap
    BY <2>1, <1>3 DEF Copies, CopiesOfBinaries, CopiesAreExact, SizingInv, Words
  <2>3. off_heap <= off_heap_size
    BY Zenon, <2>1 DEF SizingInv, Sizing
  <2> QED BY <2>2, <2>3, <1>3, <1>4 DEF PaddedEstimate, SizingInv, Words
<1> HIDE DEF size
<1>6. CASE Stops("max_full", n) \/ Stops("shrink", n)
  BY Zenon, <1>3, <1>6 DEF Stops, Ends, SizingInv, Words, Sizing, SizesSuffice, NothingOverruns, RoomForTheNeed,
                    OldHasRoom, young
<1>7. CASE needed_after > size /\ Stops("overrun", n)
  <2>1. Messages \/ ~CopiesAreExact
    BY <1>3, <1>4, <1>5, <1>7 DEF SizingInv, Words
  <2> QED BY Zenon, <2>1, <1>3, <1>7 DEF Stops, Ends, SizingInv, Words, Sizing, SizesSuffice, OldHasRoom, young
<1>8. CASE /\ ~(needed_after > size)
           /\ heap_size' = size /\ heap_used' = live /\ mature' = live
           /\ old_size' = 0 /\ old_used' = 0 /\ off_heap' = 0
           /\ Ends("ok", n) /\ UNCHANGED <<stack_used, off_heap_size>>
  <2>1. Words' /\ Sizing'
    BY <1>3, <1>4, <1>8 DEF SizingInv, Words, Sizing, Ends
  <2>2. heap_available' >= need'
    BY <1>3, <1>4, <1>8 DEF SizingInv, Words, Ends, heap_available
  <2> QED BY Zenon, <2>1, <2>2, <1>8 DEF SizingInv, SizesSuffice, NothingOverruns, RoomForTheNeed, OldHasRoom, Ends
<1> QED BY <1>2, <1>6, <1>7, <1>8, Zenon DEF FullSweep, size

(* The old heap a minor collection works with holds at least what it held    *)
LEMMA OldSize ==
  ASSUME SizingAssumption, SizingInv
  PROVE  NewOldSize \in Nat /\ old_used <= NewOldSize /\ (NewOldSize = 0 => mature = 0)
<1>1. SizeBefore \in Nat
  BY DEF SizeBefore, SizingInv, Words
<1> HIDE DEF SizeBefore
<1>2. next_heap_size(SizeBefore) \in Nat /\ next_heap_size(SizeBefore) > SizeBefore
  BY Zenon, <1>1, NextSize
<1>3. CASE old_size = 0 /\ mature > 0
  BY <1>1, <1>2, <1>3 DEF NewOldSize, SizingInv, Words, Sizing
<1>4. CASE ~(old_size = 0 /\ mature > 0)
  BY <1>4 DEF NewOldSize, SizingInv, Words, Sizing
<1> QED BY Zenon, <1>3, <1>4

(* A minor collection compares the mature part with the room in the old heap *)
(* before it starts, so what it tenures fits, whatever messages bring; what  *)
(* it keeps fits the new young heap when the fragments are counted.          *)
LEMMA CollectMinorSafe == ASSUME SizingAssumption, SizingInv, CollectMinor PROVE SizingInv'
<1>1. PICK n \in Needs : \E tenured \in 0..Copies(mature),
                            kept \in 0..Copies(heap_used - mature + off_heap) :
                          Alive /\ ~NeedsFull /\ MinorSweep(n, tenured, kept)
  BY Zenon DEF CollectMinor
<1>2. PICK tenured \in 0..Copies(mature), kept \in 0..Copies(heap_used - mature + off_heap) :
          MinorSweep(n, tenured, kept)
  BY Zenon, <1>1
<1>3. n \in Nat /\ tenured \in Nat /\ kept \in Nat
  BY DEF SizingAssumption
<1> DEFINE size == next_heap_size(MinorEstimate(n))
<1>4. size \in Nat /\ size > MinorEstimate(n)
  <2>1. MinorEstimate(n) \in Nat
    BY <1>3 DEF SizingInv, Words, MinorEstimate, SizeBefore
  <2> QED BY Zenon, <2>1, NextSize
<1>5. NewOldSize \in Nat /\ old_used <= NewOldSize /\ (NewOldSize = 0 => mature = 0)
  BY Zenon, OldSize
<1>6. ~Messages /\ CopiesAreExact => kept + stack_used + n <= size
  <2>1. SUFFICES ASSUME ~Messages, CopiesAreExact PROVE kept + stack_used + n <= size
    BY Zenon
  <2>2. kept <= heap_used - mature + off_heap
    BY <2>1, <1>3 DEF Copies, CopiesOfBinaries, CopiesAreExact, SizingInv, Words
  <2>3. off_heap <= off_heap_size
    BY Zenon, <2>1 DEF SizingInv, Sizing
  <2> QED BY <2>2, <2>3, <1>3, <1>4 DEF MinorEstimate, SizeBefore, SizingInv, Words, Sizing
<1>7. CopiesAreExact /\ ~OldTooSmall => old_used + tenured <= NewOldSize
  <2>1. SUFFICES ASSUME CopiesAreExact, ~OldTooSmall PROVE old_used + tenured <= NewOldSize
    BY Zenon
  <2>2. tenured <= mature
    BY <2>1, <1>3 DEF Copies, CopiesOfBinaries, CopiesAreExact, SizingInv, Words
  <2>3. NewOldSize = 0 \/ mature <= NewOldSize - old_used
    BY <2>1, <1>5 DEF OldTooSmall, SizingInv, Words
  <2> HIDE DEF NewOldSize
  <2> QED BY <2>2, <2>3, <1>3, <1>5 DEF SizingInv, Words
<1> HIDE DEF size, NewOldSize, OldTooSmall
<1>8. CASE Stops("max_minor", n) \/ Stops("shrink", n)
  BY Zenon, <1>3, <1>8 DEF Stops, Ends, SizingInv, Words, Sizing, SizesSuffice, NothingOverruns, RoomForTheNeed,
                    OldHasRoom, young
<1>9. CASE /\ Ends("fullsweep_required", n)
           /\ old_size' = NewOldSize
           /\ UNCHANGED <<young, old_used, off_heap, off_heap_size, gen_gc_count, flags>>
  BY Zenon, <1>3, <1>5, <1>9 DEF Ends, SizingInv, Words, Sizing, SizesSuffice, NothingOverruns, RoomForTheNeed,
                          OldHasRoom, young
<1>10. CASE ~OldTooSmall /\ old_used + tenured > NewOldSize /\ Stops("old_overrun", n)
  <2>1. ~CopiesAreExact
    BY <1>3, <1>5, <1>7, <1>10 DEF SizingInv, Words
  <2> QED BY Zenon, <2>1, <1>3, <1>10 DEF Stops, Ends, SizingInv, Words, Sizing, SizesSuffice, young
<1>11. CASE kept + stack_used > size /\ Stops("overrun", n)
  <2>1. Messages \/ ~CopiesAreExact
    BY <1>3, <1>4, <1>6, <1>11 DEF SizingInv, Words
  <2> QED BY Zenon, <2>1, <1>3, <1>11 DEF Stops, Ends, SizingInv, Words, Sizing, SizesSuffice, OldHasRoom, young
<1>12. CASE /\ ~(old_used + tenured > NewOldSize) /\ ~(kept + stack_used > size)
            /\ heap_size' = size /\ heap_used' = kept /\ mature' = kept
            /\ old_size' = NewOldSize /\ old_used' = old_used + tenured /\ off_heap' = 0
            /\ Ends("ok", n) /\ UNCHANGED <<stack_used, off_heap_size, flags>>
  <2>1. Words' /\ Sizing'
    BY <1>3, <1>4, <1>5, <1>12 DEF SizingInv, Words, Sizing, Ends
  <2>2. ~Messages /\ CopiesAreExact => heap_available' >= need'
    BY <1>3, <1>4, <1>6, <1>12 DEF SizingInv, Words, Ends, heap_available
  <2> QED BY Zenon, <2>1, <2>2, <1>12 DEF SizingInv, SizesSuffice, NothingOverruns, RoomForTheNeed, OldHasRoom, Ends
<1> QED BY <1>2, <1>8, <1>9, <1>10, <1>11, <1>12, Zenon DEF MinorSweep, size

LEMMA SizingNextSafe == SizingAssumption /\ SizingInv /\ [SizingNext]_sizingVars => SizingInv'
<1> SUFFICES ASSUME SizingAssumption, SizingInv, [SizingNext]_sizingVars PROVE SizingInv'
  BY Zenon
<1>1. CASE SizingNext
  BY <1>1, MutatorSafe, SetFlagsSafe, CollectFullSafe, CollectMinorSafe, Zenon DEF SizingNext
<1>2. CASE UNCHANGED sizingVars
  BY Zenon, <1>2 DEF sizingVars, young, SizingInv, Words, Sizing, SizesSuffice, NothingOverruns, RoomForTheNeed,
              OldHasRoom, heap_available
<1> QED BY Zenon, <1>1, <1>2

(* Where no message arrives in a fragment, no sub-binary is short enough to  *)
(* be copied as a heap binary, and no reference-counted or sub-binary has    *)
(* several references, the estimates of collect_full and collect_minor hold  *)
(* in the worst case, a collection that frees nothing: the copies and the    *)
(* stack fit the new heap.                                                   *)
THEOREM EstimatesHold == SizingAssumption /\ ~Messages /\ CopiesAreExact => (SizingSpec => []NothingOverruns)
<1> SUFFICES ASSUME SizingAssumption, ~Messages, CopiesAreExact PROVE SizingSpec => []NothingOverruns
  BY Zenon
<1>1. SizingInit => SizingInv
  BY Zenon, SizingInitSafe
<1>2. SizingInv /\ [SizingNext]_sizingVars => SizingInv'
  BY Zenon, SizingNextSafe
<1>3. SizingInv => NothingOverruns
  BY Zenon DEF SizingInv, SizesSuffice
<1> QED BY <1>1, <1>2, <1>3, PTL DEF SizingSpec

(* On the same hypotheses a collection that succeeds leaves the words that   *)
(* it was asked for.                                                         *)
THEOREM NeedIsMet == SizingAssumption /\ ~Messages /\ CopiesAreExact => (SizingSpec => []RoomForTheNeed)
<1> SUFFICES ASSUME SizingAssumption, ~Messages, CopiesAreExact PROVE SizingSpec => []RoomForTheNeed
  OBVIOUS
<1>1. SizingInit => SizingInv
  BY SizingInitSafe
<1>2. SizingInv /\ [SizingNext]_sizingVars => SizingInv'
  BY SizingNextSafe
<1>3. SizingInv => RoomForTheNeed
  BY Zenon DEF SizingInv, SizesSuffice
<1> QED BY <1>1, <1>2, <1>3, PTL DEF SizingSpec

(* Where each object is copied once and into no more words than it has, the  *)
(* old heap has room for all that is tenured, over any number of minor       *)
(* collections and whatever messages bring.                                  *)
THEOREM TenuringFits == SizingAssumption /\ CopiesAreExact => (SizingSpec => []OldHasRoom)
<1> SUFFICES ASSUME SizingAssumption, CopiesAreExact PROVE SizingSpec => []OldHasRoom
  BY Zenon
<1>1. SizingInit => SizingInv
  BY Zenon, SizingInitSafe
<1>2. SizingInv /\ [SizingNext]_sizingVars => SizingInv'
  BY Zenon, SizingNextSafe
<1>3. SizingInv => OldHasRoom
  BY Zenon DEF SizingInv, SizesSuffice
<1> QED BY <1>1, <1>2, <1>3, PTL DEF SizingSpec
==============================================================================
