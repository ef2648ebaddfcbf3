---------------------------- MODULE ProcessProofs ----------------------------
(***************************************************************************)
(* Proofs about what a process waits for and is known by: the timer        *)
(* hierarchy, for wheels of any even number of slots and any number of     *)
(* timers; Receive, for any messages, patterns, timeouts and clock; and    *)
(* PidCounter, for every size of number and serial.                        *)
(***************************************************************************)
EXTENDS TimerHierarchy, Receive, PidCounter, TLAPS

(***************************************************************************)
(* The timers                                                              *)
(*                                                                         *)
(* The safety properties rest on one inductive invariant: the two wheels   *)
(* keep their distance (Aligned), each registered timer lies in the slot   *)
(* that its deadline asks for (InPlace), and the loop of timeout never     *)
(* runs past the clock (Looping).                                          *)
(***************************************************************************)

S == SLOTS
P == LATER_MILLISECONDS_PER_SLOT
T == LATER_TOTAL_MILLISECONDS

Aligned ==
    /\ soon_monotonic + P <= later_monotonic
    /\ later_monotonic <= soon_monotonic + S
    /\ soon_monotonic <= now

Looping ==
    ticks # Idle =>
        /\ at_once = {}
        /\ soon_monotonic + ticks = reading
        /\ reading <= now

PlacedAtOnce(t) == position[t] = AtOnce => monotonic[t] < soon_monotonic
PlacedSoon(t) ==
    \A i \in SlotIndices : position[t] = Soon(i) =>
        /\ soon_monotonic <= monotonic[t]
        /\ monotonic[t] < soon_monotonic + S
        /\ i = SlotIndex(soon_index, monotonic[t] - soon_monotonic)
PlacedLater(t) ==
    \A i \in SlotIndices : position[t] = Later(i) =>
        /\ later_monotonic <= monotonic[t]
        /\ monotonic[t] < later_monotonic + T
        /\ i = SlotIndex(later_index, (monotonic[t] - later_monotonic) \div P)
PlacedLongTerm(t) == position[t] = LongTerm => later_monotonic + T <= monotonic[t]

InPlace ==
    \A t \in registered :
        PlacedAtOnce(t) /\ PlacedSoon(t) /\ PlacedLater(t) /\ PlacedLongTerm(t)

(* Only a reference number that has been handed out is fired or cancelled *)
Issued == \A t \in fired \cup cancelled : t < next_reference

TimerInv ==
    /\ TimerTypeOK /\ Aligned /\ Looping /\ InPlace /\ Issued
    /\ PositionIsExact /\ NoAssertionFails /\ CancelledNeverFires /\ NeverEarly

-----------------------------------------------------------------------------
(* The width of the two wheels, from Hierarchy's constants. *)
LEMMA Widths ==
    /\ S \in Nat /\ P \in Nat /\ T \in Nat /\ P >= 1
    /\ S = 2 * P /\ T = P * S /\ T >= S
    /\ SOON_TOTAL_MILLISECONDS = S
<1>1. S \in Nat /\ S >= 2 /\ S % 2 = 0
  BY SlotsAssumption DEF S
<1>2. P \in Nat /\ P >= 1 /\ S = 2 * P
  BY <1>1 DEF S, P, LATER_MILLISECONDS_PER_SLOT, SOON_TOTAL_MILLISECONDS
<1>3. T = P * S
  BY Zenon DEF T, P, S, LATER_TOTAL_MILLISECONDS
<1>4. P * S >= S /\ P * S \in Nat
  BY <1>1, <1>2
<1> QED
  BY <1>1, <1>2, <1>3, <1>4 DEF S, SOON_TOTAL_MILLISECONDS

(* The remainder of a number below twice the modulus. *)
LEMMA Wraps ==
    ASSUME NEW n \in Nat, n > 0, NEW x \in Nat, x < 2 * n
    PROVE  x % n = IF x < n THEN x ELSE x - n
  OBVIOUS

(* slot_index counts slots without truncation, and below SLOTS, for a
   deadline that lies within the wheel. *)
LEMMA WithinTheWheel ==
    ASSUME NEW m \in Nat, NEW start \in Nat, NEW per \in Nat, per >= 1,
           start <= m, m < start + per * S
    PROVE  /\ SlotsAway(m, start, per) = (m - start) \div per
           /\ (m - start) \div per \in SlotIndices
<1> DEFINE d == m - start
<1>1. d \in Nat /\ d < per * S /\ S \in Nat /\ S >= 2 /\ S <= 32768
  BY SlotsAssumption DEF S
<1>2. d \div per \in Nat /\ per * (d \div per) <= d
  BY <1>1
<1>3. d \div per < S
  <2> DEFINE k == d \div per
  <2> HIDE DEF d, k
  <2> SUFFICES ASSUME k >= S PROVE FALSE
    BY <1>1, <1>2 DEF k
  <2>1. k \in Nat /\ per * k <= d
    BY <1>2 DEF k
  <2>2. per * k >= per * S
    BY <2>1, <1>1
  <2> QED BY <2>1, <2>2, <1>1
<1>4. (d \div per) % 65536 = d \div per
  BY <1>1, <1>2, <1>3
<1> QED
  BY <1>1, <1>2, <1>3, <1>4 DEF SlotsAway, SlotIndices, S

(* SlotIndex is a slot; it is the current one only for no slots away; and
   moving the wheel by one slot brings every deadline one slot nearer. *)
LEMMA SlotIndexFacts ==
    ASSUME NEW i \in SlotIndices, NEW away \in SlotIndices
    PROVE  /\ SlotIndex(i, away) \in SlotIndices
           /\ NextSlot(i) \in SlotIndices
           /\ SlotIndex(i, away) = i <=> away = 0
           /\ away > 0 => SlotIndex(NextSlot(i), away - 1) = SlotIndex(i, away)
<1>1. S \in Nat /\ S >= 2 /\ i \in 0..(S-1) /\ away \in 0..(S-1)
  BY SlotsAssumption DEF S, SlotIndices
<1>2. (i + away) % S = IF i + away < S THEN i + away ELSE i + away - S
  BY <1>1, Wraps
<1>3. (i + 1) % S = IF i + 1 < S THEN i + 1 ELSE i + 1 - S
  BY <1>1, Wraps
<1>4. ASSUME away > 0
      PROVE  (((i + 1) % S) + (away - 1)) % S
                = IF ((i + 1) % S) + away - 1 < S THEN ((i + 1) % S) + away - 1
                                               ELSE ((i + 1) % S) + away - 1 - S
  <2> DEFINE x == ((i + 1) % S) + (away - 1)
  <2>1. x \in Nat /\ x < 2 * S
    BY <1>1, <1>3, <1>4
  <2>2. x % S = IF x < S THEN x ELSE x - S
    <3> HIDE DEF x
    <3> QED BY <2>1, <1>1, Wraps
  <2> QED BY <2>2, <2>1, <1>1, <1>3, <1>4
<1> QED
  BY <1>1, <1>2, <1>3, <1>4 DEF SlotIndex, NextSlot, SlotIndices, S

-----------------------------------------------------------------------------
(* The hierarchy that Default builds satisfies the invariant. *)
LEMMA InitTimerInv == TimerInit => TimerInv
<1> SUFFICES ASSUME TimerInit PROVE TimerInv
  BY Zenon
<1>1. now \in Nat /\ now >= 0
  BY TimesAssumption, BoundsAssumption DEF TimerInit
<1>2. /\ soon_index = now % S /\ soon_monotonic = (now \div S) * S
      /\ later_index = ((soon_monotonic + S) % T) \div P
      /\ later_monotonic = ((soon_monotonic + S) \div P) * P
  BY Zenon, Widths DEF TimerInit, RoundDown, S, P, T, SOON_TOTAL_MILLISECONDS
<1>3. now % S \in 0..(S - 1)
  BY <1>1, Widths
<1>4. soon_monotonic \in Nat /\ soon_monotonic <= now /\ soon_index \in SlotIndices
  <2>1. now \div S \in Nat /\ (now \div S) * S \in Nat /\ (now \div S) * S <= now
    BY <1>1, Widths
  <2> QED BY Zenon, <1>2, <1>3, <2>1 DEF SlotIndices, S
<1>5. soon_monotonic + S = P * (2 * (now \div S) + 2)
  <2> DEFINE k == now \div S
  <2>1. k \in Nat
    BY <1>1, Widths
  <2> HIDE DEF k
  <2>2. soon_monotonic = k * S
    BY Zenon, <1>2 DEF k
  <2>3. soon_monotonic + S = P * (2 * k + 2)
    BY <2>1, <2>2, Widths
  <2> QED BY Zenon, <2>3 DEF k
<1>6. later_monotonic = soon_monotonic + S
  <2> DEFINE j == 2 * (now \div S) + 2
  <2>1. j \in Nat
    BY <1>1, Widths
  <2> HIDE DEF j
  <2>2. (P * j) \div P = j
    BY <2>1, Widths
  <2>3. later_monotonic = j * P
    BY Zenon, <1>2, <1>5, <2>2 DEF j
  <2>4. j * P = P * j
    BY <2>1, Widths
  <2> QED BY Zenon, <1>5, <2>3, <2>4 DEF j
<1>7. later_index \in SlotIndices
  <2>1. (soon_monotonic + S) % T \in 0..(T - 1)
    BY <1>4, Widths
  <2> DEFINE r == (soon_monotonic + S) % T
  <2> HIDE DEF r
  <2>2. r \in Nat /\ 0 <= r /\ r < 0 + P * S
    BY <2>1, Widths DEF r
  <2>3. (r - 0) \div P \in SlotIndices
    BY <2>2, WithinTheWheel, Widths, Zenon
  <2> QED BY <1>2, <2>2, <2>3 DEF r
<1>8. TimerTypeOK
  <2>1. later_monotonic \in Nat /\ reading \in Nat /\ next_reference \in 0..MaxTimers
    BY <1>4, <1>6, Widths, BoundsAssumption DEF TimerInit
  <2>2. /\ registered \subseteq Timer /\ fired \subseteq Timer /\ cancelled \subseteq Timer
        /\ at_once \subseteq Timer /\ long_term \subseteq Timer
        /\ soon \in [SlotIndices -> SUBSET Timer] /\ later \in [SlotIndices -> SUBSET Timer]
        /\ ticks \in Nat \cup {Idle} /\ panicked \in BOOLEAN
        /\ position \in [Timer -> Position]
    BY Zenon DEF TimerInit, Position
  <2>3. monotonic \in [Timer -> Nat]
    BY Zenon DEF TimerInit
  <2> QED BY Zenon, <1>1, <1>4, <1>7, <2>1, <2>2, <2>3 DEF TimerTypeOK
<1>9. Aligned
  BY <1>1, <1>4, <1>6, Widths DEF Aligned
<1>10. Looping /\ InPlace /\ Issued /\ NoAssertionFails /\ CancelledNeverFires /\ NeverEarly
  BY Zenon DEF TimerInit, Looping, InPlace, Issued, NoAssertionFails, CancelledNeverFires, NeverEarly
<1>11. PositionIsExact
  BY BoundsAssumption DEF TimerInit, PositionIsExact, Pending, Started, Timer
<1> QED
  BY Zenon, <1>8, <1>9, <1>10, <1>11 DEF TimerInv

(* Where position puts a new deadline, and that slot_index does not panic. *)
LEMMA PositionOfFacts ==
    ASSUME TimerTypeOK, Aligned, NEW m \in Nat
    PROVE  /\ PositionOf(m) \in Position
           /\ ~PositionPanics(m)
           /\ PositionOf(m) = AtOnce => m < soon_monotonic
           /\ PositionOf(m) = LongTerm => later_monotonic + T <= m
           /\ \A i \in SlotIndices : PositionOf(m) = Soon(i) =>
                /\ soon_monotonic <= m /\ m < soon_monotonic + S
                /\ i = SlotIndex(soon_index, m - soon_monotonic)
           /\ \A i \in SlotIndices : PositionOf(m) = Later(i) =>
                /\ later_monotonic <= m /\ m < later_monotonic + T
                /\ i = SlotIndex(later_index, (m - later_monotonic) \div P)
<1>1. /\ soon_monotonic \in Nat /\ later_monotonic \in Nat
      /\ soon_index \in SlotIndices /\ later_index \in SlotIndices
  BY Zenon DEF TimerTypeOK
<1>2. CASE m < soon_monotonic
  <2>1. PositionOf(m) = AtOnce
    BY Zenon, <1>2 DEF PositionOf
  <2>2. ~PositionPanics(m)
    BY <1>1, <1>2, Widths DEF PositionPanics, Aligned
  <2> QED BY <1>2, <2>1, <2>2 DEF Position, AtOnce, LongTerm, Soon, Later
<1>3. CASE soon_monotonic <= m /\ m < later_monotonic
  <2>1. m < soon_monotonic + 1 * S
    BY <1>1, <1>3, Widths DEF Aligned
  <2>2. /\ SlotsAway(m, soon_monotonic, 1) = (m - soon_monotonic) \div 1
        /\ (m - soon_monotonic) \div 1 \in SlotIndices
    BY <1>1, <1>3, <2>1, WithinTheWheel
  <2>3. (m - soon_monotonic) \div 1 = m - soon_monotonic
    BY <1>1, <1>3
  <2>4. PositionOf(m) = Soon(SlotIndex(soon_index, m - soon_monotonic))
    BY <1>1, <1>3, <2>2, <2>3 DEF PositionOf
  <2>5. SlotIndex(soon_index, m - soon_monotonic) \in SlotIndices
    BY Zenon, <1>1, <2>2, <2>3, SlotIndexFacts
  <2>6. ~PositionPanics(m)
    BY <1>1, <1>3, <2>2, <2>3, Widths DEF PositionPanics, SlotIndices, S
  <2> QED BY <1>1, <1>3, <2>1, <2>4, <2>5, <2>6, Widths DEF Position, AtOnce, LongTerm, Soon, Later
<1>4. CASE later_monotonic <= m /\ m < later_monotonic + T
  <2>1. /\ SlotsAway(m, later_monotonic, P) = (m - later_monotonic) \div P
        /\ (m - later_monotonic) \div P \in SlotIndices
    BY Zenon, <1>1, <1>4, Widths, WithinTheWheel
  <2>2. ~(m < soon_monotonic) /\ ~(m < later_monotonic)
    BY <1>1, <1>4, Widths DEF Aligned
  <2>3. PositionOf(m) = Later(SlotIndex(later_index, (m - later_monotonic) \div P))
    BY Zenon, <1>4, <2>1, <2>2 DEF PositionOf, P, T
  <2>4. SlotIndex(later_index, (m - later_monotonic) \div P) \in SlotIndices
    BY Zenon, <1>1, <2>1, SlotIndexFacts
  <2>5. ~PositionPanics(m)
    BY <1>1, <1>4, <2>1, <2>2, Widths DEF PositionPanics, SlotIndices, S, P
  <2> QED BY <1>4, <2>3, <2>4, <2>5 DEF Position, AtOnce, LongTerm, Soon, Later
<1>5. CASE later_monotonic + T <= m
  <2>1. ~(m < soon_monotonic) /\ ~(m < later_monotonic) /\ ~(m < later_monotonic + T)
    BY <1>1, <1>5, Widths DEF Aligned
  <2>2. PositionOf(m) = LongTerm
    BY Zenon, <2>1 DEF PositionOf, T
  <2>3. ~PositionPanics(m)
    BY Zenon, <1>1, <2>1, Widths DEF PositionPanics, T
  <2> QED BY <1>5, <2>2, <2>3 DEF Position, AtOnce, LongTerm, Soon, Later
<1> QED
  BY <1>1, <1>2, <1>3, <1>4, <1>5, Widths

(* timer::start keeps the invariant. *)
LEMMA StartStep == ASSUME TimerInv, NEW m \in Deadlines, Start(m) PROVE TimerInv'
<1> DEFINE t == next_reference
           p == PositionOf(m)
<1> USE DEF TimerInv
<1>1. m \in Nat /\ t \in Timer
  BY TimesAssumption, BoundsAssumption DEF Start, TimerTypeOK, Timer
<1>2. p \in Position /\ ~PositionPanics(m)
  BY Zenon, <1>1, PositionOfFacts
<1>3. t \notin registered /\ t \notin fired /\ t \notin cancelled
  BY <1>1 DEF PositionIsExact, Pending, Started, TimerTypeOK, Issued, Timer
<1>4. /\ monotonic' = [monotonic EXCEPT ![t] = m] /\ position' = [position EXCEPT ![t] = p]
      /\ registered' = registered \cup {t} /\ next_reference' = t + 1
      /\ panicked' = PositionPanics(m) /\ InsertAt(p, t) /\ ticks = Idle
      /\ UNCHANGED <<now, soon_index, soon_monotonic, later_index, later_monotonic,
                     ticks, reading, fired, cancelled>>
  BY Zenon DEF Start
<1>5. TimerTypeOK'
  <2>1. /\ monotonic' \in [Timer -> Nat] /\ position' \in [Timer -> Position]
        /\ registered' \subseteq Timer
    BY Zenon, <1>1, <1>2, <1>4 DEF TimerTypeOK
  <2>2. next_reference' \in 0..MaxTimers
    BY <1>1, <1>4, BoundsAssumption DEF TimerTypeOK, Timer
  <2>3. /\ at_once' \subseteq Timer /\ long_term' \subseteq Timer
        /\ soon' \in [SlotIndices -> SUBSET Timer] /\ later' \in [SlotIndices -> SUBSET Timer]
    BY <1>1, <1>4, Zenon DEF TimerTypeOK, InsertAt
  <2>4. panicked' \in BOOLEAN
    BY Zenon, <1>4 DEF PositionPanics
  <2> QED BY Zenon, <1>4, <2>1, <2>2, <2>3, <2>4 DEF TimerTypeOK
<1>6. Aligned' /\ Looping' /\ NoAssertionFails' /\ CancelledNeverFires'
  BY Zenon, <1>2, <1>4 DEF Aligned, Looping, NoAssertionFails, CancelledNeverFires, TimerTypeOK
<1>7. Issued' /\ NeverEarly'
  BY <1>1, <1>3, <1>4 DEF Issued, NeverEarly, TimerTypeOK, Timer
<1>8. InPlace'
  <2> SUFFICES ASSUME NEW u \in registered'
               PROVE  (PlacedAtOnce(u) /\ PlacedSoon(u) /\ PlacedLater(u) /\ PlacedLongTerm(u))'
    BY Zenon DEF InPlace
  <2>1. CASE u = t
    BY Zenon, <2>1, <1>1, <1>4, PositionOfFacts
       DEF PlacedAtOnce, PlacedSoon, PlacedLater, PlacedLongTerm, TimerTypeOK
  <2>2. CASE u # t
    BY Zenon, <2>2, <1>1, <1>4
       DEF PlacedAtOnce, PlacedSoon, PlacedLater, PlacedLongTerm, InPlace, TimerTypeOK
  <2> QED BY Zenon, <2>1, <2>2
<1>9. PositionIsExact'
  <2>1. registered' = Pending'
    BY <1>1, <1>3, <1>4 DEF PositionIsExact, Pending, Started, TimerTypeOK, Timer
  <2>2. ASSUME NEW u \in Timer
        PROVE  /\ u \in at_once' <=> u \in registered' /\ position'[u] = AtOnce
               /\ u \in long_term' <=> u \in registered' /\ position'[u] = LongTerm
               /\ \A i \in SlotIndices :
                    /\ u \in soon'[i] <=> u \in registered' /\ position'[u] = Soon(i)
                    /\ u \in later'[i] <=> u \in registered' /\ position'[u] = Later(i)
    <3>1. PICK k \in SlotIndices : p \in {AtOnce, LongTerm, Soon(k), Later(k)}
      <4>1. 0 \in SlotIndices
        BY SlotsAssumption DEF SlotIndices
      <4> QED BY Zenon, <1>2, <4>1 DEF Position
    <3>2. CASE u # t
      BY <3>1, <3>2, <1>1, <1>4
         DEF PositionIsExact, TimerTypeOK, InsertAt, AtOnce, LongTerm, Soon, Later
    <3>3. CASE u = t
      BY <3>1, <3>3, <1>1, <1>3, <1>4
         DEF PositionIsExact, TimerTypeOK, InsertAt, AtOnce, LongTerm, Soon, Later
    <3> QED BY Zenon, <3>2, <3>3
  <2> QED BY Zenon, <2>1, <2>2 DEF PositionIsExact
<1> QED
  BY Zenon, <1>5, <1>6, <1>7, <1>8, <1>9

(* timer::cancel keeps the invariant: it removes the timer from the slot that
   its position names, the only one that holds it. *)
LEMMA CancelStep == ASSUME TimerInv, NEW t \in Timer, Cancel(t) PROVE TimerInv'
<1> USE DEF TimerInv
<1>1. /\ t \in registered /\ registered' = registered \ {t} /\ RemoveAt(position[t], t)
      /\ cancelled' = cancelled \cup {t}
      /\ UNCHANGED <<now, next_reference, monotonic, position, soon_index, soon_monotonic,
                     later_index, later_monotonic, ticks, reading, panicked, fired>>
      /\ ticks = Idle
  BY Zenon DEF Cancel
<1>2. t \notin fired /\ t \notin cancelled /\ t < next_reference
  BY Zenon, <1>1 DEF PositionIsExact, Pending, Started
<1>3. TimerTypeOK'
  <2>1. /\ at_once' \subseteq Timer /\ long_term' \subseteq Timer
        /\ soon' \in [SlotIndices -> SUBSET Timer] /\ later' \in [SlotIndices -> SUBSET Timer]
    BY <1>1, Zenon DEF TimerTypeOK, RemoveAt
  <2> QED BY Zenon, <1>1, <2>1 DEF TimerTypeOK
<1>4. /\ Aligned' /\ Looping' /\ NoAssertionFails' /\ CancelledNeverFires'
      /\ Issued' /\ NeverEarly'
  BY Zenon, <1>1, <1>2
     DEF Aligned, Looping, NoAssertionFails, CancelledNeverFires, Issued, NeverEarly
<1>5. InPlace'
  BY Zenon, <1>1 DEF InPlace, PlacedAtOnce, PlacedSoon, PlacedLater, PlacedLongTerm
<1>6. PositionIsExact'
  <2>1. registered' = Pending'
    BY Zenon, <1>1 DEF PositionIsExact, Pending, Started
  <2>2. position[t] \in Position
    BY Zenon DEF TimerTypeOK
  <2>3. PICK k \in SlotIndices : position[t] \in {AtOnce, LongTerm, Soon(k), Later(k)}
    <3>1. 0 \in SlotIndices
      BY SlotsAssumption DEF SlotIndices
    <3> QED BY Zenon, <2>2, <3>1 DEF Position
  <2>4. ASSUME NEW u \in Timer
        PROVE  /\ u \in at_once' <=> u \in registered' /\ position'[u] = AtOnce
               /\ u \in long_term' <=> u \in registered' /\ position'[u] = LongTerm
               /\ \A i \in SlotIndices :
                    /\ u \in soon'[i] <=> u \in registered' /\ position'[u] = Soon(i)
                    /\ u \in later'[i] <=> u \in registered' /\ position'[u] = Later(i)
    BY <2>3, <1>1 DEF PositionIsExact, TimerTypeOK, RemoveAt, AtOnce, LongTerm, Soon, Later
  <2> QED BY Zenon, <2>1, <2>4 DEF PositionIsExact
<1> QED
  BY Zenon, <1>3, <1>4, <1>5, <1>6

(* The start of timeout keeps the invariant: at-once timers are overdue. *)
LEMMA TimeoutBeginStep == ASSUME TimerInv, TimeoutBegin PROVE TimerInv'
<1> USE DEF TimerInv
<1>1. /\ at_once' = {} /\ registered' = registered \ at_once /\ fired' = fired \cup at_once
      /\ ticks' = now - soon_monotonic /\ reading' = now /\ ticks = Idle
      /\ UNCHANGED <<now, next_reference, monotonic, position, long_term, soon, soon_index,
                     soon_monotonic, later, later_index, later_monotonic, panicked, cancelled>>
  BY Zenon DEF TimeoutBegin, TicksDue
<1>2. \A t \in at_once : t \in registered /\ position[t] = AtOnce /\ monotonic[t] < now
  BY DEF PositionIsExact, TimerTypeOK, InPlace, PlacedAtOnce, Aligned
<1>3. now - soon_monotonic \in Nat
  BY DEF TimerTypeOK, Aligned
<1>4. TimerTypeOK'
  BY Zenon, <1>1, <1>3 DEF TimerTypeOK
<1>5. Aligned' /\ Looping'
  BY <1>1, <1>3 DEF Aligned, Looping, TimerTypeOK
<1>6. NoAssertionFails' /\ CancelledNeverFires' /\ Issued' /\ NeverEarly'
  BY Zenon, <1>1, <1>2 DEF NoAssertionFails, CancelledNeverFires, Issued, NeverEarly,
                    PositionIsExact, Pending, Started
<1>7. InPlace'
  BY Zenon, <1>1 DEF InPlace, PlacedAtOnce, PlacedSoon, PlacedLater, PlacedLongTerm
<1>8. PositionIsExact'
  BY <1>1, <1>2 DEF PositionIsExact, Pending, Started, AtOnce, LongTerm, Soon, Later
<1> QED
  BY Zenon, <1>4, <1>5, <1>6, <1>7, <1>8

(* The end of timeout's loop, the clock and stuttering keep the invariant. *)
LEMMA OtherSteps == ASSUME TimerInv, TimeoutEnd \/ ClockTick \/ UNCHANGED timerVars PROVE TimerInv'
<1> USE DEF TimerInv
<1>1. /\ UNCHANGED <<next_reference, monotonic, position, registered, at_once, long_term, soon,
                     soon_index, soon_monotonic, later, later_index, later_monotonic,
                     reading, panicked, fired, cancelled>>
      /\ ticks' \in {ticks, Idle} /\ now' \in Nat /\ now <= now'
  BY DEF TimeoutEnd, ClockTick, timerVars, wheels, TimerTypeOK
<1>2. TimerTypeOK'
  BY Zenon, <1>1 DEF TimerTypeOK
<1>3. Aligned' /\ NeverEarly'
  BY <1>1 DEF Aligned, NeverEarly, TimerTypeOK
<1>4. Looping'
  <2>1. CASE ticks' = Idle
    BY Zenon, <2>1 DEF Looping
  <2>2. CASE ticks' = ticks /\ ticks # Idle
    <3>1. at_once = {} /\ soon_monotonic + ticks = reading /\ reading <= now
      BY Zenon, <2>2 DEF Looping
    <3>2. reading <= now'
      BY <1>1, <3>1 DEF TimerTypeOK
    <3> QED BY Zenon, <1>1, <2>2, <3>1, <3>2 DEF Looping
  <2> QED BY Zenon, <1>1, <2>1, <2>2
<1>5. InPlace' /\ Issued' /\ PositionIsExact' /\ NoAssertionFails' /\ CancelledNeverFires'
  BY <1>1 DEF InPlace, PlacedAtOnce, PlacedSoon, PlacedLater, PlacedLongTerm, Issued,
              PositionIsExact, Pending, Started, NoAssertionFails, CancelledNeverFires
<1> QED
  BY Zenon, <1>2, <1>3, <1>4, <1>5

-----------------------------------------------------------------------------
(* What one iteration of timeout's loop finds.  The current soon slot holds
   the timers due at soon_monotonic; the timers taken out of the later slot
   fit the soon wheel and all of them leave when the later wheel moves; those
   taken out of the long-term slot fit the later wheel. *)
LEMMA TickFacts ==
    ASSUME TimerInv
    PROVE  /\ \A t \in soon[soon_index] :
                t \in registered /\ position[t] = Soon(soon_index) /\ monotonic[t] = soon_monotonic
           /\ \A t \in LaterToSoon :
                /\ t \in registered /\ position[t] = Later(later_index)
                /\ soon_monotonic + 1 <= monotonic[t] /\ monotonic[t] <= soon_monotonic + S
                /\ SoonSlotsAway(t) = monotonic[t] - (soon_monotonic + 1)
                /\ SoonSlotsAway(t) \in SlotIndices
           /\ LaterAdvances <=> later_monotonic = soon_monotonic + P
           /\ LaterAdvances => later[later_index] \subseteq LaterToSoon
           /\ \A t \in LongTermToLater :
                /\ t \in registered /\ position[t] = LongTerm /\ LaterAdvances
                /\ later_monotonic + P <= monotonic[t]
                /\ monotonic[t] < later_monotonic + P + T
                /\ LaterSlotsAway(t) = (monotonic[t] - (later_monotonic + P)) \div P
                /\ LaterSlotsAway(t) \in SlotIndices
           /\ \A t \in long_term \ LongTermToLater :
                LaterAdvances => later_monotonic + P + T <= monotonic[t]
<1> USE DEF TimerInv
<1>1. /\ soon_monotonic \in Nat /\ later_monotonic \in Nat
      /\ soon_index \in SlotIndices /\ later_index \in SlotIndices
      /\ \A t \in Timer : monotonic[t] \in Nat
      /\ soon_monotonic + P <= later_monotonic /\ later_monotonic <= soon_monotonic + S
  BY Zenon DEF TimerTypeOK, Aligned
<1>2. /\ SoonMaxMonotonic = soon_monotonic + S
      /\ LaterNextSlotMonotonic = later_monotonic + P
      /\ LaterMaxMonotonic = later_monotonic + P + T - 1
  BY <1>1, Widths DEF SoonMaxMonotonic, LaterNextSlotMonotonic, LaterMaxMonotonic, P, T
<1>3. LaterAdvances <=> later_monotonic = soon_monotonic + P
  BY <1>1, <1>2, Widths DEF LaterAdvances
<1>4. ASSUME NEW t \in soon[soon_index]
      PROVE  t \in registered /\ position[t] = Soon(soon_index) /\ monotonic[t] = soon_monotonic
  <2>1. t \in Timer /\ t \in registered /\ position[t] = Soon(soon_index)
    BY Zenon, <1>1 DEF PositionIsExact, TimerTypeOK
  <2>2. /\ soon_monotonic <= monotonic[t] /\ monotonic[t] < soon_monotonic + S
        /\ soon_index = SlotIndex(soon_index, monotonic[t] - soon_monotonic)
    BY Zenon, <1>1, <2>1 DEF InPlace, PlacedSoon
  <2>3. monotonic[t] - soon_monotonic \in SlotIndices
    BY <1>1, <2>1, <2>2, Widths DEF SlotIndices, S
  <2>4. monotonic[t] - soon_monotonic = 0
    BY Zenon, <1>1, <2>2, <2>3, SlotIndexFacts
  <2> QED BY <1>1, <2>1, <2>4
<1>5. ASSUME NEW t \in later[later_index]
      PROVE  /\ t \in Timer /\ t \in registered /\ position[t] = Later(later_index)
             /\ later_monotonic <= monotonic[t] /\ monotonic[t] < later_monotonic + P
  <2>1. t \in Timer /\ t \in registered /\ position[t] = Later(later_index)
    BY Zenon, <1>1 DEF PositionIsExact, TimerTypeOK
  <2>2. /\ later_monotonic <= monotonic[t] /\ monotonic[t] < later_monotonic + T
        /\ later_index = SlotIndex(later_index, (monotonic[t] - later_monotonic) \div P)
    BY Zenon, <1>1, <2>1 DEF InPlace, PlacedLater
  <2>3. (monotonic[t] - later_monotonic) \div P \in SlotIndices
    BY <1>1, <2>1, <2>2, Widths, WithinTheWheel, Zenon
  <2>4. (monotonic[t] - later_monotonic) \div P = 0
    BY <1>1, <2>2, <2>3, SlotIndexFacts, Zenon
  <2>5. monotonic[t] - later_monotonic < P
    BY <1>1, <2>1, <2>2, <2>4, Widths
  <2> QED BY <1>1, <2>1, <2>2, <2>5, Widths
<1>6. ASSUME NEW t \in LaterToSoon
      PROVE  /\ t \in registered /\ position[t] = Later(later_index)
             /\ soon_monotonic + 1 <= monotonic[t] /\ monotonic[t] <= soon_monotonic + S
             /\ SoonSlotsAway(t) = monotonic[t] - (soon_monotonic + 1)
             /\ SoonSlotsAway(t) \in SlotIndices
  <2>1. t \in later[later_index] /\ monotonic[t] <= soon_monotonic + S
    BY Zenon, <1>2 DEF LaterToSoon, DrainBeforeOrAt
  <2>2. soon_monotonic + 1 <= monotonic[t] /\ t \in Timer
    BY <1>1, <1>5, <2>1, Widths
  <2>3. /\ soon_monotonic + 1 \in Nat /\ monotonic[t] < (soon_monotonic + 1) + 1 * S
    BY <1>1, <2>1, <2>2, Widths
  <2>4. /\ SoonSlotsAway(t) = (monotonic[t] - (soon_monotonic + 1)) \div 1
        /\ (monotonic[t] - (soon_monotonic + 1)) \div 1 \in SlotIndices
    BY <1>1, <2>2, <2>3, WithinTheWheel DEF SoonSlotsAway
  <2>5. (monotonic[t] - (soon_monotonic + 1)) \div 1 = monotonic[t] - (soon_monotonic + 1)
    BY <1>1, <2>2
  <2> QED BY Zenon, <1>5, <2>1, <2>2, <2>4, <2>5
<1>7. LaterAdvances => later[later_index] \subseteq LaterToSoon
  <2> SUFFICES ASSUME LaterAdvances, NEW t \in later[later_index] PROVE t \in LaterToSoon
    BY Zenon
  <2>1. monotonic[t] <= soon_monotonic + S
    BY <1>1, <1>3, <1>5, Widths
  <2> QED BY Zenon, <1>1, <1>2, <2>1, Widths DEF LaterToSoon, DrainBeforeOrAt
<1>8. ASSUME NEW t \in LongTermToLater
      PROVE  /\ t \in registered /\ position[t] = LongTerm /\ LaterAdvances
             /\ later_monotonic + P <= monotonic[t]
             /\ monotonic[t] < later_monotonic + P + T
             /\ LaterSlotsAway(t) = (monotonic[t] - (later_monotonic + P)) \div P
             /\ LaterSlotsAway(t) \in SlotIndices
  <2>1. LaterAdvances /\ t \in long_term /\ monotonic[t] <= later_monotonic + P + T - 1
    BY Zenon, <1>2 DEF LongTermToLater, DrainBeforeOrAt
  <2>2. /\ t \in Timer /\ t \in registered /\ position[t] = LongTerm
        /\ later_monotonic + T <= monotonic[t]
    BY Zenon, <2>1 DEF PositionIsExact, TimerTypeOK, InPlace, PlacedLongTerm
  <2>3. /\ later_monotonic + P \in Nat /\ later_monotonic + P <= monotonic[t]
        /\ monotonic[t] < (later_monotonic + P) + P * S
        /\ monotonic[t] < later_monotonic + P + T
    BY <1>1, <2>1, <2>2, Widths
  <2>4. /\ LaterSlotsAway(t) = (monotonic[t] - (later_monotonic + P)) \div P
        /\ LaterSlotsAway(t) \in SlotIndices
    <3>1. LaterSlotsAway(t) = SlotsAway(monotonic[t], later_monotonic + P, P)
      BY Zenon, <1>2 DEF LaterSlotsAway, P
    <3> DEFINE start == later_monotonic + P
    <3>2. /\ monotonic[t] \in Nat /\ start \in Nat /\ start <= monotonic[t]
          /\ monotonic[t] < start + P * S
      BY Zenon, <1>1, <2>2, <2>3
    <3>3. /\ SlotsAway(monotonic[t], start, P) = (monotonic[t] - start) \div P
          /\ (monotonic[t] - start) \div P \in SlotIndices
      <4> HIDE DEF start
      <4> QED BY <3>2, Widths, WithinTheWheel, Zenon
    <3> QED BY Zenon, <3>1, <3>3
  <2> QED BY Zenon, <2>1, <2>2, <2>3, <2>4
<1>9. ASSUME NEW t \in long_term \ LongTermToLater, LaterAdvances
      PROVE  later_monotonic + P + T <= monotonic[t]
  BY <1>1, <1>2, <1>9, Widths DEF LongTermToLater, DrainBeforeOrAt, TimerTypeOK
<1> QED
  BY Zenon, <1>3, <1>4, <1>6, <1>7, <1>8, <1>9

(* One iteration of timeout's loop keeps the invariant. *)
LEMMA TickStep == ASSUME TimerInv, Tick PROVE TimerInv'
<1> USE DEF TimerInv
<1>1. /\ soon_monotonic \in Nat /\ later_monotonic \in Nat
      /\ soon_index \in SlotIndices /\ later_index \in SlotIndices
      /\ \A t \in Timer : monotonic[t] \in Nat
      /\ soon \in [SlotIndices -> SUBSET Timer] /\ later \in [SlotIndices -> SUBSET Timer]
      /\ registered \subseteq Timer
  BY Zenon DEF TimerTypeOK
<1>2. /\ ticks > 0 /\ ticks \in Nat /\ ticks # Idle /\ ticks' = ticks - 1
      /\ soon_index' = NextSlot(soon_index) /\ soon_monotonic' = soon_monotonic + 1
      /\ registered' = registered \ soon[soon_index] /\ fired' = fired \cup soon[soon_index]
      /\ UNCHANGED <<now, next_reference, monotonic, at_once, reading, cancelled>>
  BY DEF Tick, Idle, TimerTypeOK
<1>3. /\ position' = [t \in Timer |-> PositionAfterTick(t)]
      /\ long_term' = long_term \ LongTermToLater
      /\ soon' = [i \in SlotIndices |-> (IF i = soon_index THEN {} ELSE soon[i])
                        \cup {t \in LaterToSoon : SoonSlotOf(t) = i}]
      /\ later' = [i \in SlotIndices |->
                        (IF i = later_index THEN later[i] \ LaterToSoon ELSE later[i])
                        \cup {t \in LongTermToLater : LaterSlotOf(t) = i}]
  BY Zenon DEF Tick
<1>4. /\ LaterAdvances => later_index' = NextSlot(later_index)
                          /\ later_monotonic' = later_monotonic + P
      /\ ~LaterAdvances => later_index' = later_index /\ later_monotonic' = later_monotonic
  BY Zenon DEF Tick, LaterNextSlotMonotonic, P
<1>5. at_once = {} /\ soon_monotonic + ticks = reading /\ reading <= now
  BY Zenon, <1>2 DEF Looping
<1>6. NextSlot(soon_index) \in SlotIndices /\ NextSlot(later_index) \in SlotIndices
  BY Zenon, <1>1, SlotIndexFacts
<1>7. ASSUME NEW t \in LaterToSoon
      PROVE  t \in Timer /\ SoonSlotOf(t) \in SlotIndices
  BY Zenon, <1>1, <1>6, TickFacts, SlotIndexFacts DEF SoonSlotOf
<1>8. ASSUME NEW t \in LongTermToLater
      PROVE  t \in Timer /\ LaterSlotOf(t) \in SlotIndices
  BY Zenon, <1>1, <1>6, TickFacts, SlotIndexFacts DEF LaterSlotOf
<1>9. \A t \in Timer : PositionAfterTick(t) \in Position
  BY Zenon, <1>7, <1>8 DEF PositionAfterTick, Position, TimerTypeOK
<1>10. ~panicked'
  <2>1. \A t \in LaterToSoon : ~(SoonSlotsAway(t) >= SLOTS)
    BY TickFacts, SlotsAssumption DEF SlotIndices
  <2>2. \A t \in LongTermToLater : ~(LaterSlotsAway(t) >= SLOTS)
    BY TickFacts, SlotsAssumption DEF SlotIndices
  <2>3. LaterAdvances => later[later_index] \ LaterToSoon = {}
    BY Zenon, TickFacts
  <2> QED BY Zenon, <2>1, <2>2, <2>3 DEF Tick
<1>11. TimerTypeOK'
  <2>1. panicked' \in BOOLEAN
    BY Zenon DEF Tick
  <2>2. /\ soon_monotonic' \in Nat /\ later_monotonic' \in Nat /\ ticks' \in Nat
        /\ soon_index' \in SlotIndices /\ later_index' \in SlotIndices
    BY <1>1, <1>2, <1>4, <1>6, Widths
  <2>3. /\ soon' \in [SlotIndices -> SUBSET Timer] /\ later' \in [SlotIndices -> SUBSET Timer]
    BY Zenon, <1>1, <1>3, <1>7, <1>8
  <2>4. /\ position' \in [Timer -> Position] /\ registered' \subseteq Timer
        /\ fired' \subseteq Timer /\ long_term' \subseteq Timer
    BY Zenon, <1>1, <1>2, <1>3, <1>9 DEF TimerTypeOK
  <2> QED BY Zenon, <1>2, <2>1, <2>2, <2>3, <2>4 DEF TimerTypeOK
<1>12. Aligned'
  <2>1. soon_monotonic + 1 <= now
    BY <1>1, <1>2, <1>5 DEF TimerTypeOK
  <2>2. /\ (soon_monotonic + 1) + P <= later_monotonic'
        /\ later_monotonic' <= (soon_monotonic + 1) + S
    BY <1>1, <1>4, TickFacts, Widths DEF Aligned
  <2> QED BY Zenon, <1>2, <2>1, <2>2 DEF Aligned, S, P
<1>13. Looping'
  <2>1. (soon_monotonic + 1) + (ticks - 1) = reading
    BY <1>1, <1>2, <1>5
  <2> QED BY Zenon, <1>2, <1>5, <2>1 DEF Looping
<1>14. Issued' /\ CancelledNeverFires' /\ NoAssertionFails'
  BY Zenon, <1>2, <1>10, TickFacts
     DEF Issued, CancelledNeverFires, NoAssertionFails, PositionIsExact, Pending, Started
<1>15. NeverEarly'
  <2>1. soon_monotonic < now
    BY <1>1, <1>2, <1>5 DEF TimerTypeOK
  <2> QED BY Zenon, <1>2, <2>1, TickFacts DEF NeverEarly
<1>16. PositionIsExact'
  <2>1. registered' = Pending'
    BY Zenon, <1>2 DEF PositionIsExact, Pending, Started
  <2> SUFFICES ASSUME NEW u \in Timer
               PROVE  /\ u \in at_once' <=> u \in registered' /\ position'[u] = AtOnce
                      /\ u \in long_term' <=> u \in registered' /\ position'[u] = LongTerm
                      /\ \A i \in SlotIndices :
                           /\ u \in soon'[i] <=> u \in registered' /\ position'[u] = Soon(i)
                           /\ u \in later'[i] <=> u \in registered' /\ position'[u] = Later(i)
    BY Zenon, <2>1 DEF PositionIsExact
  <2>2. position'[u] = PositionAfterTick(u)
    BY Zenon, <1>3
  <2>3. \A i \in SlotIndices :
            /\ u \in soon'[i] <=> ((i # soon_index /\ u \in soon[i])
                                    \/ (u \in LaterToSoon /\ SoonSlotOf(u) = i))
            /\ u \in later'[i] <=> ((u \in later[i] /\ ~(i = later_index /\ u \in LaterToSoon))
                                     \/ (u \in LongTermToLater /\ LaterSlotOf(u) = i))
    BY Zenon, <1>3
  <2>4. /\ u \in at_once <=> u \in registered /\ position[u] = AtOnce
        /\ u \in long_term <=> u \in registered /\ position[u] = LongTerm
        /\ \A i \in SlotIndices :
            /\ u \in soon[i] <=> u \in registered /\ position[u] = Soon(i)
            /\ u \in later[i] <=> u \in registered /\ position[u] = Later(i)
    BY Zenon DEF PositionIsExact
  <2>5. /\ AtOnce # LongTerm
        /\ \A i, j \in SlotIndices :
            /\ Soon(i) \notin {AtOnce, LongTerm, Later(j)}
            /\ Later(i) \notin {AtOnce, LongTerm}
            /\ Soon(i) = Soon(j) => i = j
            /\ Later(i) = Later(j) => i = j
    BY Zenon DEF AtOnce, LongTerm, Soon, Later
  <2>6. CASE u \in LaterToSoon
    <3>1. position[u] = Later(later_index) /\ u \in registered
      BY Zenon, <2>6, TickFacts
    <3>2. u \notin soon[soon_index] /\ u \notin LongTermToLater
      BY Zenon, <1>1, <2>5, <3>1, TickFacts
    <3>3. position'[u] = Soon(SoonSlotOf(u)) /\ SoonSlotOf(u) \in SlotIndices
      BY Zenon, <1>7, <2>2, <2>6 DEF PositionAfterTick
    <3>4. u \in registered' /\ at_once' = at_once /\ (u \in long_term' <=> u \in long_term)
      BY Zenon, <1>2, <1>3, <3>1, <3>2
    <3> QED
      BY <1>1, <2>3, <2>4, <2>5, <2>6, <3>1, <3>2, <3>3, <3>4
  <2>7. CASE u \in LongTermToLater
    <3>1. position[u] = LongTerm /\ u \in registered
      BY Zenon, <2>7, TickFacts
    <3>2. u \notin soon[soon_index] /\ u \notin LaterToSoon
      BY Zenon, <1>1, <2>5, <3>1, TickFacts
    <3>3. position'[u] = Later(LaterSlotOf(u)) /\ LaterSlotOf(u) \in SlotIndices
      BY Zenon, <1>8, <2>2, <2>7, <3>2 DEF PositionAfterTick
    <3>4. u \in registered' /\ at_once' = at_once /\ u \notin long_term'
      BY Zenon, <1>2, <1>3, <2>7, <3>1, <3>2
    <3> QED
      BY Zenon, <1>1, <2>3, <2>4, <2>5, <2>7, <3>1, <3>2, <3>3, <3>4
  <2>8. CASE u \notin LaterToSoon /\ u \notin LongTermToLater
    <3>1. position'[u] = position[u]
      BY Zenon, <2>2, <2>8 DEF PositionAfterTick
    <3>2. /\ u \in registered' <=> u \in registered /\ u \notin soon[soon_index]
          /\ at_once' = at_once /\ (u \in long_term' <=> u \in long_term)
      BY Zenon, <1>2, <1>3, <2>8
    <3> QED
      BY ONLY <1>1, <2>3, <2>4, <2>5, <2>8, <3>1, <3>2, SMTT(30)
  <2> QED BY Zenon, <2>6, <2>7, <2>8
<1>17. InPlace'
  <2> SUFFICES ASSUME NEW u \in registered'
               PROVE  (PlacedAtOnce(u) /\ PlacedSoon(u) /\ PlacedLater(u) /\ PlacedLongTerm(u))'
    BY Zenon DEF InPlace
  <2>1. /\ u \in registered /\ u \in Timer /\ u \notin soon[soon_index]
        /\ position'[u] = PositionAfterTick(u) /\ monotonic' = monotonic /\ monotonic[u] \in Nat
        /\ PlacedAtOnce(u) /\ PlacedSoon(u) /\ PlacedLater(u) /\ PlacedLongTerm(u)
    BY <1>1, <1>2, <1>3, SMTT(30) DEF InPlace
  <2>a. position'[u] = PositionAfterTick(u)
    BY Zenon, <2>1
  <2>b. monotonic'[u] = monotonic[u]
    BY ONLY Zenon, <2>1
  <2>2. CASE u \in LaterToSoon
    <3>1. position'[u] = Soon(SoonSlotOf(u))
      BY Zenon, <2>a, <2>2 DEF PositionAfterTick
    <3>2. /\ SoonSlotOf(u) = SlotIndex(soon_index', monotonic[u] - soon_monotonic')
          /\ soon_monotonic' <= monotonic[u] /\ monotonic[u] < soon_monotonic' + S
      <4>1. /\ soon_monotonic + 1 <= monotonic[u] /\ monotonic[u] <= soon_monotonic + S
            /\ SoonSlotsAway(u) = monotonic[u] - (soon_monotonic + 1)
        BY Zenon, <2>2, TickFacts
      <4>2. SoonSlotOf(u) = SlotIndex(soon_index', monotonic[u] - soon_monotonic')
        BY Zenon, <1>2, <4>1 DEF SoonSlotOf
      <4>3. monotonic[u] < (soon_monotonic + 1) + S
        BY <1>1, <2>1, <4>1, Widths, SMTT(30)
      <4> QED BY <1>2, <4>1, <4>2, <4>3, SMTT(30)
    <3>3. PlacedAtOnce(u)' /\ PlacedLater(u)' /\ PlacedLongTerm(u)'
      BY ONLY <3>1 DEF PlacedAtOnce, PlacedLater, PlacedLongTerm, AtOnce, LongTerm, Soon, Later
    <3>4. PlacedSoon(u)'
      <4>1. \A i : Soon(SoonSlotOf(u)) = Soon(i) => i = SoonSlotOf(u)
        BY ONLY Zenon, TRUE DEF Soon
      <4> QED BY ONLY <2>b, <3>1, <3>2, <4>1, Zenon DEF PlacedSoon
    <3> QED BY ONLY Zenon, <3>3, <3>4
  <2>3. CASE u \in LongTermToLater
    <3>1. u \notin LaterToSoon /\ LaterAdvances
      BY <2>3, TickFacts DEF Later, LongTerm
    <3>2. position'[u] = Later(LaterSlotOf(u))
      BY Zenon, <2>a, <2>3, <3>1 DEF PositionAfterTick
    <3>3. /\ LaterSlotOf(u) = SlotIndex(later_index', (monotonic[u] - later_monotonic') \div P)
          /\ later_monotonic' <= monotonic[u] /\ monotonic[u] < later_monotonic' + T
      <4>1. /\ later_monotonic + P <= monotonic[u] /\ monotonic[u] < later_monotonic + P + T
            /\ LaterSlotsAway(u) = (monotonic[u] - (later_monotonic + P)) \div P
        BY Zenon, <2>3, TickFacts
      <4>2. later_index' = NextSlot(later_index) /\ later_monotonic' = later_monotonic + P
        BY Zenon, <1>4, <3>1
      <4> QED BY Zenon, <4>1, <4>2 DEF LaterSlotOf
    <3>4. PlacedAtOnce(u)' /\ PlacedSoon(u)' /\ PlacedLongTerm(u)'
      BY ONLY <3>2 DEF PlacedAtOnce, PlacedSoon, PlacedLongTerm, AtOnce, LongTerm, Soon, Later
    <3>5. PlacedLater(u)'
      <4>1. \A i : Later(LaterSlotOf(u)) = Later(i) => i = LaterSlotOf(u)
        BY ONLY Zenon, TRUE DEF Later
      <4> QED BY ONLY <2>b, <3>2, <3>3, <4>1, Zenon DEF PlacedLater
    <3> QED BY ONLY Zenon, <3>4, <3>5
  <2>4. CASE u \notin LaterToSoon /\ u \notin LongTermToLater
    <3>1. position'[u] = position[u]
      BY Zenon, <2>a, <2>4 DEF PositionAfterTick
    <3>2. PlacedAtOnce(u)'
      <4>1. soon_monotonic \in Nat /\ soon_monotonic' = soon_monotonic + 1
        BY ONLY Zenon, <1>1, <1>2
      <4> QED BY ONLY <2>1, <3>1, <4>1 DEF PlacedAtOnce
    <3>3. PlacedSoon(u)'
      <4>0. /\ position'[u] = position[u] /\ monotonic'[u] = monotonic[u]
            /\ soon_monotonic' = soon_monotonic + 1 /\ soon_index' = NextSlot(soon_index)
        BY ONLY Zenon, <1>2, <2>1, <3>1
      <4> SUFFICES ASSUME NEW i \in SlotIndices, position[u] = Soon(i)
                   PROVE  /\ soon_monotonic + 1 <= monotonic[u]
                          /\ monotonic[u] < (soon_monotonic + 1) + S
                          /\ i = SlotIndex(NextSlot(soon_index), monotonic[u] - (soon_monotonic + 1))
        BY <4>0, Zenon DEF PlacedSoon
      <4> DEFINE away == monotonic[u] - soon_monotonic
      <4>1. /\ soon_monotonic <= monotonic[u] /\ monotonic[u] < soon_monotonic + S
            /\ i = SlotIndex(soon_index, away)
        BY Zenon, <2>1 DEF PlacedSoon
      <4>2. away \in SlotIndices
        BY <1>1, <2>1, <4>1, Widths, SMTT(30) DEF SlotIndices, S
      <4>3. i # soon_index
        BY Zenon, <1>1, <2>1 DEF PositionIsExact
      <4>4. away > 0 /\ SlotIndex(NextSlot(soon_index), away - 1) = i
        <5> HIDE DEF away
        <5>1. away # 0
          BY <1>1, <4>1, <4>2, <4>3, SlotIndexFacts, Zenon
        <5>2. away > 0
          BY <4>2, <5>1, SlotsAssumption DEF SlotIndices
        <5> QED BY Zenon, <1>1, <4>1, <4>2, <5>2, SlotIndexFacts
      <4>5. away - 1 = monotonic[u] - (soon_monotonic + 1)
        BY <1>1, <2>1
      <4>6. soon_monotonic \in Nat /\ monotonic[u] \in Nat /\ S \in Nat
        BY ONLY Zenon, <1>1, <2>1, Widths
      <4> QED BY ONLY <4>1, <4>4, <4>5, <4>6
    <3>4. PlacedLater(u)'
      <4>1. CASE ~LaterAdvances
        BY Zenon, <1>4, <2>1, <3>1, <4>1 DEF PlacedLater
      <4>2. CASE LaterAdvances
        <5> SUFFICES ASSUME NEW i \in SlotIndices, position[u] = Later(i)
                     PROVE  /\ later_monotonic + P <= monotonic[u]
                            /\ monotonic[u] < (later_monotonic + P) + T
                            /\ i = SlotIndex(NextSlot(later_index),
                                            (monotonic[u] - (later_monotonic + P)) \div P)
          BY Zenon, <1>4, <2>1, <3>1, <4>2 DEF PlacedLater
        <5> DEFINE d == monotonic[u] - later_monotonic
                   away == d \div P
        <5>1. /\ later_monotonic <= monotonic[u] /\ monotonic[u] < later_monotonic + T
              /\ i = SlotIndex(later_index, away)
          BY Zenon, <2>1 DEF PlacedLater
        <5>2. away \in SlotIndices
          BY <1>1, <2>1, <5>1, Widths, WithinTheWheel, Zenon
        <5>3. i # later_index
          <6>1. u \in later[i]
            BY Zenon, <2>1 DEF PositionIsExact
          <6> QED BY Zenon, <2>4, <4>2, <6>1, TickFacts
        <5>4. away > 0 /\ SlotIndex(NextSlot(later_index), away - 1) = i
          <6> HIDE DEF away
          <6>1. away # 0
            BY <1>1, <5>1, <5>2, <5>3, SlotIndexFacts, Zenon
          <6>2. away > 0
            BY <5>2, <6>1, SlotsAssumption DEF SlotIndices
          <6> QED BY Zenon, <1>1, <5>1, <5>2, <6>2, SlotIndexFacts
        <5>5. d \in Nat /\ d >= P /\ (d - P) \div P = away - 1
          <6>1. d \in Nat
            BY <1>1, <2>1, <5>1
          <6> HIDE DEF d
          <6>2. d >= P
            BY <5>4, <6>1, Widths DEF away
          <6> QED BY <6>1, <6>2, Widths DEF away
        <5>6. d - P = monotonic[u] - (later_monotonic + P)
          BY <1>1, <2>1, Widths, SMTT(30)
        <5>7. later_monotonic \in Nat /\ monotonic[u] \in Nat /\ P \in Nat /\ T \in Nat
          BY ONLY Zenon, <1>1, <2>1, Widths
        <5> QED BY ONLY <5>1, <5>4, <5>5, <5>6, <5>7
      <4> QED BY Zenon, <4>1, <4>2
    <3>5. PlacedLongTerm(u)'
      <4>1. CASE ~LaterAdvances
        BY <1>4, <2>1, <3>1, <4>1, SMTT(30) DEF PlacedLongTerm
      <4>2. CASE LaterAdvances
        <5> SUFFICES ASSUME position[u] = LongTerm
                     PROVE  (later_monotonic + P) + T <= monotonic[u]
          BY Zenon, <1>4, <2>1, <3>1, <4>2 DEF PlacedLongTerm
        <5>1. u \in long_term
          BY Zenon, <2>1 DEF PositionIsExact
        <5> QED BY <2>4, <4>2, <5>1, TickFacts, SMTT(30)
      <4> QED BY <4>1, <4>2
    <3> QED BY Zenon, <3>2, <3>3, <3>4, <3>5
  <2> QED BY Zenon, <2>2, <2>3, <2>4
<1> QED
  BY Zenon, <1>11, <1>12, <1>13, <1>14, <1>15, <1>16, <1>17

-----------------------------------------------------------------------------
(* The inductive invariant holds in every reachable state of the hierarchy. *)
THEOREM Invariance == TimerSpec => []TimerInv
<1>1. TimerInit => TimerInv
  BY Zenon, InitTimerInv
<1>2. TimerInv /\ [TimerNext]_timerVars => TimerInv'
  <2> SUFFICES ASSUME TimerInv, [TimerNext]_timerVars PROVE TimerInv'
    BY Zenon
  <2>1. CASE \E m \in Deadlines : Start(m)
    BY Zenon, <2>1, StartStep
  <2>2. CASE \E t \in Timer : Cancel(t)
    BY Zenon, <2>2, CancelStep
  <2>3. CASE TimeoutBegin
    BY Zenon, <2>3, TimeoutBeginStep
  <2>4. CASE Tick
    BY <2>4, TickStep
  <2>5. CASE TimeoutEnd \/ ClockTick \/ UNCHANGED timerVars
    BY Zenon, <2>5, OtherSteps
  <2> QED BY Zenon, <2>1, <2>2, <2>3, <2>4, <2>5 DEF TimerNext
<1> QED
  BY <1>1, <1>2, PTL DEF TimerSpec

(* The variables of the hierarchy keep their types: every slot index stays
   inside its wheel. *)
THEOREM TimerTypesHold == TimerSpec => []TimerTypeOK
<1>1. TimerInv => TimerTypeOK
  BY Zenon DEF TimerInv
<1> QED BY <1>1, Invariance, PTL

(* No assertion of timer.rs fails, whatever timers are started and however
   late timeout is called: slot_index never sees a deadline outside its wheel,
   and the later slot is empty whenever the later wheel moves. *)
THEOREM AssertionsHold == TimerSpec => []NoAssertionFails
<1>1. TimerInv => NoAssertionFails
  BY Zenon DEF TimerInv
<1> QED BY <1>1, Invariance, PTL

(* The position recorded in a timer is always the slot that holds it, so that
   Hierarchy::cancel finds it. *)
THEOREM PositionsExact == TimerSpec => []PositionIsExact
<1>1. TimerInv => PositionIsExact
  BY Zenon DEF TimerInv
<1> QED BY <1>1, Invariance, PTL

(* A timer that Hierarchy::cancel took out never times out. *)
THEOREM CancelIsFinal == TimerSpec => []CancelledNeverFires
<1>1. TimerInv => CancelledNeverFires
  BY Zenon DEF TimerInv
<1> QED BY <1>1, Invariance, PTL

(* Hierarchy::timeout never fires a timer before its deadline has passed. *)
THEOREM TimersNotEarly == TimerSpec => []NeverEarly
<1>1. TimerInv => NeverEarly
  BY Zenon DEF TimerInv
<1> QED BY <1>1, Invariance, PTL

-----------------------------------------------------------------------------
(* A pending timer's deadline is not before the soon wheel's current slot,
   unless it is an at-once timer. *)
LEMMA PendingNotBehind ==
    ASSUME TimerInv, NEW t \in Pending
    PROVE  t \in Timer /\ monotonic[t] \in Nat /\ (t \notin at_once => soon_monotonic <= monotonic[t])
<1> USE DEF TimerInv
<1>1. t \in Timer /\ t \in registered /\ monotonic[t] \in Nat
  BY Zenon DEF PositionIsExact, TimerTypeOK
<1>2. position[t] \in Position
  BY Zenon, <1>1 DEF TimerTypeOK
<1>3. /\ soon_monotonic \in Nat /\ later_monotonic \in Nat
      /\ soon_monotonic <= later_monotonic /\ later_monotonic <= later_monotonic + T
  BY Widths DEF TimerTypeOK, Aligned
<1>4. PlacedAtOnce(t) /\ PlacedSoon(t) /\ PlacedLater(t) /\ PlacedLongTerm(t)
  BY <1>1, SMTT(30) DEF InPlace
<1>5. ASSUME t \notin at_once PROVE position[t] # AtOnce
  BY Zenon, <1>1, <1>5 DEF PositionIsExact
<1>6. ASSUME NEW i \in SlotIndices, position[t] \in {Soon(i), Later(i)}
      PROVE  soon_monotonic <= monotonic[t]
  BY <1>1, <1>3, <1>4, <1>6 DEF PlacedSoon, PlacedLater
<1>7. ASSUME position[t] = LongTerm PROVE soon_monotonic <= monotonic[t]
  BY <1>1, <1>3, <1>4, <1>7, Widths, SMTT(30) DEF PlacedLongTerm
<1> QED
  BY Zenon, <1>1, <1>2, <1>5, <1>6, <1>7 DEF Position

(* Timers fire in the order of their deadlines: no step of timeout fires a
   timer while one with an earlier deadline stays behind in some slot. *)
THEOREM DeadlineOrder == TimerSpec => FiresInDeadlineOrder
<1>1. TimerInv /\ TimerInv' /\ [TimerNext]_timerVars
        => [\A t \in fired' \ fired : \A u \in Pending' : monotonic[t] <= monotonic[u]]_timerVars
  <2> SUFFICES ASSUME TimerInv, TimerNext, NEW t \in fired' \ fired, NEW u \in Pending'
               PROVE  monotonic[t] <= monotonic[u]
    BY Zenon DEF timerVars, wheels
  <2>1. CASE TimeoutBegin
    <3>1. /\ t \in at_once /\ u \in Pending /\ u \notin at_once
      BY Zenon, <2>1 DEF TimeoutBegin, Pending, Started
    <3>2. t \in Timer /\ monotonic[t] \in Nat /\ monotonic[t] < soon_monotonic
      BY Zenon, <3>1 DEF TimerInv, TimerTypeOK, PositionIsExact, InPlace, PlacedAtOnce
    <3> QED BY <3>1, <3>2, PendingNotBehind DEF TimerInv, TimerTypeOK
  <2>2. CASE Tick
    <3>1. t \in soon[soon_index] /\ u \in Pending
      BY Zenon, <2>2 DEF Tick, Pending, Started
    <3>2. monotonic[t] = soon_monotonic
      BY Zenon, <3>1, TickFacts
    <3>3. u \notin at_once
      BY <2>2, SMTT(30) DEF Tick, TimerInv, Looping, TimerTypeOK, Idle
    <3> QED BY <3>1, <3>2, <3>3, PendingNotBehind, SMTT(30)
  <2>3. CASE ClockTick \/ TimeoutEnd \/ (\E m \in Deadlines : Start(m)) \/ \E c \in Timer : Cancel(c)
    BY Zenon, <2>3 DEF ClockTick, TimeoutEnd, Start, Cancel
  <2> QED BY Zenon, <2>1, <2>2, <2>3 DEF TimerNext
<1> QED
  BY <1>1, Invariance, PTL DEF TimerSpec, FiresInDeadlineOrder

(* When Hierarchy::timeout returns, no timer whose deadline lies before the
   clock value that it read is left. *)
THEOREM TimeoutIsComplete == TimerSpec => NothingOverdue
<1>1. TimerInv /\ [TimerNext]_timerVars
        => [ticks = 0 /\ ticks' = Idle => \A t \in Pending : reading <= monotonic[t]]_timerVars
  <2> SUFFICES ASSUME TimerInv, ticks = 0, NEW t \in Pending
               PROVE  reading <= monotonic[t]
    BY Zenon
  <2>1. at_once = {} /\ soon_monotonic + 0 = reading /\ soon_monotonic \in Nat
    BY DEF TimerInv, Looping, Idle, TimerTypeOK
  <2> QED BY <2>1, PendingNotBehind
<1> QED
  BY <1>1, Invariance, PTL DEF TimerSpec, NothingOverdue

(********************************************************************************)
(* receive                                                                      *)
(********************************************************************************)
(* Every message is sent once, so it has one place in the mailbox.              *)
Distinct ==
    /\ \A i, j \in 1..Len(mailbox) : mailbox[i] = mailbox[j] => i = j
    /\ \A i \in 1..Len(mailbox) : mailbox[i] \notin unsent

IsAt(i) == i \in 1..Len(mailbox) /\ mailbox[i] = message
NoneBefore(i) == \A j \in 1..i - 1 : mailbox[j] \notin pattern

(* The cursor is in the mailbox, and nothing up to it matched.                  *)
Cursor ==
    /\ at = "next" => \/ message = Null
                      \/ \E i \in 1..Len(mailbox) : IsAt(i) /\ NoneBefore(i + 1)
    /\ at \in {"peek", "pop"} => \E i \in 1..Len(mailbox) : IsAt(i) /\ NoneBefore(i)
    /\ at = "pop" => message \in pattern

(* The context's deadline is the one that was asked for, and its timer is       *)
(* pending until the deadline has passed.                                       *)
Deadline ==
    /\ pending \subseteq {timer}
    /\ Receiving => receive_timeout = IF timeout = 0 THEN Immediate
                                      ELSE IF timeout = Infinity THEN U64Max
                                      ELSE started + timeout
    /\ timeout # Infinity => started + timeout < U64Max
    /\ Receiving /\ timeout \notin {0, Infinity} =>
           started + timeout \in pending \/ started + timeout <= clock

IInv == TypeOK /\ Distinct /\ Cursor /\ Deadline /\ NoLostWakeup /\ NoStrayTimer

(* IndexOf finds the one place of a message.                                    *)
LEMMA IndexIs ==
    ASSUME Distinct, NEW i \in 1..Len(mailbox)
    PROVE  IndexOf(mailbox[i]) = i
<1>1. \E k \in 1..Len(mailbox) : mailbox[k] = mailbox[i]
  BY Zenon
<1>2. IndexOf(mailbox[i]) \in 1..Len(mailbox) /\ mailbox[IndexOf(mailbox[i])] = mailbox[i]
  BY Zenon, <1>1 DEF IndexOf
<1> QED BY Zenon, <1>2 DEF Distinct

(* What a concatenation is made of.                                             *)
LEMMA Joined ==
    ASSUME NEW Elements, NEW a \in Seq(Elements), NEW b \in Seq(Elements)
    PROVE  /\ a \o b \in Seq(Elements) /\ Len(a \o b) = Len(a) + Len(b)
           /\ \A j \in 1..Len(a) : (a \o b)[j] = a[j]
           /\ \A j \in 1..Len(b) : (a \o b)[Len(a) + j] = b[j]
OBVIOUS

(* What is left of a sequence without its i-th element.                         *)
Without(s, i) == SubSeq(s, 1, i - 1) \o SubSeq(s, i + 1, Len(s))

(* Without keeps the order of the others.                                       *)
LEMMA Removed ==
    ASSUME NEW Elements, NEW s \in Seq(Elements), NEW i \in 1..Len(s)
    PROVE  /\ Without(s, i) \in Seq(Elements) /\ Len(Without(s, i)) = Len(s) - 1
           /\ \A j \in 1..i - 1 : Without(s, i)[j] = s[j]
           /\ \A j \in i..Len(s) - 1 : Without(s, i)[j] = s[j + 1]
<1> DEFINE r == Without(s, i)
           a == SubSeq(s, 1, i - 1)
           b == SubSeq(s, i + 1, Len(s))
<1>1. a \in Seq(Elements) /\ Len(a) = i - 1 /\ \A j \in 1..i - 1 : a[j] = s[j]
  OBVIOUS
<1>2. b \in Seq(Elements) /\ Len(b) = Len(s) - i /\ \A j \in 1..Len(s) - i : b[j] = s[j + i]
  OBVIOUS
<1>3. r = a \o b
  BY Zenon DEF Without
<1> HIDE DEF r, a, b
<1>4. Len(s) \in Nat
  OBVIOUS
<1>5. /\ r \in Seq(Elements) /\ Len(r) = Len(a) + Len(b)
      /\ \A j \in 1..Len(a) : r[j] = a[j]
      /\ \A j \in 1..Len(b) : r[Len(a) + j] = b[j]
  <2>1. a \in Seq(Elements) /\ b \in Seq(Elements)
    BY Zenon, <1>1, <1>2
  <2>2. /\ a \o b \in Seq(Elements) /\ Len(a \o b) = Len(a) + Len(b)
        /\ \A j \in 1..Len(a) : (a \o b)[j] = a[j]
        /\ \A j \in 1..Len(b) : (a \o b)[Len(a) + j] = b[j]
    BY ONLY <2>1, Joined
  <2> QED BY ONLY <2>2, <1>3, Zenon
<1>6. \A j \in 1..i - 1 : r[j] = s[j]
  BY Zenon, <1>1, <1>5
<1>7. ASSUME NEW j \in i..Len(s) - 1 PROVE r[j] = s[j + 1]
  <2>1. j - (i - 1) \in 1..Len(b) /\ Len(a) + (j - (i - 1)) = j /\ (j - (i - 1)) + i = j + 1
    BY ONLY <1>1, <1>2, <1>4, i \in 1..Len(s), j \in i..Len(s) - 1
  <2>2. r[j] = b[j - (i - 1)]
    BY Zenon, <2>1, <1>5
  <2> QED BY Zenon, <2>1, <2>2, <1>2
<1>8. Len(r) = Len(s) - 1
  BY ONLY <1>1, <1>2, <1>4, <1>5, i \in 1..Len(s)
<1> QED BY Zenon, <1>5, <1>6, <1>7, <1>8 DEF r

LEMMA InitSafe == Init => IInv
BY MessageAssumption, TimeoutsAssumption DEF Init, IInv, TypeOK, Distinct, Cursor, Deadline,
   NoLostWakeup, NoStrayTimer, Receiving

(* A message that arrives keeps the cursor where it is.                         *)
LEMMA ArrivalSafe ==
    ASSUME IInv, NEW m \in unsent, mailbox' = Append(mailbox, m), unsent' = unsent \ {m},
           message' = message, pattern' = pattern, at' = at
    PROVE  mailbox' \in Seq(Message) /\ Distinct' /\ Cursor'
<1>1. mailbox \in Seq(Message) /\ m \in Message
  BY Zenon DEF IInv, TypeOK
<1>2. /\ mailbox' \in Seq(Message) /\ Len(mailbox') = Len(mailbox) + 1
      /\ mailbox'[Len(mailbox) + 1] = m
      /\ \A i \in 1..Len(mailbox) : mailbox'[i] = mailbox[i]
  BY <1>1
<1>3. Distinct'
  BY <1>1, <1>2 DEF IInv, Distinct
<1>4. Cursor'
  BY <1>1, <1>2 DEF IInv, Cursor, IsAt, NoneBefore
<1> QED BY Zenon, <1>2, <1>3, <1>4

(* builtin_receive_next finds no message: all have been seen, and none matches. *)
LEMMA SeenAll ==
    ASSUME IInv, at = "next", NextIndex > Len(mailbox)
    PROVE  NextIndex = Len(mailbox) + 1 /\ NoneBefore(NextIndex)
<1>1. CASE message = Null
  BY <1>1 DEF IInv, TypeOK, NextIndex, NoneBefore
<1>2. CASE message # Null
  <2>1. PICK i \in 1..Len(mailbox) : IsAt(i) /\ NoneBefore(i + 1)
    BY Zenon, <1>2 DEF IInv, Cursor
  <2>2. NextIndex = i + 1
    BY Zenon, <2>1, <1>2, IndexIs DEF IInv, NextIndex, IsAt
  <2> QED BY <2>1, <2>2 DEF IInv, TypeOK
<1> QED BY Zenon, <1>1, <1>2

LEMMA StepSafe == IInv /\ [Next]_vars => IInv'
<1> SUFFICES ASSUME IInv, [Next]_vars PROVE IInv'
  OBVIOUS
<1> USE MessageAssumption, TimeoutsAssumption
<1>1. ASSUME NEW p \in SUBSET Message, NEW d \in Timeouts, ReceiveStart(p, d) PROVE IInv'
  <2> USE <1>1 DEF ReceiveStart
  <2>0. /\ clock \in 0..MaxClock /\ pending = {}
        /\ d # Infinity => d \in Nat /\ clock + d \in Nat /\ clock + d < U64Max
        /\ receive_timeout' = ReceiveTimeout(d)
    BY DEF IInv, TypeOK, NoStrayTimer
  <2>1. TypeOK' /\ Distinct' /\ Cursor'
    <3>1. receive_timeout' \in Nat
      BY <2>0 DEF ReceiveTimeout, Immediate
    <3>2. timer' \in Nat \cup {Null} /\ pending' \subseteq Nat
      BY Zenon, <2>0, <3>1
    <3> QED BY <2>0, <3>1, <3>2 DEF IInv, TypeOK, Distinct, Cursor
  <2>2. Deadline'
    <3>1. pending' \subseteq {timer'}
      BY Zenon, <2>0
    <3>2. d \notin {0, Infinity} => clock + d \in pending'
      BY <2>0 DEF ReceiveTimeout, Immediate
    <3> QED BY Zenon, <2>0, <3>1, <3>2 DEF Deadline, ReceiveTimeout, Immediate, Receiving
  <2>3. NoLostWakeup' /\ NoStrayTimer'
    BY Zenon DEF NoLostWakeup, NoStrayTimer
  <2> QED BY Zenon, <2>1, <2>2, <2>3 DEF IInv
<1>2. CASE ReceiveNextPeek
  <2> USE <1>2 DEF ReceiveNextPeek, history
  <2>1. NextIndex \in 1..Len(mailbox) /\ NoneBefore(NextIndex)
    <3>1. CASE message = Null
      BY <3>1 DEF IInv, TypeOK, NextIndex, NoneBefore
    <3>2. CASE message # Null
      <4>1. PICK i \in 1..Len(mailbox) : IsAt(i) /\ NoneBefore(i + 1)
        BY Zenon, <3>2 DEF IInv, Cursor
      <4>2. NextIndex = i + 1
        BY Zenon, <4>1, <3>2, IndexIs DEF IInv, NextIndex, IsAt
      <4> QED BY <4>1, <4>2 DEF IInv, TypeOK
    <3> QED BY Zenon, <3>1, <3>2
  <2>2. TypeOK' /\ Distinct'
    BY <2>1 DEF IInv, TypeOK, Distinct
  <2>3. Cursor'
    BY Zenon, <2>1 DEF Cursor, IsAt, NoneBefore
  <2>4. Deadline' /\ NoLostWakeup' /\ NoStrayTimer'
    BY Zenon DEF IInv, Deadline, NoLostWakeup, NoStrayTimer, Receiving
  <2> QED BY Zenon, <2>2, <2>3, <2>4 DEF IInv
<1>3. CASE ReceiveNextTimeout
  <2> USE <1>3 DEF ReceiveNextTimeout, CancelTimer, history
  <2>1. TypeOK' /\ Distinct' /\ Cursor'
    BY Zenon DEF IInv, TypeOK, Distinct, Cursor
  <2>2. Deadline' /\ NoLostWakeup' /\ NoStrayTimer'
    BY Zenon DEF IInv, Deadline, NoLostWakeup, NoStrayTimer, Receiving
  <2> QED BY Zenon, <2>1, <2>2 DEF IInv
<1>4. CASE ReceiveNextWait
  <2> USE <1>4 DEF ReceiveNextWait, history, context
  <2>1. TypeOK' /\ Distinct' /\ Cursor' /\ Deadline' /\ NoStrayTimer'
    BY Zenon DEF IInv, TypeOK, Distinct, Cursor, IsAt, NoneBefore, Deadline, NoStrayTimer, Receiving
  <2>2. NextIndex = Len(mailbox) + 1
    BY Zenon, SeenAll
  <2>3. timeout = Infinity \/ started + timeout \in pending
    BY DEF IInv, TypeOK, Deadline, IsTimedOut, Immediate, Receiving
  <2>4. NoLostWakeup'
    BY Zenon, <2>2, <2>3 DEF NoLostWakeup, NextIndex, IndexOf
  <2> QED BY Zenon, <2>1, <2>4 DEF IInv
<1>5. CASE Peek
  <2> USE <1>5 DEF Peek, history, context
  <2>1. TypeOK' /\ Distinct' /\ Deadline' /\ NoStrayTimer' /\ NoLostWakeup'
    BY Zenon DEF IInv, TypeOK, Distinct, Deadline, NoStrayTimer, NoLostWakeup, Receiving
  <2>2. PICK i \in 1..Len(mailbox) : IsAt(i) /\ NoneBefore(i)
    BY Zenon DEF IInv, Cursor
  <2>3. message \notin pattern => NoneBefore(i + 1)
    BY <2>2 DEF IInv, TypeOK, IsAt, NoneBefore
  <2>4. Cursor'
    BY Zenon, <2>2, <2>3 DEF Cursor, IsAt, NoneBefore
  <2> QED BY Zenon, <2>1, <2>4 DEF IInv
<1>6. CASE ReceivePop
  <2> USE <1>6 DEF ReceivePop, history
  <2>1. PICK i \in 1..Len(mailbox) : IsAt(i)
    BY Zenon DEF IInv, Cursor
  <2>2. mailbox' = Without(mailbox, i)
    BY Zenon, <2>1, IndexIs DEF IInv, IsAt, Remove, Without
  <2>3. /\ mailbox' \in Seq(Message) /\ Len(mailbox') = Len(mailbox) - 1
        /\ \A j \in 1..i - 1 : mailbox'[j] = mailbox[j]
        /\ \A j \in i..Len(mailbox) - 1 : mailbox'[j] = mailbox[j + 1]
    <3>1. mailbox \in Seq(Message)
      BY Zenon DEF IInv, TypeOK
    <3> QED BY ONLY Zenon, <3>1, <2>2, i \in 1..Len(mailbox), Removed
  <2>4. TypeOK' /\ Deadline' /\ NoStrayTimer' /\ NoLostWakeup' /\ Cursor'
    BY Zenon, <2>3 DEF IInv, TypeOK, Deadline, NoStrayTimer, NoLostWakeup, Cursor, Receiving
  <2>5. Distinct'
    <3> DEFINE f(j) == IF j < i THEN j ELSE j + 1
    <3>1. \A j \in 1..Len(mailbox') : f(j) \in 1..Len(mailbox) /\ mailbox'[j] = mailbox[f(j)]
      BY <2>3 DEF IInv, TypeOK
    <3>2. \A j, k \in 1..Len(mailbox') : f(j) = f(k) => j = k
      OBVIOUS
    <3> HIDE DEF f
    <3>3. \A j, k \in 1..Len(mailbox') : mailbox'[j] = mailbox'[k] => f(j) = f(k)
      <4>1. Distinct BY Zenon DEF IInv
      <4> QED BY ONLY <3>1, <4>1 DEF Distinct
    <3> QED BY ONLY <3>1, <3>2, <3>3, IInv, unsent' = unsent DEF IInv, Distinct
  <2> QED BY Zenon, <2>4, <2>5 DEF IInv
<1>7. CASE ReceiveDone
  <2> USE <1>7 DEF ReceiveDone, CancelTimer, history
  <2>1. TypeOK' /\ Distinct' /\ Cursor'
    BY Zenon DEF IInv, TypeOK, Distinct, Cursor
  <2>2. Deadline' /\ NoLostWakeup' /\ NoStrayTimer'
    BY Zenon DEF IInv, Deadline, NoLostWakeup, NoStrayTimer, Receiving
  <2> QED BY Zenon, <2>1, <2>2 DEF IInv
<1>8. CASE ClockAdvances
  <2> USE <1>8 DEF ClockAdvances, history, context
  <2>1. TypeOK' /\ Distinct' /\ Cursor'
    BY DEF IInv, TypeOK, Distinct, Cursor, IsAt, NoneBefore
  <2>2. Deadline'
    BY DEF IInv, TypeOK, Deadline, Receiving
  <2>3. NoLostWakeup' /\ NoStrayTimer'
    BY Zenon DEF IInv, NoLostWakeup, NoStrayTimer, NextIndex, IndexOf
  <2> QED BY Zenon, <2>1, <2>2, <2>3 DEF IInv
<1>9. ASSUME NEW m \in Message, SendFromSelf(m) \/ SendFromOther(m) PROVE IInv'
  <2> USE <1>9 DEF SendFromSelf, SendFromOther, StopWaiting, history, context
  <2>1. mailbox' \in Seq(Message) /\ Distinct' /\ Cursor'
    BY Zenon, ArrivalSafe
  <2>2. TypeOK' /\ Deadline' /\ NoStrayTimer'
    BY Zenon, <2>1 DEF IInv, TypeOK, Deadline, NoStrayTimer, Receiving
  <2>3. NoLostWakeup'
    BY Zenon DEF IInv, TypeOK, NoLostWakeup
  <2> QED BY Zenon, <2>1, <2>2, <2>3 DEF IInv
<1>10. ASSUME NEW t \in pending, TimerTimesOut(t) PROVE IInv'
  <2> USE <1>10 DEF TimerTimesOut, StopWaiting, history, context
  <2>1. TypeOK' /\ Distinct' /\ Cursor'
    BY Zenon DEF IInv, TypeOK, Distinct, Cursor, IsAt, NoneBefore
  <2>2. Deadline'
    BY Zenon DEF IInv, TypeOK, Deadline, Receiving
  <2>3. NoLostWakeup' /\ NoStrayTimer'
    BY Zenon DEF IInv, TypeOK, NoLostWakeup, NoStrayTimer
  <2> QED BY Zenon, <2>1, <2>2, <2>3 DEF IInv
<1>11. CASE Reduced \/ Resume
  <2> USE <1>11 DEF Reduced, Resume, history, context
  <2>1. TypeOK' /\ Distinct' /\ Cursor' /\ Deadline' /\ NoStrayTimer' /\ NoLostWakeup'
    BY Zenon DEF IInv, TypeOK, Distinct, Cursor, IsAt, NoneBefore, Deadline, NoStrayTimer,
       NoLostWakeup, Receiving
  <2> QED BY Zenon, <2>1 DEF IInv
<1>12. CASE UNCHANGED vars
  BY <1>12 DEF vars, history, context, IInv, TypeOK, Distinct, Cursor, IsAt, NoneBefore, Deadline,
     NoStrayTimer, NoLostWakeup, Receiving, NextIndex, IndexOf
<1> QED BY Zenon, <1>1, <1>2, <1>3, <1>4, <1>5, <1>6, <1>7, <1>8, <1>9, <1>10, <1>11, <1>12 DEF Next

LEMMA Safe == Spec => []IInv
BY InitSafe, StepSafe, PTL DEF Spec

(* The types of the receive context, the mailbox and the timers.                *)
THEOREM TypeCorrect == Spec => []TypeOK
<1>1. IInv => TypeOK
  BY Zenon DEF IInv
<1> QED BY Safe, <1>1, PTL

(* A process that waits in builtin_receive_next has seen every message and has  *)
(* its timer still to come.                                                     *)
THEOREM WakeupsArrive == Spec => []NoLostWakeup
<1>1. IInv => NoLostWakeup
  BY Zenon DEF IInv
<1> QED BY Safe, <1>1, PTL

(* builtin_receive_done leaves no timer of the receive behind.                  *)
THEOREM TimersEnd == Spec => []NoStrayTimer
<1>1. IInv => NoStrayTimer
  BY Zenon DEF IInv
<1> QED BY Safe, <1>1, PTL

(* A step of the receive builtins, of the scheduler or of a sender is a step of *)
(* SelectiveReceive or changes nothing that the program sees.                   *)
LEMMA StepRefines == IInv /\ [Next]_vars => [Abstract!Next]_(Abstract!vars)
<1> SUFFICES ASSUME IInv, [Next]_vars PROVE Abstract!Next \/ UNCHANGED Abstract!vars
  BY Zenon
<1> USE DEF Abstract!vars, Receiving
<1>1. ASSUME NEW p \in SUBSET Message, NEW d \in Timeouts, ReceiveStart(p, d)
      PROVE  Abstract!Begin
  BY Zenon, <1>1, TimeoutsAssumption DEF ReceiveStart, Abstract!Begin
<1>2. CASE ReceiveNextTimeout
  <2> USE <1>2 DEF ReceiveNextTimeout, history
  <2>1. \A i \in 1..Len(mailbox) : mailbox[i] \notin pattern
    BY SeenAll DEF NoneBefore, IInv, TypeOK
  <2>2. timeout # Infinity /\ started + timeout <= clock
    BY TimeoutsAssumption DEF IInv, TypeOK, Deadline, IsTimedOut, Immediate
  <2> QED BY <2>1, <2>2 DEF Abstract!TimeOut, Abstract!Next
<1>3. CASE ReceivePop
  <2> USE <1>3 DEF ReceivePop, history
  <2>1. PICK i \in 1..Len(mailbox) : IsAt(i) /\ NoneBefore(i)
    BY Zenon DEF IInv, Cursor
  <2>2. Abstract!IsFirstMatch(i)
    BY Zenon, <2>1 DEF IInv, Cursor, IsAt, NoneBefore, Abstract!IsFirstMatch
  <2>3. mailbox' = Abstract!RemoveFrom(mailbox, i)
    BY Zenon, <2>1, IndexIs DEF IInv, IsAt, Remove, Abstract!RemoveFrom
  <2> QED BY <2>2, <2>3 DEF Abstract!Take, Abstract!Next
<1>4. CASE ClockAdvances
  BY Zenon, <1>4 DEF ClockAdvances, history, Abstract!ClockTick, Abstract!Next
<1>5. ASSUME NEW m \in Message, SendFromSelf(m) \/ SendFromOther(m) PROVE Abstract!Arrive
  BY Zenon, <1>5 DEF SendFromSelf, SendFromOther, history, Abstract!Arrive
<1>6. ASSUME \/ ReceiveNextPeek \/ ReceiveNextWait \/ Peek \/ ReceiveDone \/ Reduced \/ Resume
             \/ \E t \in pending : TimerTimesOut(t)
             \/ UNCHANGED vars
      PROVE  UNCHANGED Abstract!vars
  BY <1>6 DEF ReceiveNextPeek, ReceiveNextWait, Peek, ReceiveDone, Reduced, Resume, TimerTimesOut,
     vars, history
<1> QED BY Zenon, <1>1, <1>2, <1>3, <1>4, <1>5, <1>6 DEF Next, Abstract!Next

(* The receive builtins implement selective receive with a timeout: the oldest  *)
(* match is taken, and a timeout is neither early nor instead of a match.       *)
THEOREM Refines == Spec => ImplementsSelectiveReceive
<1>1. Init => Abstract!Init
  BY DEF Init, Abstract!Init, Receiving
<1> QED BY Safe, <1>1, StepRefines, PTL DEF Spec, ImplementsSelectiveReceive, Abstract!Spec

(********************************************************************************)
(* The pids                                                                     *)
(********************************************************************************)
(* The counter stays above every pid in the table.                              *)

PidInv ==
    /\ PidTypeOK
    /\ number <= NUMBER_MAX
    /\ failed # "no serial left" => serial <= SERIAL_MAX
    /\ Below
    /\ PidsFit

(* Pid::new_unchecked is monotonic: a pid of an earlier serial, or of the same
   serial and an earlier number, is smaller. *)
LEMMA EncodedNext ==
    ASSUME MaxAssumption, NEW s \in Nat, NEW n \in 0..NUMBER_MAX
    PROVE  /\ Encoded(n, s) \in Nat
           /\ Encoded(n, s) < Encoded(n + 1, s)
           /\ n = NUMBER_MAX => Encoded(0, s + 1) = Encoded(n, s) + 1
<1> USE DEF MaxAssumption
<1> DEFINE w == NUMBER_MAX + 1
<1>1. w \in Nat
  BY MaxAssumption
<1>2. s * w \in Nat /\ (s + 1) * w = s * w + w
  BY <1>1
<1> QED
  BY <1>1, <1>2, MaxAssumption DEF Encoded

(* The first call starts from an empty table. *)
LEMMA PidInvInit == MaxAssumption /\ PidInit => PidInv
<1> SUFFICES ASSUME MaxAssumption, PidInit PROVE PidInv
  BY Zenon
<1> USE DEF MaxAssumption
<1>1. 0 \in Pid
  <2>1. 0 \in 0..NUMBER_MAX /\ 0 \in 0..SERIAL_MAX /\ Encoded(0, 0) = 0
    BY MaxAssumption DEF Encoded
  <2> QED BY <2>1 DEF Pid
<1>2. PidTypeOK /\ number <= NUMBER_MAX /\ serial <= SERIAL_MAX
  BY MaxAssumption DEF PidInit, PidTypeOK
<1> QED BY Zenon, <1>1, <1>2 DEF PidInit, PidInv, Below, PidsFit

(* Counter::next and put_pid_to_process keep every pid in the table below the
   counter, so that the next pid is not in it. *)
LEMMA PidInvNext == MaxAssumption /\ PidInv /\ [PidNext]_pidVars => PidInv' /\ [Unique!Next]_<<by_pid, pid>>
<1> SUFFICES ASSUME MaxAssumption, PidInv, [PidNext]_pidVars PROVE PidInv' /\ [Unique!Next]_<<by_pid, pid>>
  BY Zenon
<1> USE DEF MaxAssumption
<1>1. CASE NextPid
  <2> DEFINE new == Encoded(number, serial)
  <2>1. serial \in Nat /\ serial \in 0..SERIAL_MAX /\ number \in 0..NUMBER_MAX
    <3>1. failed = "no"
      BY Zenon, <1>1 DEF NextPid
    <3>2. serial \in Nat /\ number \in Nat /\ number <= NUMBER_MAX /\ serial <= SERIAL_MAX
      BY <3>1, MaxAssumption DEF PidInv, PidTypeOK
    <3> QED BY <3>2, MaxAssumption
  <2>0. /\ RollsOver <=> number = NUMBER_MAX
        /\ serial' = IF RollsOver THEN serial + 1 ELSE serial
        /\ number' = IF RollsOver THEN 0 ELSE number + 1
    <3>1. RollsOver <=> number = NUMBER_MAX
      BY <2>1, MaxAssumption DEF RollsOver
    <3>2. /\ serial' = IF RollsOver THEN serial + 1 ELSE serial
          /\ number' = IF RollsOver THEN 0 ELSE number + 1
      BY Zenon, <1>1 DEF NextPid
    <3> QED BY Zenon, <3>1, <3>2
  <2>2. new \in Nat /\ new \in Pid
    BY <2>1, EncodedNext DEF Pid
  <2>3. new \notin by_pid
    <3>1. Below /\ by_pid \subseteq Nat
      BY Zenon DEF PidInv, PidTypeOK
    <3>2. \A p \in by_pid : p < new
      BY Zenon, <3>1 DEF Below
    <3> HIDE DEF new
    <3> QED BY <2>2, <3>2
  <2>4. new < Encoded(number', serial')
    <3>1. CASE RollsOver
      <4>1. number = NUMBER_MAX /\ number' = 0 /\ serial' = serial + 1
        BY Zenon, <2>0, <3>1
      <4> QED BY <2>1, <2>2, <4>1, EncodedNext
    <3>2. CASE ~RollsOver
      <4>1. number' = number + 1 /\ serial' = serial
        BY Zenon, <2>0, <3>2
      <4> QED BY Zenon, <2>1, <4>1, EncodedNext
    <3> QED BY Zenon, <3>1, <3>2
  <2>5. Encoded(number', serial') \in Nat
    <3>1. number' \in 0..NUMBER_MAX /\ serial' \in Nat
      BY <2>0, <2>1, MaxAssumption
    <3> QED BY Zenon, <3>1, EncodedNext
  <2>6. \A p \in by_pid : p \in Nat /\ p < Encoded(number', serial')
    <3> SUFFICES ASSUME NEW p \in by_pid PROVE p \in Nat /\ p < Encoded(number', serial')
      BY Zenon
    <3>1. p \in Nat /\ p < new
      BY Zenon DEF PidInv, PidTypeOK, Below
    <3> QED BY <3>1, <2>2, <2>4, <2>5
  <2>7. CASE RollsOver /\ serial + 1 > SERIAL_MAX
    <3>1. /\ serial' = serial + 1 /\ number' = 0
          /\ failed' = "no serial left" /\ by_pid' = by_pid /\ pid' = pid
      BY Zenon, <1>1, <2>7 DEF NextPid
    <3>2. Below'
      BY Zenon, <2>6, <3>1 DEF Below
    <3>3. serial' \in 0..(SERIAL_MAX + 1) /\ number' \in 0..(NUMBER_MAX + 1) /\ number' <= NUMBER_MAX
      <4>1. serial' = serial + 1 /\ number' = 0
        BY Zenon, <3>1
      <4> QED BY ONLY <2>1, <4>1, MaxAssumption
    <3>4. PidsFit' /\ pid' \in Nat /\ by_pid' \subseteq Nat
      BY Zenon, <3>1 DEF PidInv, PidsFit, PidTypeOK
    <3>5. PidTypeOK'
      BY Zenon, <3>1, <3>3, <3>4 DEF PidTypeOK
    <3> QED BY Zenon, <3>1, <3>2, <3>3, <3>4, <3>5 DEF PidInv
  <2>8. CASE ~(RollsOver /\ serial + 1 > SERIAL_MAX)
    <3>1. by_pid' = by_pid \cup {new} /\ pid' = new /\ failed' = "no"
      BY Zenon, <1>1, <2>3, <2>8 DEF NextPid, PutPid
    <3>2. number' \in 0..NUMBER_MAX /\ serial' \in 0..SERIAL_MAX
      BY <2>0, <2>1, <2>8, MaxAssumption
    <3>3. Below'
      BY Zenon, <2>2, <2>4, <2>6, <3>1 DEF Below
    <3>4. PidsFit' /\ PidTypeOK'
      <4>1. pid' \in Pid /\ pid' \in Nat /\ by_pid' \subseteq Pid /\ by_pid' \subseteq Nat
        BY Zenon, <2>2, <3>1 DEF PidInv, PidsFit, PidTypeOK
      <4>2. serial' \in 0..(SERIAL_MAX + 1) /\ number' \in 0..(NUMBER_MAX + 1)
        BY <3>2, MaxAssumption
      <4> QED BY Zenon, <3>1, <4>1, <4>2 DEF PidsFit, PidTypeOK
    <3>5. Unique!Take(new)
      BY Zenon, <2>3, <3>1 DEF Unique!Take
    <3>6. Unique!Next
      BY Zenon, <2>2, <3>5 DEF Unique!Next
    <3>7. number' <= NUMBER_MAX /\ serial' <= SERIAL_MAX
      BY <3>2, MaxAssumption
    <3> QED BY Zenon, <3>3, <3>4, <3>6, <3>7 DEF PidInv
  <2> QED BY Zenon, <2>7, <2>8
<1>2. CASE Exhausted \/ UNCHANGED pidVars
  BY Zenon, <1>2 DEF Exhausted, pidVars, PidInv, PidTypeOK, Below, PidsFit
<1> QED BY Zenon, <1>1, <1>2 DEF PidNext

(* The pids in use fit their bits and put_pid_to_process never panics. *)
THEOREM PidsAlwaysFit == MaxAssumption => (PidSpec => []PidsFit)
<1> SUFFICES ASSUME MaxAssumption PROVE PidSpec => []PidsFit
  BY Zenon
<1>1. PidInit => PidInv
  BY Zenon, PidInvInit
<1>2. PidInv /\ [PidNext]_pidVars => PidInv'
  BY Zenon, PidInvNext
<1>3. PidInv => PidsFit
  BY Zenon DEF PidInv
<1> QED BY <1>1, <1>2, <1>3, PTL DEF PidSpec

(* The counter implements a source of unique identifiers. *)
THEOREM CounterIsUnique == MaxAssumption => (PidSpec => PidsAreNotReused)
<1> SUFFICES ASSUME MaxAssumption PROVE PidSpec => PidsAreNotReused
  BY Zenon
<1>1. PidInit => PidInv /\ Unique!Init
  BY Zenon, PidInvInit DEF PidInit, PidInv, PidsFit, Unique!Init
<1>2. PidInv /\ [PidNext]_pidVars => PidInv' /\ [Unique!Next]_<<by_pid, pid>>
  BY Zenon, PidInvNext
<1> QED BY <1>1, <1>2, PTL DEF PidSpec, PidsAreNotReused, Unique!Spec
==============================================================================
