--------------------------- MODULE TimerHierarchy ---------------------------
(***************************************************************************)
(* The timer wheels of one scheduler: Hierarchy, Wheel and Slot of         *)
(* runtimes/core/src/timer.rs.                                             *)
(*                                                                         *)
(* A slot is a vector sorted by (monotonic, reference number), so it is    *)
(* modelled by the set of its timers.  A timer is its reference number.    *)
(* The hierarchy lives behind a lock: start and cancel take it for one     *)
(* step, while timeout holds it over a whole loop of one millisecond ticks *)
(* (each tick is a step, because the clock moves on and the timers that    *)
(* fire act on other processes during the loop).                           *)
(***************************************************************************)
EXTENDS Integers, FiniteSets

CONSTANTS
    SLOTS,          \* Wheel::SLOTS, slots per wheel
    MaxTimers,      \* bound: reference numbers handed out
    MaxTime,        \* bound: last value of the monotonic clock
    InitialTimes,   \* clock values at which the scheduler may be created
    Deadlines       \* deadlines that callers ask for

ASSUME SlotsAssumption == SLOTS \in Nat /\ SLOTS >= 2 /\ SLOTS % 2 = 0
                          /\ SLOTS <= 32768   \* index + slots fits an u16
ASSUME BoundsAssumption == MaxTimers \in Nat /\ MaxTime \in Nat
ASSUME TimesAssumption == InitialTimes \subseteq 0..MaxTime /\ Deadlines \subseteq Nat

Timer == 0..(MaxTimers - 1)
SlotIndices == 0..(SLOTS - 1)

SOON_TOTAL_MILLISECONDS == SLOTS
LATER_MILLISECONDS_PER_SLOT == SOON_TOTAL_MILLISECONDS \div 2
LATER_TOTAL_MILLISECONDS == LATER_MILLISECONDS_PER_SLOT * SLOTS

VARIABLES
    now,                    \* monotonic::time()
    next_reference,         \* the scheduler's next reference number
    monotonic,              \* Timer.monotonic, the deadline
    position,               \* Timer.position, where cancel looks for it
    registered,             \* keys of timer_by_reference_number
    at_once, long_term,     \* the two stand-alone slots
    soon, soon_index, soon_monotonic,       \* the soon wheel
    later, later_index, later_monotonic,    \* the later wheel
    ticks,                  \* iterations left of timeout's loop, or Idle
    reading,                \* history: the clock as timeout last read it
    panicked,               \* an assert! of timer.rs has failed
    fired,                  \* history: timers that have timed out
    cancelled               \* history: timers whose cancel returned Some

wheels == <<at_once, long_term, soon, soon_index, soon_monotonic,
            later, later_index, later_monotonic>>
timerVars == <<now, next_reference, monotonic, position, registered, wheels,
          ticks, reading, panicked, fired, cancelled>>

Idle == -1
AtOnce == [wheel |-> "at_once", slot |-> 0]
LongTerm == [wheel |-> "long_term", slot |-> 0]
Soon(i) == [wheel |-> "soon", slot |-> i]
Later(i) == [wheel |-> "later", slot |-> i]

Position == {AtOnce, LongTerm} \cup {Soon(i) : i \in SlotIndices} \cup {Later(i) : i \in SlotIndices}

(* Wheel::slot_index: the number of slots is truncated to an u16 *)
SlotsAway(m, start, perSlot) == ((m - start) \div perSlot) % 65536
SlotIndex(index, away) == (index + away) % SLOTS

(* Monotonic::round_down *)
RoundDown(m, divisor) == (m \div divisor) * divisor

TimerInit ==
    /\ now \in InitialTimes
    /\ next_reference = 0
    /\ monotonic = [t \in Timer |-> 0]
    /\ position = [t \in Timer |-> AtOnce]
    /\ registered = {}
    /\ at_once = {} /\ long_term = {}
    /\ soon = [i \in SlotIndices |-> {}]
    /\ later = [i \in SlotIndices |-> {}]
    /\ soon_index = now % SOON_TOTAL_MILLISECONDS
    /\ soon_monotonic = RoundDown(now, SOON_TOTAL_MILLISECONDS)
    /\ LET later_start == soon_monotonic + SOON_TOTAL_MILLISECONDS IN
        /\ later_index = (later_start % LATER_TOTAL_MILLISECONDS)
                            \div LATER_MILLISECONDS_PER_SLOT
        /\ later_monotonic = RoundDown(later_start, LATER_MILLISECONDS_PER_SLOT)
    /\ ticks = Idle /\ reading = soon_monotonic
    /\ panicked = FALSE
    /\ fired = {} /\ cancelled = {}

-----------------------------------------------------------------------------
(* The monotonic clock of the machine *)
ClockTick ==
    /\ now < MaxTime
    /\ now' = now + 1
    /\ UNCHANGED <<next_reference, monotonic, position, registered, wheels,
                   ticks, reading, panicked, fired, cancelled>>

(* Hierarchy::position, with the slot_index assertion it runs into *)
PositionOf(m) ==
    IF m < soon_monotonic THEN AtOnce
    ELSE IF m < later_monotonic
         THEN Soon(SlotIndex(soon_index, SlotsAway(m, soon_monotonic, 1)))
    ELSE IF m < later_monotonic + LATER_TOTAL_MILLISECONDS
         THEN Later(SlotIndex(later_index,
                    SlotsAway(m, later_monotonic, LATER_MILLISECONDS_PER_SLOT)))
    ELSE LongTerm

PositionPanics(m) ==
    \/ /\ soon_monotonic <= m /\ m < later_monotonic
       /\ SlotsAway(m, soon_monotonic, 1) >= SLOTS
    \/ /\ later_monotonic <= m /\ m < later_monotonic + LATER_TOTAL_MILLISECONDS
       /\ SlotsAway(m, later_monotonic, LATER_MILLISECONDS_PER_SLOT) >= SLOTS

(* Slot::start in the slot that `p` names *)
InsertAt(p, t) ==
    /\ at_once' = IF p.wheel = "at_once" THEN at_once \cup {t} ELSE at_once
    /\ long_term' = IF p.wheel = "long_term" THEN long_term \cup {t} ELSE long_term
    /\ soon' = IF p.wheel = "soon" THEN [soon EXCEPT ![p.slot] = @ \cup {t}] ELSE soon
    /\ later' = IF p.wheel = "later" THEN [later EXCEPT ![p.slot] = @ \cup {t}] ELSE later

(* timer::start: the new timer goes to the slot of its position *)
Start(m) ==
    /\ ticks = Idle /\ ~panicked
    /\ next_reference < MaxTimers
    /\ LET t == next_reference IN
        /\ next_reference' = t + 1
        /\ monotonic' = [monotonic EXCEPT ![t] = m]
        /\ position' = [position EXCEPT ![t] = PositionOf(m)]
        /\ registered' = registered \cup {t}
        /\ InsertAt(PositionOf(m), t)
    /\ panicked' = PositionPanics(m)
    /\ UNCHANGED <<now, soon_index, soon_monotonic, later_index, later_monotonic,
                   ticks, reading, fired, cancelled>>

(* Slot::cancel in the slot that `p` names: a timer that is not there is not
   an error *)
RemoveNowhere(p, t) == UNCHANGED <<at_once, long_term, soon, later>>
RemoveAt(p, t) ==
    /\ at_once' = IF p.wheel = "at_once" THEN at_once \ {t} ELSE at_once
    /\ long_term' = IF p.wheel = "long_term" THEN long_term \ {t} ELSE long_term
    /\ soon' = IF p.wheel = "soon" THEN [soon EXCEPT ![p.slot] = @ \ {t}] ELSE soon
    /\ later' = IF p.wheel = "later" THEN [later EXCEPT ![p.slot] = @ \ {t}] ELSE later

Cancel(t) ==
    /\ ticks = Idle /\ ~panicked
    /\ t \in registered
    /\ registered' = registered \ {t}
    /\ RemoveAt(position[t], t)
    /\ cancelled' = cancelled \cup {t}
    /\ UNCHANGED <<now, next_reference, monotonic, position, soon_index, soon_monotonic,
                   later_index, later_monotonic, ticks, reading, panicked, fired>>

(* The milliseconds that the soon wheel is behind the clock *)
TicksDueOneOver == now - soon_monotonic + 1
TicksDueOneShort == now - soon_monotonic - 1
TicksDue == now - soon_monotonic

(* Hierarchy::timeout up to its loop: the at-once timers fire, then the clock
   is read once *)
TimeoutBegin ==
    /\ ticks = Idle /\ ~panicked
    /\ at_once' = {}
    /\ registered' = registered \ at_once
    /\ fired' = fired \cup at_once
    /\ reading' = now
    /\ ticks' = TicksDue
    /\ UNCHANGED <<now, next_reference, monotonic, position, long_term, soon, soon_index,
                   soon_monotonic, later, later_index, later_monotonic, panicked, cancelled>>

(* One iteration of the loop, from its three wheel moves *)
SoonMaxMonotonicExclusive == soon_monotonic + 1 + SOON_TOTAL_MILLISECONDS
SoonMaxMonotonic == soon_monotonic + 1 + SOON_TOTAL_MILLISECONDS - 1
LaterNextSlotMonotonic == later_monotonic + LATER_MILLISECONDS_PER_SLOT
LaterMaxMonotonic == LaterNextSlotMonotonic + LATER_TOTAL_MILLISECONDS - 1

DrainBeforeOrAt(slot, max) == {t \in slot : monotonic[t] <= max}

LaterToSoon ==
    IF later_monotonic <= SoonMaxMonotonic
    THEN DrainBeforeOrAt(later[later_index], SoonMaxMonotonic) ELSE {}

LaterAdvances ==
    later_monotonic <= SoonMaxMonotonic /\ LaterNextSlotMonotonic <= SoonMaxMonotonic

LongTermForgotten == {}
LongTermToLater ==
    IF LaterAdvances THEN DrainBeforeOrAt(long_term, LaterMaxMonotonic) ELSE {}

NextSlot(index) == (index + 1) % SLOTS

SoonSlotsAway(t) == SlotsAway(monotonic[t], soon_monotonic + 1, 1)
LaterSlotsAway(t) == SlotsAway(monotonic[t], LaterNextSlotMonotonic, LATER_MILLISECONDS_PER_SLOT)
SoonSlotBeforeTheMove(t) ==
    SlotIndex(NextSlot(soon_index), SlotsAway(monotonic[t], soon_monotonic, 1))
SoonSlotOf(t) == SlotIndex(NextSlot(soon_index), SoonSlotsAway(t))
LaterSlotOf(t) == SlotIndex(NextSlot(later_index), LaterSlotsAway(t))

(* transfer rewrites the position of each timer that it moves *)
PositionNotRewritten(t) == position[t]
PositionAfterTick(t) ==
    IF t \in LaterToSoon THEN Soon(SoonSlotOf(t))
    ELSE IF t \in LongTermToLater THEN Later(LaterSlotOf(t))
    ELSE position[t]

Tick ==
    /\ ticks > 0 /\ ~panicked
    /\ fired' = fired \cup soon[soon_index]
    /\ registered' = registered \ soon[soon_index]
    /\ soon_index' = NextSlot(soon_index)
    /\ soon_monotonic' = soon_monotonic + 1
    /\ soon' = [i \in SlotIndices |->
                    (IF i = soon_index THEN {} ELSE soon[i])
                        \cup {t \in LaterToSoon : SoonSlotOf(t) = i}]
    /\ later' = [i \in SlotIndices |->
                    (IF i = later_index THEN later[i] \ LaterToSoon ELSE later[i])
                        \cup {t \in LongTermToLater : LaterSlotOf(t) = i}]
    /\ long_term' = long_term \ LongTermToLater
    /\ IF LaterAdvances
       THEN /\ later_index' = NextSlot(later_index)
            /\ later_monotonic' = LaterNextSlotMonotonic
       ELSE UNCHANGED <<later_index, later_monotonic>>
    /\ position' = [t \in Timer |-> PositionAfterTick(t)]
    /\ panicked' = \/ \E t \in LaterToSoon : SoonSlotsAway(t) >= SLOTS
                   \/ LaterAdvances /\ later[later_index] \ LaterToSoon # {}
                   \/ \E t \in LongTermToLater : LaterSlotsAway(t) >= SLOTS
    /\ ticks' = ticks - 1
    /\ UNCHANGED <<now, next_reference, monotonic, at_once, reading, cancelled>>

(* The loop ends and the lock is released *)
TimeoutEnd ==
    /\ ticks = 0
    /\ ticks' = Idle
    /\ UNCHANGED <<now, next_reference, monotonic, position, registered, wheels,
                   reading, panicked, fired, cancelled>>

TimerNext ==
    \/ ClockTick
    \/ \E m \in Deadlines : Start(m)
    \/ \E t \in Timer : Cancel(t)
    \/ TimeoutBegin
    \/ Tick
    \/ TimeoutEnd

TimerSpec == TimerInit /\ [][TimerNext]_timerVars

(* run_once calls timeout on every turn of a scheduler's loop, and time passes *)
FairTimerSpec == TimerSpec /\ WF_timerVars(ClockTick) /\ WF_timerVars(TimeoutBegin) /\ WF_timerVars(Tick)
                 /\ WF_timerVars(TimeoutEnd)

-----------------------------------------------------------------------------
Started == {t \in Timer : t < next_reference}
Pending == Started \ (fired \cup cancelled)

TimerTypeOK ==
    /\ now \in Nat /\ next_reference \in 0..MaxTimers
    /\ monotonic \in [Timer -> Nat]
    /\ position \in [Timer -> Position]
    /\ registered \subseteq Timer /\ fired \subseteq Timer /\ cancelled \subseteq Timer
    /\ at_once \subseteq Timer /\ long_term \subseteq Timer
    /\ soon \in [SlotIndices -> SUBSET Timer] /\ later \in [SlotIndices -> SUBSET Timer]
    /\ soon_index \in SlotIndices /\ later_index \in SlotIndices
    /\ soon_monotonic \in Nat /\ later_monotonic \in Nat
    /\ ticks \in Nat \cup {Idle} /\ reading \in Nat
    /\ panicked \in BOOLEAN

(* No assert! in position, slot_index, timeout or transfer ever fails: a
   transferred timer is always within the wheel it moves to, and the later
   slot is empty when the later wheel moves past it. *)
NoAssertionFails == ~panicked

(* cancel looks only in the slot that Timer.position names, and ignores not
   finding the timer there: so every timer that is still in a wheel must be
   in exactly that slot, across every transfer between wheels. *)
PositionIsExact ==
    /\ registered = Pending
    /\ \A t \in Timer :
        /\ t \in at_once <=> t \in registered /\ position[t] = AtOnce
        /\ t \in long_term <=> t \in registered /\ position[t] = LongTerm
        /\ \A i \in SlotIndices :
            /\ t \in soon[i] <=> t \in registered /\ position[t] = Soon(i)
            /\ t \in later[i] <=> t \in registered /\ position[t] = Later(i)

(* A timer whose cancellation was reported to its owner never fires. *)
CancelledNeverFires == fired \cap cancelled = {}

(* A timer never fires before its deadline has passed. *)
NeverEarly == \A t \in fired : monotonic[t] < now

(* Timers fire in deadline order: when some fire, none with an earlier
   deadline is left behind in any slot. *)
FiresInDeadlineOrder ==
    [][\A t \in fired' \ fired : \A u \in Pending' : monotonic[t] <= monotonic[u]]_timerVars

(* When timeout returns, every timer whose deadline lies before the clock
   reading of that call has fired, in whichever wheel it was. *)
NothingOverdue ==
    [][ticks = 0 /\ ticks' = Idle => \A t \in Pending : reading <= monotonic[t]]_timerVars

(* A timer eventually fires or is cancelled, from whatever wheel it starts
   in, once the clock can pass its deadline. *)
EventuallyTimesOut ==
    \A t \in Timer : t \in Pending /\ monotonic[t] < MaxTime ~> t \notin Pending
=============================================================================
