--------------------------- MODULE SchedulingProofs ---------------------------
(* The safety properties of Scheduling, for any set of processes, priorities     *)
(* and delay, by one inductive invariant; and, of Registry, which adds the names *)
(* of the processes to it, that the table of names and the names that the        *)
(* processes keep of themselves agree, for any processes and names.              *)
EXTENDS Registry, TLAPS

-----------------------------------------------------------------------------
(* What the operations on the run queues do to the places of the processes,    *)
(* for any number of processes and any delay.                                  *)

(* Sequences: Append adds one element at the end, Tail drops the first *)
LEMMA AppendFacts ==
    ASSUME NEW S, NEW s \in Seq(S), NEW e \in S
    PROVE  /\ Append(s, e) \in Seq(S)
           /\ Len(Append(s, e)) = Len(s) + 1
           /\ \A i \in 1..Len(s) : Append(s, e)[i] = s[i]
           /\ Append(s, e)[Len(s) + 1] = e
           /\ Len(s) \in Nat
  OBVIOUS

LEMMA TailFacts ==
    ASSUME NEW S, NEW s \in Seq(S), s # << >>
    PROVE  /\ s[1] \in S
           /\ Tail(s) \in Seq(S)
           /\ Len(s) \in Nat /\ Len(s) >= 1
           /\ Len(Tail(s)) = Len(s) - 1
           /\ \A i \in 1..(Len(s) - 1) : Tail(s)[i] = s[i + 1]
  OBVIOUS

(* Which processes a queue holds after Append, and after Tail *)
Holds(s, p) == \E i \in 1..Len(s) : s[i] = p
Once(s) == \A i, j \in 1..Len(s) : s[i] = s[j] => i = j

LEMMA AppendHolds ==
    ASSUME NEW s \in Seq(Process), NEW e \in Process, NEW p \in Process
    PROVE  Holds(Append(s, e), p) <=> Holds(s, p) \/ p = e
  <1>1. ASSUME Holds(s, p) PROVE Holds(Append(s, e), p)
    BY <1>1, AppendFacts DEF Holds
  <1>2. Holds(Append(s, e), e)
    <2>1. Len(s) + 1 \in 1..Len(Append(s, e)) BY AppendFacts
    <2> QED BY <2>1, AppendFacts DEF Holds
  <1>3. ASSUME Holds(Append(s, e), p), p # e PROVE Holds(s, p)
    <2>1. PICK i \in 1..Len(Append(s, e)) : Append(s, e)[i] = p BY <1>3 DEF Holds
    <2>2. i \in 1..Len(s) BY <2>1, <1>3, AppendFacts
    <2> QED BY <2>1, <2>2, AppendFacts DEF Holds
  <1> QED BY <1>1, <1>2, <1>3

LEMMA AppendOnce ==
    ASSUME NEW s \in Seq(Process), NEW e \in Process, Once(s), ~Holds(s, e)
    PROVE  Once(Append(s, e))
  <1> SUFFICES ASSUME NEW i \in 1..Len(Append(s, e)), NEW j \in 1..Len(Append(s, e)),
                      Append(s, e)[i] = Append(s, e)[j]
               PROVE  i = j
    BY DEF Once
  <1>1. i \in 1..Len(s) \/ i = Len(s) + 1 BY AppendFacts
  <1>2. j \in 1..Len(s) \/ j = Len(s) + 1 BY AppendFacts
  <1> QED BY <1>1, <1>2, AppendFacts DEF Once, Holds

LEMMA TailHolds ==
    ASSUME NEW s \in Seq(Process), s # << >>, Once(s), NEW p \in Process
    PROVE  Holds(Tail(s), p) <=> Holds(s, p) /\ p # s[1]
  <1>1. ASSUME Holds(Tail(s), p) PROVE Holds(s, p) /\ p # s[1]
    <2>1. PICK i \in 1..Len(Tail(s)) : Tail(s)[i] = p BY <1>1 DEF Holds
    <2>2. i + 1 \in 1..Len(s) /\ i \in 1..(Len(s) - 1) /\ 1 \in 1..Len(s) BY TailFacts
    <2>3. s[i + 1] = p BY <2>1, <2>2, TailFacts
    <2>4. s[1] # p BY <2>2, <2>3 DEF Once
    <2> QED BY <2>2, <2>3, <2>4 DEF Holds
  <1>2. ASSUME Holds(s, p), p # s[1] PROVE Holds(Tail(s), p)
    <2>1. PICK i \in 1..Len(s) : s[i] = p BY <1>2 DEF Holds
    <2>2. i - 1 \in 1..(Len(s) - 1) BY <2>1, <1>2, TailFacts
    <2>3. Tail(s)[i - 1] = s[i] BY <2>1, <2>2, TailFacts
    <2> QED BY <2>1, <2>2, <2>3, TailFacts DEF Holds
  <1> QED BY <1>1, <1>2

LEMMA TailOnce ==
    ASSUME NEW s \in Seq(Process), s # << >>, Once(s)
    PROVE  Once(Tail(s))
  <1> SUFFICES ASSUME NEW i \in 1..Len(Tail(s)), NEW j \in 1..Len(Tail(s)),
                      Tail(s)[i] = Tail(s)[j]
               PROVE  i = j
    BY DEF Once
  <1>1. i + 1 \in 1..Len(s) /\ j + 1 \in 1..Len(s) BY TailFacts
  <1>2. s[i + 1] = s[j + 1] BY TailFacts
  <1>3. i + 1 = j + 1 BY <1>1, <1>2 DEF Once
  <1> QED BY <1>3, TailFacts

-----------------------------------------------------------------------------
(* The queue of the priorities normal and low, without its delays *)
Processes(s) == [i \in 1..Len(s) |-> s[i].process]

LEMMA ProcessesFacts ==
    ASSUME NEW s \in Seq(DelayedProcess)
    PROVE  /\ Processes(s) \in Seq(Process)
           /\ Len(Processes(s)) = Len(s)
           /\ \A i \in 1..Len(s) : Processes(s)[i] = s[i].process
           /\ s # << >> => Processes(s) # << >>
  <1>1. Len(s) \in Nat /\ \A i \in 1..Len(s) : s[i] \in DelayedProcess OBVIOUS
  <1>2. \A i \in 1..Len(s) : s[i].process \in Process BY <1>1 DEF DelayedProcess
  <1>3. Processes(s) \in [1..Len(s) -> Process] BY <1>2 DEF Processes
  <1>4. Processes(s) \in Seq(Process) /\ Len(Processes(s)) = Len(s) BY <1>1, <1>3
  <1>5. s # << >> => Len(s) # 0 OBVIOUS
  <1> QED BY <1>4, <1>5 DEF Processes

LEMMA ProcessesAppend ==
    ASSUME NEW s \in Seq(DelayedProcess), NEW e \in DelayedProcess
    PROVE  Processes(Append(s, e)) = Append(Processes(s), e.process)
  <1>1. e.process \in Process BY DEF DelayedProcess
  <1>2. /\ Append(s, e) \in Seq(DelayedProcess) /\ Len(Append(s, e)) = Len(s) + 1
        /\ \A i \in 1..Len(s) : Append(s, e)[i] = s[i]
        /\ Append(s, e)[Len(s) + 1] = e /\ Len(s) \in Nat
    BY AppendFacts
  <1>3. Append(Processes(s), e.process) \in Seq(Process)
            /\ Len(Append(Processes(s), e.process)) = Len(s) + 1
    BY <1>1, ProcessesFacts, AppendFacts
  <1>4. Processes(Append(s, e)) \in Seq(Process) /\ Len(Processes(Append(s, e))) = Len(s) + 1
    BY Zenon, <1>2, ProcessesFacts
  <1>5. ASSUME NEW i \in 1..(Len(s) + 1)
        PROVE  Processes(Append(s, e))[i] = Append(Processes(s), e.process)[i]
    <2>1. Processes(Append(s, e))[i] = Append(s, e)[i].process BY Zenon, <1>2, ProcessesFacts
    <2>2. CASE i \in 1..Len(s)
      BY <2>1, <2>2, <1>1, <1>2, ProcessesFacts, AppendFacts
    <2>3. CASE i = Len(s) + 1
      BY <2>1, <2>3, <1>1, <1>2, ProcessesFacts, AppendFacts
    <2>4. i \in 1..Len(s) \/ i = Len(s) + 1 BY <1>2
    <2> QED BY Zenon, <2>2, <2>3, <2>4
  <1> QED BY <1>2, <1>3, <1>4, <1>5

LEMMA ProcessesTail ==
    ASSUME NEW s \in Seq(DelayedProcess), s # << >>
    PROVE  Processes(Tail(s)) = Tail(Processes(s)) /\ Processes(s)[1] = s[1].process
  <1>1. /\ Tail(s) \in Seq(DelayedProcess) /\ Len(Tail(s)) = Len(s) - 1
        /\ \A i \in 1..(Len(s) - 1) : Tail(s)[i] = s[i + 1]
        /\ Len(s) \in Nat /\ Len(s) >= 1
    BY TailFacts
  <1>2. Processes(s) \in Seq(Process) /\ Processes(s) # << >> /\ Len(Processes(s)) = Len(s)
            /\ \A i \in 1..Len(s) : Processes(s)[i] = s[i].process
    BY ProcessesFacts
  <1>3. Tail(Processes(s)) \in Seq(Process) /\ Len(Tail(Processes(s))) = Len(s) - 1
            /\ \A i \in 1..(Len(s) - 1) : Tail(Processes(s))[i] = Processes(s)[i + 1]
    BY <1>2, TailFacts
  <1>4. Processes(Tail(s)) \in Seq(Process) /\ Len(Processes(Tail(s))) = Len(s) - 1
            /\ \A i \in 1..(Len(s) - 1) : Processes(Tail(s))[i] = Tail(s)[i].process
    BY Zenon, <1>1, ProcessesFacts
  <1>5. ASSUME NEW i \in 1..(Len(s) - 1)
        PROVE  Processes(Tail(s))[i] = Tail(Processes(s))[i]
    <2>1. i + 1 \in 1..Len(s) BY <1>1
    <2> QED BY <2>1, <1>1, <1>2, <1>3, <1>4
  <1> QED BY <1>1, <1>2, <1>3, <1>4, <1>5

(* In terms of these, where a process is *)
LEMMA Places ==
    ASSUME NEW q \in Queues
    PROVE  /\ \A p \in Process : /\ InDelayed(p, q) <=> Holds(Processes(q.normal_low), p)
                                 /\ InHigh(p, q) <=> Holds(q.high, p)
                                 /\ InMax(p, q) <=> Holds(q.max, p)
           /\ NoDuplicates(q) <=>
                /\ Once(Processes(q.normal_low)) /\ Once(q.high) /\ Once(q.max)
                /\ \A p \in Process : /\ ~(InDelayed(p, q) /\ InHigh(p, q))
                                      /\ ~(InDelayed(p, q) /\ InMax(p, q))
                                      /\ ~(InHigh(p, q) /\ InMax(p, q))
  <1>1. q.normal_low \in Seq(DelayedProcess) BY DEF Queues
  <1>2. Len(Processes(q.normal_low)) = Len(q.normal_low)
            /\ \A i \in 1..Len(q.normal_low) :
                    Processes(q.normal_low)[i] = q.normal_low[i].process
    BY <1>1, ProcessesFacts
  <1>3. \A p \in Process : InDelayed(p, q) <=> Holds(Processes(q.normal_low), p)
    BY <1>2 DEF InDelayed, Holds
  <1>4. Once(Processes(q.normal_low)) <=>
            \A i, j \in 1..Len(q.normal_low) :
                q.normal_low[i].process = q.normal_low[j].process => i = j
    BY <1>2 DEF Once
  <1> QED BY <1>3, <1>4 DEF InHigh, InMax, Holds, NoDuplicates, Once

-----------------------------------------------------------------------------
(* Queues::enqueue puts the process into a run queue, and moves no other *)
LEMMA EnqueueFacts ==
    ASSUME NEW q \in Queues, NEW p \in Process, NEW prio \in Priority
    PROVE  /\ enqueue(q, p, prio) \in Queues
           /\ enqueue(q, p, prio).waiting = q.waiting
           /\ \A x \in Process : InRunQueue(x, enqueue(q, p, prio)) <=> InRunQueue(x, q) \/ x = p
           /\ NoDuplicates(q) /\ ~InRunQueue(p, q) => NoDuplicates(enqueue(q, p, prio))
  <1> DEFINE d == [process |-> p, delay |-> priority_to_delay(prio)]
             r == enqueue(q, p, prio)
  <1>1. d \in DelayedProcess BY LowDelayAssumption DEF DelayedProcess, priority_to_delay
  <1>2. /\ q.waiting \subseteq Process /\ q.normal_low \in Seq(DelayedProcess)
        /\ q.high \in Seq(Process) /\ q.max \in Seq(Process)
    BY DEF Queues
  <1>3. CASE prio = "max"
    <2>1. r = [q EXCEPT !.max = Append(q.max, p)] BY <1>3 DEF enqueue
    <2>2. /\ r \in Queues /\ r.waiting = q.waiting /\ r.normal_low = q.normal_low
          /\ r.high = q.high /\ r.max = Append(q.max, p)
      <3>1. Append(q.max, p) \in Seq(Process) BY <1>2
      <3> QED BY Zenon, <3>1, <2>1 DEF Queues
    <2>3. \A x \in Process : /\ InDelayed(x, r) <=> InDelayed(x, q)
                             /\ InHigh(x, r) <=> InHigh(x, q)
      BY <2>2 DEF InDelayed, InHigh
    <2>4. \A x \in Process : InMax(x, r) <=> InMax(x, q) \/ x = p
      <3>1. \A x \in Process : InMax(x, r) <=> Holds(r.max, x) BY Zenon, <2>2, Places
      <3>2. \A x \in Process : InMax(x, q) <=> Holds(q.max, x) BY Places
      <3>3. \A x \in Process : Holds(Append(q.max, p), x) <=> Holds(q.max, x) \/ x = p
        BY <1>2, AppendHolds
      <3> QED BY <3>1, <3>2, <3>3, <2>2
    <2>5. ASSUME NoDuplicates(q), ~InRunQueue(p, q) PROVE NoDuplicates(r)
      <3>1. Once(q.max) /\ ~Holds(q.max, p) BY <2>5, Places DEF InRunQueue
      <3>2. Once(r.max) BY <3>1, <2>2, <1>2, AppendOnce
      <3> QED BY Zenon, <3>2, <2>2, <2>3, <2>4, <2>5, Places DEF InRunQueue
    <2> QED BY <2>2, <2>3, <2>4, <2>5 DEF InRunQueue
  <1>4. CASE prio = "high"
    <2>1. r = [q EXCEPT !.high = Append(q.high, p)] BY <1>4 DEF enqueue
    <2>2. /\ r \in Queues /\ r.waiting = q.waiting /\ r.normal_low = q.normal_low
          /\ r.max = q.max /\ r.high = Append(q.high, p)
      <3>1. Append(q.high, p) \in Seq(Process) BY <1>2
      <3> QED BY Zenon, <3>1, <2>1 DEF Queues
    <2>3. \A x \in Process : /\ InDelayed(x, r) <=> InDelayed(x, q)
                             /\ InMax(x, r) <=> InMax(x, q)
      BY <2>2 DEF InDelayed, InMax
    <2>4. \A x \in Process : InHigh(x, r) <=> InHigh(x, q) \/ x = p
      <3>1. \A x \in Process : InHigh(x, r) <=> Holds(r.high, x) BY Zenon, <2>2, Places
      <3>2. \A x \in Process : InHigh(x, q) <=> Holds(q.high, x) BY Places
      <3>3. \A x \in Process : Holds(Append(q.high, p), x) <=> Holds(q.high, x) \/ x = p
        BY <1>2, AppendHolds
      <3> QED BY <3>1, <3>2, <3>3, <2>2
    <2>5. ASSUME NoDuplicates(q), ~InRunQueue(p, q) PROVE NoDuplicates(r)
      <3>1. Once(q.high) /\ ~Holds(q.high, p) BY <2>5, Places DEF InRunQueue
      <3>2. Once(r.high) BY <3>1, <2>2, <1>2, AppendOnce
      <3> QED BY Zenon, <3>2, <2>2, <2>3, <2>4, <2>5, Places DEF InRunQueue
    <2> QED BY <2>2, <2>3, <2>4, <2>5 DEF InRunQueue
  <1>5. CASE prio \notin {"max", "high"}
    <2>1. r = [q EXCEPT !.normal_low = Append(q.normal_low, d)] BY <1>5 DEF enqueue
    <2>2. /\ r \in Queues /\ r.waiting = q.waiting /\ r.high = q.high
          /\ r.max = q.max /\ r.normal_low = Append(q.normal_low, d)
      <3>1. Append(q.normal_low, d) \in Seq(DelayedProcess) BY <1>1, <1>2
      <3> QED BY Zenon, <3>1, <2>1 DEF Queues
    <2>3. \A x \in Process : /\ InHigh(x, r) <=> InHigh(x, q)
                             /\ InMax(x, r) <=> InMax(x, q)
      BY <2>2 DEF InHigh, InMax
    <2>4. Processes(r.normal_low) = Append(Processes(q.normal_low), p)
            /\ Processes(q.normal_low) \in Seq(Process)
      BY <2>2, <1>1, <1>2, ProcessesAppend, ProcessesFacts
    <2>5. \A x \in Process : InDelayed(x, r) <=> InDelayed(x, q) \/ x = p
      <3>1. \A x \in Process : InDelayed(x, r) <=> Holds(Processes(r.normal_low), x)
        BY Zenon, <2>2, Places
      <3>2. \A x \in Process : InDelayed(x, q) <=> Holds(Processes(q.normal_low), x) BY Places
      <3>3. \A x \in Process : Holds(Append(Processes(q.normal_low), p), x)
                                <=> Holds(Processes(q.normal_low), x) \/ x = p
        BY <2>4, AppendHolds
      <3> QED BY <3>1, <3>2, <3>3, <2>4
    <2>6. ASSUME NoDuplicates(q), ~InRunQueue(p, q) PROVE NoDuplicates(r)
      <3>1. Once(Processes(q.normal_low)) /\ ~Holds(Processes(q.normal_low), p)
        BY <2>6, Places DEF InRunQueue
      <3>2. Once(Processes(r.normal_low)) BY <3>1, <2>4, AppendOnce
      <3> QED BY Zenon, <3>2, <2>2, <2>3, <2>5, <2>6, Places DEF InRunQueue
    <2> QED BY <2>2, <2>3, <2>5, <2>6 DEF InRunQueue
  <1> QED BY <1>3, <1>4, <1>5

(* Queues::stop_waiting moves a process that waits into a run queue *)
LEMMA StopWaitingFacts ==
    ASSUME NEW q \in Queues, NEW p \in Process, NEW prio \in Priority
    PROVE  LET r == stop_waiting(q, p, prio) IN
           /\ r \in Queues
           /\ r.waiting = q.waiting \ {p}
           /\ \A x \in Process :
                InRunQueue(x, r) <=> InRunQueue(x, q) \/ (x = p /\ p \in q.waiting)
           /\ NoDuplicates(q) /\ ~(InRunQueue(p, q) /\ p \in q.waiting) => NoDuplicates(r)
  <1> DEFINE u == [q EXCEPT !.waiting = q.waiting \ {p}]
  <1>1. CASE p \notin q.waiting
    <2>1. stop_waiting(q, p, prio) = q BY <1>1 DEF stop_waiting
    <2> QED BY <1>1, <2>1
  <1>2. CASE p \in q.waiting
    <2>1. stop_waiting(q, p, prio) = enqueue(u, p, prio) BY <1>2 DEF stop_waiting
    <2>2. /\ u \in Queues /\ u.waiting = q.waiting \ {p}
          /\ u.normal_low = q.normal_low /\ u.high = q.high /\ u.max = q.max
      BY DEF Queues
    <2> HIDE DEF u
    <2>3. /\ \A x \in Process : InRunQueue(x, u) <=> InRunQueue(x, q)
          /\ NoDuplicates(u) <=> NoDuplicates(q)
      BY <2>2 DEF InRunQueue, InDelayed, InHigh, InMax, NoDuplicates
    <2>4. /\ enqueue(u, p, prio) \in Queues
          /\ enqueue(u, p, prio).waiting = u.waiting
          /\ \A x \in Process : InRunQueue(x, enqueue(u, p, prio)) <=> InRunQueue(x, u) \/ x = p
          /\ NoDuplicates(u) /\ ~InRunQueue(p, u) => NoDuplicates(enqueue(u, p, prio))
      BY <2>2, EnqueueFacts
    <2> QED BY <1>2, <2>1, <2>2, <2>3, <2>4
  <1> QED BY <1>1, <1>2

(* Queues::dequeue takes the process that it answers out of its run queue, and
   moves no other *)
LEMMA DequeueNowFacts ==
    ASSUME NEW q \in Queues, NoDuplicates(q), Dequeued(q) = "Now"
    PROVE  LET r == AfterDequeue(q)
               p == DequeuedProcess(q) IN
           /\ r \in Queues /\ p \in Process /\ InRunQueue(p, q)
           /\ r.waiting = q.waiting
           /\ \A x \in Process : InRunQueue(x, r) <=> InRunQueue(x, q) /\ x # p
           /\ NoDuplicates(r)
  <1> DEFINE r == AfterDequeue(q)
             p == DequeuedProcess(q)
  <1>1. /\ q.waiting \subseteq Process /\ q.normal_low \in Seq(DelayedProcess)
        /\ q.high \in Seq(Process) /\ q.max \in Seq(Process)
    BY DEF Queues
  <1>2. /\ Once(Processes(q.normal_low)) /\ Once(q.high) /\ Once(q.max)
        /\ \A x \in Process : /\ ~(InDelayed(x, q) /\ InHigh(x, q))
                              /\ ~(InDelayed(x, q) /\ InMax(x, q))
                              /\ ~(InHigh(x, q) /\ InMax(x, q))
        /\ \A x \in Process : InHigh(x, q) <=> Holds(q.high, x)
        /\ \A x \in Process : InMax(x, q) <=> Holds(q.max, x)
        /\ \A x \in Process : InDelayed(x, q) <=> Holds(Processes(q.normal_low), x)
    BY Places
  <1>3. CASE q.max # << >>
    <2>1. p = q.max[1] /\ r = [q EXCEPT !.max = Tail(q.max)]
      BY <1>3 DEF DequeuedProcess, AfterDequeue
    <2>2. Tail(q.max) \in Seq(Process) /\ p \in Process /\ 1 \in 1..Len(q.max)
      BY <1>1, <1>3, <2>1, TailFacts
    <2>3. /\ r \in Queues /\ r.waiting = q.waiting /\ r.normal_low = q.normal_low
          /\ r.high = q.high /\ r.max = Tail(q.max)
      BY Zenon, <2>1, <2>2 DEF Queues
    <2>4. InMax(p, q) BY <2>1, <2>2 DEF InMax
    <2>5. \A x \in Process : /\ InDelayed(x, r) <=> InDelayed(x, q)
                             /\ InHigh(x, r) <=> InHigh(x, q)
      BY <2>3 DEF InDelayed, InHigh
    <2>6. \A x \in Process : InMax(x, r) <=> InMax(x, q) /\ x # p
      <3>1. \A x \in Process : InMax(x, r) <=> Holds(r.max, x) BY <2>3, Places
      <3>2. \A x \in Process : Holds(Tail(q.max), x) <=> Holds(q.max, x) /\ x # q.max[1]
        BY <1>1, <1>2, <1>3, TailHolds
      <3> QED BY <3>1, <3>2, <1>2, <2>1, <2>3
    <2>7. Once(r.max) BY <1>1, <1>2, <1>3, <2>3, TailOnce
    <2>8. NoDuplicates(r) BY <1>2, <2>3, <2>5, <2>6, <2>7, Places
    <2> QED BY <1>2, <2>2, <2>3, <2>4, <2>5, <2>6, <2>8 DEF InRunQueue
  <1>4. CASE q.max = << >> /\ q.high # << >>
    <2>1. p = q.high[1] /\ r = [q EXCEPT !.high = Tail(q.high)]
      BY <1>4 DEF DequeuedProcess, AfterDequeue
    <2>2. Tail(q.high) \in Seq(Process) /\ p \in Process /\ 1 \in 1..Len(q.high)
      BY <1>1, <1>4, <2>1, TailFacts
    <2>3. /\ r \in Queues /\ r.waiting = q.waiting /\ r.normal_low = q.normal_low
          /\ r.max = q.max /\ r.high = Tail(q.high)
      BY Zenon, <2>1, <2>2 DEF Queues
    <2>4. InHigh(p, q) BY <2>1, <2>2 DEF InHigh
    <2>5. \A x \in Process : /\ InDelayed(x, r) <=> InDelayed(x, q)
                             /\ InMax(x, r) <=> InMax(x, q)
      BY <2>3 DEF InDelayed, InMax
    <2>6. \A x \in Process : InHigh(x, r) <=> InHigh(x, q) /\ x # p
      <3>1. \A x \in Process : InHigh(x, r) <=> Holds(r.high, x) BY <2>3, Places
      <3>2. \A x \in Process : Holds(Tail(q.high), x) <=> Holds(q.high, x) /\ x # q.high[1]
        BY <1>1, <1>2, <1>4, TailHolds
      <3> QED BY <3>1, <3>2, <1>2, <2>1, <2>3
    <2>7. Once(r.high) BY <1>1, <1>2, <1>4, <2>3, TailOnce
    <2>8. NoDuplicates(r) BY <1>2, <2>3, <2>5, <2>6, <2>7, Places
    <2> QED BY <1>2, <2>2, <2>3, <2>4, <2>5, <2>6, <2>8 DEF InRunQueue
  <1>5. CASE q.max = << >> /\ q.high = << >>
    <2>1. q.normal_low # << >> /\ DelayedHead(q).delay = 0 BY <1>5 DEF Dequeued
    <2>2. p = q.normal_low[1].process /\ r = [q EXCEPT !.normal_low = Tail(q.normal_low)]
      BY <1>5, <2>1 DEF DequeuedProcess, AfterDequeue, DelayedHead
    <2>3. /\ Tail(q.normal_low) \in Seq(DelayedProcess)
          /\ q.normal_low[1] \in DelayedProcess /\ 1 \in 1..Len(q.normal_low)
      BY <1>1, <2>1, TailFacts
    <2>4. p \in Process BY <2>2, <2>3 DEF DelayedProcess
    <2>5. /\ r \in Queues /\ r.waiting = q.waiting /\ r.high = q.high
          /\ r.max = q.max /\ r.normal_low = Tail(q.normal_low)
      BY Zenon, <2>2, <2>3 DEF Queues
    <2>6. InDelayed(p, q) BY <2>2, <2>3 DEF InDelayed
    <2>7. \A x \in Process : /\ InHigh(x, r) <=> InHigh(x, q)
                             /\ InMax(x, r) <=> InMax(x, q)
      BY <2>5 DEF InHigh, InMax
    <2>8. /\ Processes(r.normal_low) = Tail(Processes(q.normal_low))
          /\ Processes(q.normal_low)[1] = p
          /\ Processes(q.normal_low) \in Seq(Process) /\ Processes(q.normal_low) # << >>
      BY <1>1, <2>1, <2>2, <2>5, ProcessesTail, ProcessesFacts
    <2>9. \A x \in Process : InDelayed(x, r) <=> InDelayed(x, q) /\ x # p
      <3>1. \A x \in Process : InDelayed(x, r) <=> Holds(Processes(r.normal_low), x)
        BY <2>5, Places
      <3>2. \A x \in Process : Holds(Tail(Processes(q.normal_low)), x)
                                <=> Holds(Processes(q.normal_low), x) /\ x # p
        BY <1>2, <2>8, TailHolds
      <3> QED BY <3>1, <3>2, <1>2, <2>8
    <2>10. Once(Processes(r.normal_low)) BY <1>2, <2>8, TailOnce
    <2>11. NoDuplicates(r) BY <1>2, <2>5, <2>7, <2>9, <2>10, Places
    <2> QED BY <1>2, <2>4, <2>5, <2>6, <2>7, <2>9, <2>11 DEF InRunQueue
  <1> QED BY <1>3, <1>4, <1>5

(* A process that is passed over goes to the back of the queue it is in *)
LEMMA DequeueDelayedFacts ==
    ASSUME NEW q \in Queues, NoDuplicates(q), Dequeued(q) = "Delayed"
    PROVE  LET r == AfterDequeue(q) IN
           /\ r \in Queues
           /\ r.waiting = q.waiting
           /\ \A x \in Process : InRunQueue(x, r) <=> InRunQueue(x, q)
           /\ NoDuplicates(r)
  <1> DEFINE r == AfterDequeue(q)
             t == Tail(q.normal_low)
             d == [q.normal_low[1] EXCEPT !.delay = @ - 1]
             p == q.normal_low[1].process
  <1>1. /\ q.waiting \subseteq Process /\ q.normal_low \in Seq(DelayedProcess)
        /\ q.high \in Seq(Process) /\ q.max \in Seq(Process)
    BY DEF Queues
  <1>2. q.max = << >> /\ q.high = << >> /\ q.normal_low # << >> /\ q.normal_low[1].delay # 0
    BY DEF Dequeued, DelayedHead
  <1>3. r = [q EXCEPT !.normal_low = Append(t, d)]
    BY <1>2 DEF AfterDequeue, DelayedHead
  <1>4. t \in Seq(DelayedProcess) /\ q.normal_low[1] \in DelayedProcess /\ 1 \in 1..Len(q.normal_low)
    BY <1>1, <1>2, TailFacts
  <1>5. d \in DelayedProcess /\ d.process = p /\ p \in Process
    BY <1>2, <1>4, LowDelayAssumption DEF DelayedProcess
  <1> HIDE DEF d, t
  <1>6. Append(t, d) \in Seq(DelayedProcess) BY <1>4, <1>5
  <1>7. /\ r \in Queues /\ r.waiting = q.waiting /\ r.high = q.high
        /\ r.max = q.max /\ r.normal_low = Append(t, d)
    BY Zenon, <1>3, <1>6 DEF Queues
  <1> HIDE DEF p, r
  <1>8. /\ Processes(q.normal_low) \in Seq(Process) /\ Processes(q.normal_low) # << >>
        /\ Processes(t) = Tail(Processes(q.normal_low)) /\ Processes(q.normal_low)[1] = p
        /\ Processes(t) \in Seq(Process)
    BY Zenon, <1>1, <1>2, <1>4, ProcessesTail, ProcessesFacts DEF t, p
  <1>9. Processes(r.normal_low) = Append(Processes(t), p)
    BY <1>4, <1>5, <1>7, ProcessesAppend
  <1>10. /\ Once(Processes(q.normal_low)) /\ Once(q.high) /\ Once(q.max)
         /\ \A x \in Process : /\ ~(InDelayed(x, q) /\ InHigh(x, q))
                               /\ ~(InDelayed(x, q) /\ InMax(x, q))
                               /\ ~(InHigh(x, q) /\ InMax(x, q))
         /\ \A x \in Process : InDelayed(x, q) <=> Holds(Processes(q.normal_low), x)
    BY Places
  <1>11. /\ \A x \in Process : Holds(Processes(t), x)
                                <=> Holds(Processes(q.normal_low), x) /\ x # p
         /\ Once(Processes(t))
    BY <1>8, <1>10, TailHolds, TailOnce
  <1>12. \A x \in Process : Holds(Append(Processes(t), p), x) <=> Holds(Processes(t), x) \/ x = p
    BY Zenon, <1>5, <1>8, AppendHolds
  <1>13. Once(Processes(r.normal_low))
    BY Zenon, <1>5, <1>8, <1>9, <1>11, AppendOnce
  <1>14. Holds(Processes(q.normal_low), p)
    <2>1. InDelayed(p, q) BY <1>4 DEF InDelayed, p
    <2> QED BY <2>1, <1>5, <1>10
  <1>15. \A x \in Process : InDelayed(x, r) <=> InDelayed(x, q)
    <2>1. \A x \in Process : InDelayed(x, r) <=> Holds(Processes(r.normal_low), x)
      BY Zenon, <1>7, Places
    <2> QED BY <2>1, <1>9, <1>10, <1>11, <1>12, <1>14
  <1>16. \A x \in Process : /\ InHigh(x, r) <=> InHigh(x, q)
                            /\ InMax(x, r) <=> InMax(x, q)
    BY <1>7 DEF InHigh, InMax
  <1>17. NoDuplicates(r) BY Zenon, <1>7, <1>10, <1>13, <1>15, <1>16, Places
  <1> QED BY <1>7, <1>15, <1>16, <1>17 DEF InRunQueue, r

-----------------------------------------------------------------------------
(* What run_once has in its hands at each point: the strengthening that makes
   the properties inductive *)
Control ==
    /\ at \in {"timeout", "dequeue", "stopped"} => current = NoProcess
    /\ at \in {"running", "requeue", "propagate"} => current \in Process
    /\ at = "requeue" => status[current] \in {"Runnable", "Waiting", "Exited", "RuntimeException"}
    /\ at = "propagate" => is_exiting(current)

IInv == TypeOK /\ InOnePlace /\ StatusMatchesPlace /\ NothingUnreachable /\ Control

LEMMA InitIInv == Init => IInv
  <1> SUFFICES ASSUME Init PROVE IInv OBVIOUS
  <1> USE ProcessAssumption
  <1>1. EmptyQueues \in Queues /\ EmptyQueues.waiting = {}
    BY DEF EmptyQueues, Queues
  <1>2. NoDuplicates(EmptyQueues) /\ \A p \in Process : ~InRunQueue(p, EmptyQueues)
    BY DEF NoDuplicates, InRunQueue, InDelayed, InHigh, InMax, EmptyQueues
  <1>3. "normal" \in Priority BY DEF Priority
  <1>4. /\ run_queues \in Queues /\ run_queues.waiting = {} /\ NoDuplicates(run_queues)
        /\ \A p \in Process : InRunQueue(p, run_queues) <=> p = InitProcess
    BY <1>1, <1>2, <1>3, EnqueueFacts DEF Init
  <1>5. TypeOK BY Zenon, <1>3, <1>4 DEF Init, TypeOK, Status, At
  <1>6. InOnePlace BY <1>4 DEF Init, InOnePlace, Queued, Upgrades
  <1>7. StatusMatchesPlace BY <1>4 DEF Init, StatusMatchesPlace
  <1> QED BY <1>5, <1>6, <1>7 DEF Init, IInv, NothingUnreachable, Control

(* Waking a process that run_once does not hold, which also is what telling it
   to exit does *)
LEMMA WakeKeepsIInv ==
    ASSUME IInv, NEW p \in Process, Upgrades(p), p # current,
           \/ StopWaiting(p)
           \/ ExitOther(p),
           UNCHANGED <<priority, current, at, panicked>>
    PROVE  IInv'
  <1> USE DEF IInv
  <1>1. /\ run_queues \in Queues /\ priority[p] \in Priority /\ NoDuplicates(run_queues)
        /\ run_queues' = stop_waiting(run_queues, p, priority[p])
        /\ ~(InRunQueue(p, run_queues) /\ p \in run_queues.waiting)
    BY DEF TypeOK, InOnePlace, StopWaiting, ExitOther
  <1>2. /\ run_queues' \in Queues
        /\ run_queues'.waiting = run_queues.waiting \ {p}
        /\ \A x \in Process : InRunQueue(x, run_queues') <=>
                InRunQueue(x, run_queues) \/ (x = p /\ p \in run_queues.waiting)
        /\ NoDuplicates(run_queues')
    BY <1>1, StopWaitingFacts
  <1>3. InRunQueue(p, run_queues) \/ p \in run_queues.waiting BY DEF Upgrades, Queued
  <1>4. \A x \in Process \ {p} : status'[x] = status[x]
    BY DEF TypeOK, StopWaiting, ExitOther
  <1>5. status'[p] \in {"Runnable", "RuntimeException"}
    <2>1. status[p] \in {"Runnable", "RuntimeException", "Waiting"}
      BY <1>3 DEF StatusMatchesPlace
    <2> QED BY <2>1 DEF TypeOK, StopWaiting, ExitOther
  <1>6. status' \in [Process -> Status]
    BY DEF TypeOK, StopWaiting, ExitOther, Status
  <1>7. TypeOK' BY <1>2, <1>6 DEF TypeOK
  <1>8. InOnePlace'
    <2> SUFFICES ASSUME NEW x \in Process
                 PROVE  /\ ~(InRunQueue(x, run_queues') /\ x \in run_queues'.waiting)
                        /\ x = current' => ~Queued(x)'
                        /\ status'[x] \in {"Runnable", "Running", "Waiting"} => Upgrades(x)'
                        /\ status'[x] = "Unrunnable" => ~Upgrades(x)'
      BY <1>2 DEF InOnePlace
    <2>1. CASE x = p BY <2>1, <1>2, <1>3, <1>5 DEF Queued, Upgrades
    <2>2. CASE x # p BY <2>2, <1>2, <1>4 DEF InOnePlace, Queued, Upgrades
    <2> QED BY <2>1, <2>2
  <1>9. StatusMatchesPlace'
    <2> SUFFICES ASSUME NEW x \in Process
                 PROVE  /\ InRunQueue(x, run_queues') => status'[x] \in {"Runnable", "RuntimeException"}
                        /\ x \in run_queues'.waiting <=> status'[x] = "Waiting" /\ x # current'
                        /\ status'[x] = "Running" <=> x = current' /\ at' = "running"
      BY DEF StatusMatchesPlace
    <2>1. CASE x = p BY <2>1, <1>2, <1>5
    <2>2. CASE x # p BY <2>2, <1>2, <1>4 DEF StatusMatchesPlace
    <2> QED BY <2>1, <2>2
  <1>10. NothingUnreachable' BY DEF NothingUnreachable
  <1>11. Control'
    <2>1. current \in Process => status'[current] = status[current] BY <1>4
    <2> QED BY <2>1 DEF Control, is_exiting
  <1> QED BY <1>7, <1>8, <1>9, <1>10, <1>11

(* A step that only moves run_once on between points where it holds no process *)
LEMMA IdleKeepsIInv ==
    ASSUME IInv, at \in {"timeout", "dequeue", "stopped"},
           at' \in {"timeout", "dequeue", "stopped"},
           UNCHANGED <<status, priority, run_queues, current, panicked>>
    PROVE  IInv'
  <1>1. TypeOK' BY DEF IInv, TypeOK, At
  <1>2. InOnePlace' BY DEF IInv, InOnePlace, Queued, Upgrades
  <1>3. StatusMatchesPlace'
    <2>1. at # "running" /\ at' # "running" OBVIOUS
    <2> QED BY <2>1 DEF IInv, StatusMatchesPlace
  <1>4. NothingUnreachable' /\ Control' BY DEF IInv, NothingUnreachable, Control
  <1> QED BY <1>1, <1>2, <1>3, <1>4 DEF IInv

LEMMA DequeueKeepsIInv == IInv /\ Dequeue => IInv'
  <1> SUFFICES ASSUME IInv, Dequeue PROVE IInv' OBVIOUS
  <1> USE ProcessAssumption
  <1> DEFINE p == DequeuedProcess(run_queues)
  <1>1. /\ run_queues \in Queues /\ NoDuplicates(run_queues) /\ current = NoProcess
        /\ Dequeued(run_queues) = "Now" /\ run_queues' = AfterDequeue(run_queues)
    BY DEF IInv, TypeOK, InOnePlace, Control, Dequeue
  <1>2. /\ run_queues' \in Queues /\ p \in Process /\ InRunQueue(p, run_queues)
        /\ run_queues'.waiting = run_queues.waiting
        /\ \A x \in Process : InRunQueue(x, run_queues') <=> InRunQueue(x, run_queues) /\ x # p
        /\ NoDuplicates(run_queues')
    BY <1>1, DequeueNowFacts
  <1>3. /\ at = "dequeue" /\ current' = p /\ priority' = priority /\ panicked' = panicked
        /\ \/ /\ ~is_exiting(p) /\ at' = "running"
              /\ status' = [status EXCEPT ![p] = "Running"]
           \/ /\ is_exiting(p) /\ at' = "requeue" /\ status' = status
    BY DEF Dequeue, Runs
  <1> HIDE DEF p
  <1>4. status[p] \in {"Runnable", "RuntimeException"} /\ p \notin run_queues.waiting
    BY <1>2 DEF IInv, StatusMatchesPlace, InOnePlace
  <1>5. \A x \in Process \ {p} : status'[x] = status[x] BY <1>3 DEF IInv, TypeOK
  <1>6. IF at' = "running" THEN status'[p] = "Running"
                           ELSE at' = "requeue" /\ status'[p] = "RuntimeException"
    BY <1>2, <1>3, <1>4 DEF IInv, TypeOK, is_exiting
  <1>7. TypeOK' BY <1>2, <1>3 DEF IInv, TypeOK, Status, At
  <1>8. InOnePlace'
    <2> SUFFICES ASSUME NEW x \in Process
                 PROVE  /\ ~(InRunQueue(x, run_queues') /\ x \in run_queues'.waiting)
                        /\ x = current' => ~Queued(x)'
                        /\ status'[x] \in {"Runnable", "Running", "Waiting"} => Upgrades(x)'
                        /\ status'[x] = "Unrunnable" => ~Upgrades(x)'
      BY <1>2 DEF InOnePlace
    <2>1. CASE x = p BY <2>1, <1>2, <1>3, <1>4, <1>6 DEF Queued, Upgrades
    <2>2. CASE x # p BY <2>2, <1>1, <1>2, <1>3, <1>5 DEF IInv, InOnePlace, Queued, Upgrades
    <2> QED BY <2>1, <2>2
  <1>9. StatusMatchesPlace'
    <2> SUFFICES ASSUME NEW x \in Process
                 PROVE  /\ InRunQueue(x, run_queues') => status'[x] \in {"Runnable", "RuntimeException"}
                        /\ x \in run_queues'.waiting <=> status'[x] = "Waiting" /\ x # current'
                        /\ status'[x] = "Running" <=> x = current' /\ at' = "running"
      BY DEF StatusMatchesPlace
    <2>1. CASE x = p BY <2>1, <1>2, <1>3, <1>4, <1>6
    <2>2. CASE x # p BY <2>2, <1>1, <1>2, <1>3, <1>5 DEF IInv, StatusMatchesPlace
    <2> QED BY <2>1, <2>2
  <1>10. NothingUnreachable' BY <1>3 DEF IInv, NothingUnreachable
  <1>11. Control' BY <1>2, <1>3, <1>6 DEF Control
  <1> QED BY <1>7, <1>8, <1>9, <1>10, <1>11 DEF IInv

LEMMA DequeueDelayedKeepsIInv == IInv /\ DequeueDelayed => IInv'
  <1> SUFFICES ASSUME IInv, DequeueDelayed PROVE IInv' OBVIOUS
  <1>1. /\ run_queues \in Queues /\ NoDuplicates(run_queues)
        /\ Dequeued(run_queues) = "Delayed" /\ run_queues' = AfterDequeue(run_queues)
        /\ UNCHANGED <<status, priority, current, at, panicked>>
    BY DEF IInv, TypeOK, InOnePlace, DequeueDelayed
  <1>2. /\ run_queues' \in Queues /\ run_queues'.waiting = run_queues.waiting
        /\ \A x \in Process : InRunQueue(x, run_queues') <=> InRunQueue(x, run_queues)
        /\ NoDuplicates(run_queues')
    BY <1>1, DequeueDelayedFacts
  <1>3. TypeOK' BY <1>1, <1>2 DEF IInv, TypeOK
  <1>4. InOnePlace' BY <1>1, <1>2 DEF IInv, InOnePlace, Queued, Upgrades
  <1>5. StatusMatchesPlace' BY <1>1, <1>2 DEF IInv, StatusMatchesPlace
  <1>6. NothingUnreachable' /\ Control'
    BY <1>1 DEF IInv, NothingUnreachable, Control, is_exiting
  <1> QED BY <1>3, <1>4, <1>5, <1>6 DEF IInv

LEMMA SpawnKeepsIInv ==
    ASSUME IInv, NEW child \in Process, NEW option \in SpawnPriorities, Spawn(child, option)
    PROVE  IInv'
  <1> DEFINE prio == cascaded_priority(option)
  <1>1. /\ at = "running" /\ current \in Process /\ run_queues \in Queues
        /\ NoDuplicates(run_queues) /\ status[child] = "Unrunnable"
    BY DEF Spawn, IInv, Control, TypeOK, InOnePlace
  <1>2. prio \in Priority
    BY <1>1, ProcessAssumption DEF IInv, TypeOK, cascaded_priority
  <1>3. ~InRunQueue(child, run_queues) /\ child \notin run_queues.waiting /\ child # current
    BY <1>1 DEF IInv, InOnePlace, Upgrades, Queued
  <1>4. /\ run_queues' = enqueue(run_queues, child, prio)
        /\ status' = [status EXCEPT ![child] = "Runnable"]
        /\ priority' = [priority EXCEPT ![child] = prio]
        /\ UNCHANGED <<current, at, panicked>>
    BY DEF Spawn
  <1> HIDE DEF prio
  <1>5. /\ run_queues' \in Queues /\ run_queues'.waiting = run_queues.waiting
        /\ \A x \in Process : InRunQueue(x, run_queues') <=> InRunQueue(x, run_queues) \/ x = child
        /\ NoDuplicates(run_queues')
    BY <1>1, <1>2, <1>3, <1>4, EnqueueFacts
  <1>6. status'[child] = "Runnable" /\ \A x \in Process \ {child} : status'[x] = status[x]
    BY <1>4 DEF IInv, TypeOK
  <1>7. TypeOK' BY <1>2, <1>4, <1>5 DEF IInv, TypeOK, Status
  <1>8. InOnePlace'
    <2> SUFFICES ASSUME NEW x \in Process
                 PROVE  /\ ~(InRunQueue(x, run_queues') /\ x \in run_queues'.waiting)
                        /\ x = current' => ~Queued(x)'
                        /\ status'[x] \in {"Runnable", "Running", "Waiting"} => Upgrades(x)'
                        /\ status'[x] = "Unrunnable" => ~Upgrades(x)'
      BY <1>5 DEF InOnePlace
    <2>1. CASE x = child BY <2>1, <1>3, <1>4, <1>5, <1>6 DEF Queued, Upgrades
    <2>2. CASE x # child BY <2>2, <1>4, <1>5, <1>6 DEF IInv, InOnePlace, Queued, Upgrades
    <2> QED BY <2>1, <2>2
  <1>9. StatusMatchesPlace'
    <2> SUFFICES ASSUME NEW x \in Process
                 PROVE  /\ InRunQueue(x, run_queues') => status'[x] \in {"Runnable", "RuntimeException"}
                        /\ x \in run_queues'.waiting <=> status'[x] = "Waiting" /\ x # current'
                        /\ status'[x] = "Running" <=> x = current' /\ at' = "running"
      BY DEF StatusMatchesPlace
    <2>1. CASE x = child BY <2>1, <1>3, <1>4, <1>5, <1>6
    <2>2. CASE x # child BY <2>2, <1>4, <1>5, <1>6 DEF IInv, StatusMatchesPlace
    <2> QED BY <2>1, <2>2
  <1>10. NothingUnreachable' /\ Control'
    BY <1>1, <1>4 DEF IInv, NothingUnreachable, Control
  <1> QED BY <1>7, <1>8, <1>9, <1>10 DEF IInv

LEMMA ReturnKeepsIInv ==
    ASSUME IInv, NEW s \in {"Running", "Waiting", "Exited", "RuntimeException"}, Return(s)
    PROVE  IInv'
  <1>1. /\ at = "running" /\ at' = "requeue" /\ current \in Process
        /\ UNCHANGED <<priority, run_queues, current, panicked>>
        /\ status' = [status EXCEPT ![current] = StopRunning(s)]
    BY DEF Return, IInv, Control
  <1>2. StopRunning(s) \in {"Runnable", "Waiting", "Exited", "RuntimeException"}
    BY DEF StopRunning
  <1>3. /\ status'[current] = StopRunning(s)
        /\ \A x \in Process \ {current} : status'[x] = status[x]
    BY <1>1 DEF IInv, TypeOK
  <1>4. TypeOK' BY <1>1, <1>2 DEF IInv, TypeOK, Status, At
  <1>5. InOnePlace'
    BY <1>1, <1>2, <1>3 DEF IInv, InOnePlace, Queued, Upgrades
  <1>6. StatusMatchesPlace'
    <2> SUFFICES ASSUME NEW x \in Process
                 PROVE  /\ InRunQueue(x, run_queues) => status'[x] \in {"Runnable", "RuntimeException"}
                        /\ x \in run_queues.waiting <=> status'[x] = "Waiting" /\ x # current
                        /\ status'[x] # "Running"
      BY <1>1 DEF StatusMatchesPlace
    <2>1. CASE x = current
      BY <2>1, <1>2, <1>3 DEF IInv, InOnePlace, Queued
    <2>2. CASE x # current BY <2>2, <1>1, <1>3 DEF IInv, StatusMatchesPlace
    <2> QED BY <2>1, <2>2
  <1>7. NothingUnreachable' /\ Control'
    BY <1>1, <1>2, <1>3 DEF IInv, NothingUnreachable, Control
  <1> QED BY <1>4, <1>5, <1>6, <1>7 DEF IInv

LEMMA RequeueKeepsIInv == IInv /\ Requeue => IInv'
  <1> SUFFICES ASSUME IInv, Requeue PROVE IInv' OBVIOUS
  <1> USE ProcessAssumption
  <1>1. /\ at = "requeue" /\ current \in Process /\ UNCHANGED <<status, priority>>
        /\ run_queues \in Queues /\ NoDuplicates(run_queues) /\ priority[current] \in Priority
        /\ ~InRunQueue(current, run_queues) /\ current \notin run_queues.waiting
    BY DEF Requeue, IInv, Control, TypeOK, InOnePlace, Queued
  <1>2. status[current] \in {"Runnable", "Waiting", "Exited", "RuntimeException"}
    BY <1>1 DEF IInv, Control
  <1>3. CASE status[current] = "Runnable"
    <2>1. /\ run_queues' = enqueue(run_queues, current, priority[current])
          /\ at' = "timeout" /\ current' = NoProcess /\ UNCHANGED panicked
      BY <1>1, <1>3 DEF Requeue, is_exiting
    <2>2. /\ run_queues' \in Queues /\ run_queues'.waiting = run_queues.waiting
          /\ \A x \in Process : InRunQueue(x, run_queues') <=>
                InRunQueue(x, run_queues) \/ x = current
          /\ NoDuplicates(run_queues')
      BY <1>1, <2>1, EnqueueFacts
    <2>3. TypeOK' BY <1>1, <2>1, <2>2 DEF IInv, TypeOK, At
    <2>4. InOnePlace'
      BY <1>1, <1>3, <2>1, <2>2 DEF IInv, InOnePlace, Queued, Upgrades
    <2>5. StatusMatchesPlace'
      BY <1>1, <1>3, <2>1, <2>2 DEF IInv, StatusMatchesPlace
    <2>6. NothingUnreachable' /\ Control'
      BY <2>1 DEF IInv, NothingUnreachable, Control
    <2> QED BY <2>3, <2>4, <2>5, <2>6 DEF IInv
  <1>4. CASE status[current] = "Waiting"
    <2>1. /\ run_queues' = [run_queues EXCEPT !.waiting = @ \cup {current}]
          /\ at' = "timeout" /\ current' = NoProcess /\ UNCHANGED panicked
      BY <1>1, <1>4 DEF Requeue, is_exiting
    <2>2. /\ run_queues' \in Queues /\ run_queues'.waiting = run_queues.waiting \cup {current}
          /\ run_queues'.normal_low = run_queues.normal_low
          /\ run_queues'.high = run_queues.high /\ run_queues'.max = run_queues.max
      BY Zenon, <1>1, <2>1 DEF Queues
    <2>3. /\ \A x \in Process : InRunQueue(x, run_queues') <=> InRunQueue(x, run_queues)
          /\ NoDuplicates(run_queues')
      BY <1>1, <2>2 DEF InRunQueue, InDelayed, InHigh, InMax, NoDuplicates
    <2>4. TypeOK' BY <1>1, <2>1, <2>2 DEF IInv, TypeOK, At
    <2>5. InOnePlace'
      BY <1>1, <1>4, <2>1, <2>2, <2>3 DEF IInv, InOnePlace, Queued, Upgrades
    <2>6. StatusMatchesPlace'
      BY <1>1, <1>4, <2>1, <2>2, <2>3 DEF IInv, StatusMatchesPlace
    <2>7. NothingUnreachable' /\ Control'
      BY <2>1 DEF IInv, NothingUnreachable, Control
    <2> QED BY <2>4, <2>5, <2>6, <2>7 DEF IInv
  <1>5. CASE status[current] \in {"Exited", "RuntimeException"}
    <2>1. at' = "propagate" /\ UNCHANGED <<status, priority, run_queues, current, panicked>>
      BY <1>1, <1>5 DEF Requeue, is_exiting
    <2>2. TypeOK' BY <2>1 DEF IInv, TypeOK, At
    <2>3. InOnePlace' BY <2>1 DEF IInv, InOnePlace, Queued, Upgrades
    <2>4. StatusMatchesPlace' BY <1>1, <2>1 DEF IInv, StatusMatchesPlace
    <2>5. NothingUnreachable' /\ Control'
      BY <1>1, <1>5, <2>1 DEF IInv, NothingUnreachable, Control, is_exiting
    <2> QED BY <2>2, <2>3, <2>4, <2>5 DEF IInv
  <1> QED BY <1>2, <1>3, <1>4, <1>5

LEMMA PropagatedKeepsIInv == IInv /\ Propagated => IInv'
  <1> SUFFICES ASSUME IInv, Propagated PROVE IInv' OBVIOUS
  <1>1. /\ at = "propagate" /\ at' = "timeout" /\ current' = NoProcess /\ current \in Process
        /\ status[current] \in {"Exited", "RuntimeException"}
        /\ UNCHANGED <<status, priority, run_queues, panicked>>
    BY DEF Propagated, IInv, Control, is_exiting
  <1>2. TypeOK' BY <1>1 DEF IInv, TypeOK, At
  <1>3. InOnePlace' BY <1>1, ProcessAssumption DEF IInv, InOnePlace, Queued, Upgrades
  <1>4. StatusMatchesPlace' BY <1>1, ProcessAssumption DEF IInv, StatusMatchesPlace
  <1>5. NothingUnreachable' /\ Control' BY <1>1 DEF IInv, NothingUnreachable, Control
  <1> QED BY <1>2, <1>3, <1>4, <1>5 DEF IInv

LEMMA StepKeepsIInv == IInv /\ [Next]_vars => IInv'
  <1> SUFFICES ASSUME IInv, [Next]_vars PROVE IInv' OBVIOUS
  <1>1. ASSUME NEW p \in Process, TimerWakes(p) PROVE IInv'
    <2>1. p # current BY <1>1, ProcessAssumption DEF TimerWakes, IInv, Control
    <2> QED BY <1>1, <2>1, WakeKeepsIInv DEF TimerWakes
  <1>2. CASE TimeoutReturns BY <1>2, IdleKeepsIInv DEF TimeoutReturns
  <1>3. CASE DequeueWaiting BY <1>3, IdleKeepsIInv DEF DequeueWaiting
  <1>4. CASE DequeueNone BY <1>4, IdleKeepsIInv DEF DequeueNone
  <1>5. ASSUME NEW p \in Process, Wake(p) \/ Notify(p) \/ ExitLinked(p) PROVE IInv'
    BY <1>5, WakeKeepsIInv DEF Wake, Notify, ExitLinked
  <1>6. CASE Reduced \/ Wait \/ ExitNormal \/ Raise
    BY <1>6, ReturnKeepsIInv DEF Reduced, Wait, ExitNormal, Raise
  <1>7. CASE Stopped \/ UNCHANGED vars
    <2>1. UNCHANGED <<status, priority, run_queues, current, at, panicked>>
      BY <1>7 DEF Stopped, vars
    <2> QED BY <2>1 DEF IInv, TypeOK, InOnePlace, StatusMatchesPlace, NothingUnreachable,
                        Control, Queued, Upgrades, is_exiting
  <1> QED
    BY <1>1, <1>2, <1>3, <1>4, <1>5, <1>6, <1>7, DequeueKeepsIInv, DequeueDelayedKeepsIInv,
       SpawnKeepsIInv, RequeueKeepsIInv, PropagatedKeepsIInv
    DEF Next

LEMMA Invariance == Spec => []IInv
  <1> QED BY InitIInv, StepKeepsIInv, PTL DEF Spec

-----------------------------------------------------------------------------
(* The scheduler's state keeps its types, delays included: TypeOK *)
THEOREM TypeCorrect == Spec => []TypeOK
  <1>1. IInv => TypeOK BY DEF IInv
  <1> QED BY <1>1, Invariance, PTL

(* No process is lost or scheduled twice by enqueue, dequeue, requeue and
   stop_waiting: InOnePlace *)
THEOREM OnePlace == Spec => []InOnePlace
  <1>1. IInv => InOnePlace BY DEF IInv
  <1> QED BY <1>1, Invariance, PTL

(* The status of a process and the queue it is in agree, so that no exit and no
   wake-up is missed: StatusMatchesPlace *)
THEOREM StatusAndPlaceAgree == Spec => []StatusMatchesPlace
  <1>1. IInv => StatusMatchesPlace BY DEF IInv
  <1> QED BY <1>1, Invariance, PTL

(* Next::from_status never reaches its unreachable! arm: NothingUnreachable *)
THEOREM NoUnreachable == Spec => []NothingUnreachable
  <1>1. IInv => NothingUnreachable BY DEF IInv
  <1> QED BY <1>1, Invariance, PTL

(* A process that is exiting never runs again, whatever wakes it: ExitIsFinal *)
THEOREM ExitFinal == Spec => ExitIsFinal
  <1>1. ASSUME IInv, [Next]_vars, NEW p \in Process, is_exiting(p)
        PROVE  is_exiting(p)'
    <2> USE DEF is_exiting
    <2>1. status \in [Process -> Status] BY <1>1 DEF IInv, TypeOK
    <2>2. ASSUME NEW q \in Process, StopWaiting(q) \/ ExitOther(q) PROVE is_exiting(p)'
      BY <1>1, <2>1, <2>2 DEF StopWaiting, ExitOther
    <2>3. CASE \E q \in Process : TimerWakes(q) \/ Wake(q) \/ Notify(q) \/ ExitLinked(q)
      BY <2>2, <2>3 DEF TimerWakes, Wake, Notify, ExitLinked
    <2>4. CASE Dequeue
      <3>1. DequeuedProcess(run_queues) = p => UNCHANGED status
        BY <1>1, <2>4 DEF Dequeue, Runs
      <3>2. DequeuedProcess(run_queues) # p => status'[p] = status[p]
        BY <2>1, <2>4 DEF Dequeue
      <3> QED BY <1>1, <3>1, <3>2
    <2>5. CASE \E child \in Process, option \in SpawnPriorities : Spawn(child, option)
      BY <1>1, <2>1, <2>5 DEF Spawn
    <2>6. CASE Reduced \/ Wait \/ ExitNormal \/ Raise
      <3>1. at = "running" BY <2>6 DEF Reduced, Wait, ExitNormal, Raise, Return
      <3>2. p # current BY <1>1, <3>1 DEF IInv, StatusMatchesPlace
      <3>3. status'[p] = status[p]
        BY <2>1, <2>6, <3>2 DEF Reduced, Wait, ExitNormal, Raise, Return
      <3> QED BY <1>1, <3>3
    <2>7. CASE UNCHANGED status BY <1>1, <2>7
    <2> QED
      BY <1>1, <2>3, <2>4, <2>5, <2>6, <2>7
      DEF Next, TimeoutReturns, DequeueDelayed, DequeueWaiting, DequeueNone, Requeue,
          Propagated, Stopped, vars
  <1>2. IInv /\ [Next]_vars => [\A p \in Process : is_exiting(p) => is_exiting(p)']_vars
    BY <1>1
  <1> QED BY <1>2, Invariance, PTL DEF Spec, ExitIsFinal

-----------------------------------------------------------------------------
(* Facts for the modules that extend Scheduling.                                 *)

(* A process is there after a step only if it was there before or is spawned.   *)
LEMMA UpgradesFacts ==
    ASSUME IInv, [Next]_vars, NEW x \in Process, Upgrades(x)'
    PROVE  Upgrades(x) \/ status[x] = "Unrunnable"
<1>1. /\ run_queues \in Queues /\ NoDuplicates(run_queues) /\ priority \in [Process -> Priority]
      /\ current \in Process \cup {NoProcess} /\ NoProcess \notin Process
  BY ProcessAssumption DEF IInv, TypeOK, InOnePlace
<1> USE DEF Upgrades, Queued
<1>2. CASE \E p \in Process : TimerWakes(p) \/ Wake(p) \/ Notify(p) \/ ExitLinked(p)
  <2>1. PICK p \in Process : /\ run_queues' = stop_waiting(run_queues, p, priority[p])
                             /\ current' = current
    BY <1>2 DEF TimerWakes, Wake, Notify, ExitLinked, StopWaiting, ExitOther
  <2>2. priority[p] \in Priority
    BY <1>1
  <2>3. /\ run_queues'.waiting = run_queues.waiting \ {p}
        /\ InRunQueue(x, run_queues') <=>
                InRunQueue(x, run_queues) \/ (x = p /\ p \in run_queues.waiting)
    BY <1>1, <2>1, <2>2, StopWaitingFacts
  <2> QED BY <2>1, <2>3
<1>3. CASE Dequeue
  <2>1. /\ InRunQueue(DequeuedProcess(run_queues), run_queues)
        /\ run_queues'.waiting = run_queues.waiting
        /\ InRunQueue(x, run_queues') => InRunQueue(x, run_queues)
        /\ current' = DequeuedProcess(run_queues)
    BY <1>1, <1>3, DequeueNowFacts DEF Dequeue
  <2> QED BY <2>1
<1>4. CASE DequeueDelayed
  <2>1. /\ run_queues'.waiting = run_queues.waiting
        /\ InRunQueue(x, run_queues') => InRunQueue(x, run_queues)
        /\ current' = current
    BY <1>1, <1>4, DequeueDelayedFacts DEF DequeueDelayed
  <2> QED BY <2>1
<1>5. ASSUME NEW p \in Process, NEW option \in SpawnPriorities, Spawn(p, option)
      PROVE  Upgrades(x) \/ status[x] = "Unrunnable"
  <2>1. current \in Process
    BY <1>5 DEF Spawn, IInv, Control
  <2>2. cascaded_priority(option) \in Priority
    BY <1>1, <2>1, ProcessAssumption DEF cascaded_priority
  <2>3. /\ run_queues'.waiting = run_queues.waiting
        /\ InRunQueue(x, run_queues') <=> InRunQueue(x, run_queues) \/ x = p
        /\ current' = current /\ status[p] = "Unrunnable"
    BY Zenon, <1>1, <1>5, <2>2, EnqueueFacts DEF Spawn
  <2> QED BY <2>3
<1>6. CASE Requeue
  <2>1. current \in Process /\ priority[current] \in Priority
    BY <1>1, <1>6 DEF Requeue, IInv, Control
  <2>2. CASE run_queues' = enqueue(run_queues, current, priority[current])
    <3>1. /\ run_queues'.waiting = run_queues.waiting
          /\ InRunQueue(x, run_queues') <=> InRunQueue(x, run_queues) \/ x = current
      BY <1>1, <2>1, <2>2, EnqueueFacts
    <3>2. current' \in {current, NoProcess}
      BY <1>6 DEF Requeue
    <3> QED BY <1>1, <3>1, <3>2
  <2>3. CASE run_queues' = [run_queues EXCEPT !.waiting = @ \cup {current}]
    <3>1. /\ run_queues'.waiting = run_queues.waiting \cup {current}
          /\ run_queues'.normal_low = run_queues.normal_low
          /\ run_queues'.high = run_queues.high /\ run_queues'.max = run_queues.max
      BY <1>1, <2>3 DEF Queues
    <3>2. InRunQueue(x, run_queues') => InRunQueue(x, run_queues)
      BY <3>1 DEF InRunQueue, InDelayed, InHigh, InMax
    <3>3. current' \in {current, NoProcess}
      BY <1>6 DEF Requeue
    <3> QED BY <1>1, <3>1, <3>2, <3>3
  <2>4. CASE UNCHANGED <<run_queues, current>>
    BY <2>4
  <2> QED BY <1>6, <2>2, <2>3, <2>4 DEF Requeue
<1>7. CASE /\ UNCHANGED run_queues
           /\ current' = current \/ current' = NoProcess
  BY <1>1, <1>7
<1> QED
  BY <1>2, <1>3, <1>4, <1>5, <1>6, <1>7 DEF Next, vars, TimeoutReturns, DequeueWaiting, DequeueNone,
     Reduced, Wait, ExitNormal, Raise, Return, Propagated, Stopped

(* A process stays until its exit has been propagated.                          *)
LEMMA UpgradesStay ==
    ASSUME IInv, [Next]_vars, NEW x \in Process, Upgrades(x), ~Upgrades(x)'
    PROVE  Propagated /\ x = current
<1>1. /\ run_queues \in Queues /\ NoDuplicates(run_queues) /\ priority \in [Process -> Priority]
      /\ current \in Process \cup {NoProcess} /\ NoProcess \notin Process
  BY ProcessAssumption DEF IInv, TypeOK, InOnePlace
<1> USE DEF Upgrades, Queued
<1>2. ~ \E p \in Process : TimerWakes(p) \/ Wake(p) \/ Notify(p) \/ ExitLinked(p)
  <2> SUFFICES ASSUME NEW p \in Process, TimerWakes(p) \/ Wake(p) \/ Notify(p) \/ ExitLinked(p)
               PROVE  FALSE
    OBVIOUS
  <2>1. run_queues' = stop_waiting(run_queues, p, priority[p]) /\ current' = current
    BY DEF TimerWakes, Wake, Notify, ExitLinked, StopWaiting, ExitOther
  <2>2. priority[p] \in Priority
    BY <1>1
  <2>3. /\ run_queues'.waiting = run_queues.waiting \ {p}
        /\ InRunQueue(x, run_queues') <=>
                InRunQueue(x, run_queues) \/ (x = p /\ p \in run_queues.waiting)
    BY <1>1, <2>1, <2>2, StopWaitingFacts
  <2> QED BY <2>1, <2>3
<1>3. ASSUME Dequeue PROVE FALSE
  <2>1. /\ run_queues'.waiting = run_queues.waiting
        /\ InRunQueue(x, run_queues') <=> InRunQueue(x, run_queues) /\ x # DequeuedProcess(run_queues)
        /\ current' = DequeuedProcess(run_queues)
    BY <1>1, <1>3, DequeueNowFacts DEF Dequeue
  <2>2. current = NoProcess
    BY <1>3 DEF Dequeue, IInv, Control
  <2> QED BY <1>1, <2>1, <2>2
<1>4. ASSUME DequeueDelayed PROVE FALSE
  <2>1. /\ run_queues'.waiting = run_queues.waiting
        /\ InRunQueue(x, run_queues') <=> InRunQueue(x, run_queues)
        /\ current' = current
    BY <1>1, <1>4, DequeueDelayedFacts DEF DequeueDelayed
  <2> QED BY <2>1
<1>5. ASSUME NEW p \in Process, NEW option \in SpawnPriorities, Spawn(p, option) PROVE FALSE
  <2>1. current \in Process
    BY <1>5 DEF Spawn, IInv, Control
  <2>2. cascaded_priority(option) \in Priority
    BY <1>1, <2>1, ProcessAssumption DEF cascaded_priority
  <2>3. /\ run_queues'.waiting = run_queues.waiting
        /\ InRunQueue(x, run_queues') <=> InRunQueue(x, run_queues) \/ x = p
        /\ current' = current
    BY Zenon, <1>1, <1>5, <2>2, EnqueueFacts DEF Spawn
  <2> QED BY <2>3
<1>6. ASSUME Requeue PROVE FALSE
  <2>1. current \in Process /\ priority[current] \in Priority
    BY <1>1, <1>6 DEF Requeue, IInv, Control
  <2>2. CASE run_queues' = enqueue(run_queues, current, priority[current])
    <3>1. /\ run_queues'.waiting = run_queues.waiting
          /\ InRunQueue(x, run_queues') <=> InRunQueue(x, run_queues) \/ x = current
      BY <1>1, <2>1, <2>2, EnqueueFacts
    <3> QED BY <3>1
  <2>3. CASE run_queues' = [run_queues EXCEPT !.waiting = @ \cup {current}]
    <3>1. /\ run_queues'.waiting = run_queues.waiting \cup {current}
          /\ run_queues'.normal_low = run_queues.normal_low
          /\ run_queues'.high = run_queues.high /\ run_queues'.max = run_queues.max
      BY <1>1, <2>3 DEF Queues
    <3>2. InRunQueue(x, run_queues) => InRunQueue(x, run_queues')
      BY <3>1 DEF InRunQueue, InDelayed, InHigh, InMax
    <3> QED BY <3>1, <3>2
  <2>4. CASE UNCHANGED <<run_queues, current>>
    BY <2>4
  <2> QED BY <1>6, <2>2, <2>3, <2>4 DEF Requeue
<1>7. ASSUME UNCHANGED run_queues, current' = current PROVE FALSE
  BY <1>7
<1>8. Propagated
  BY <1>2, <1>3, <1>4, <1>5, <1>6, <1>7 DEF Next, vars, TimeoutReturns, DequeueWaiting, DequeueNone,
     Reduced, Wait, ExitNormal, Raise, Return, Stopped
<1>9. x = current
  BY <1>8 DEF Propagated
<1> QED BY <1>8, <1>9

(* How a step of the scheduler changes the status of a process.                 *)
LEMMA StatusFacts ==
    ASSUME IInv, [Next]_vars, NEW x \in Process
    PROVE  /\ status'[x] = "Unrunnable" => status[x] = "Unrunnable"
           /\ is_exiting(x) => status'[x] = status[x] \/ status'[x] = "RuntimeException"
           /\ ~is_exiting(x) /\ is_exiting(x)' =>
                (x = current /\ at = "running") \/ (at = "propagate" /\ ExitLinked(x))
<1>1. status \in [Process -> Status] /\ current \in Process \cup {NoProcess}
  BY DEF IInv, TypeOK
<1> USE DEF is_exiting
<1>2. ASSUME NEW p \in Process, StopWaiting(p)
      PROVE  \/ status'[x] = status[x]
             \/ status[x] = "Waiting" /\ status'[x] = "Runnable"
  BY <1>1, <1>2 DEF StopWaiting
<1>3. CASE \E p \in Process : TimerWakes(p) \/ Wake(p) \/ Notify(p)
  BY <1>2, <1>3 DEF TimerWakes, Wake, Notify
<1>4. ASSUME NEW p \in Process, ExitLinked(p)
      PROVE  /\ at = "propagate"
             /\ \/ x = p /\ status'[x] = "RuntimeException"
                \/ x # p /\ status'[x] = status[x]
  BY <1>1, <1>4 DEF ExitLinked, ExitOther
<1>5. CASE Dequeue
  <2>1. DequeuedProcess(run_queues) = x =>
            (status'[x] = "Running" /\ ~is_exiting(x)) \/ status'[x] = status[x]
    BY <1>1, <1>5 DEF Dequeue, Runs
  <2>2. DequeuedProcess(run_queues) # x => status'[x] = status[x]
    BY <1>1, <1>5 DEF Dequeue
  <2> QED BY <2>1, <2>2
<1>6. CASE \E child \in Process, option \in SpawnPriorities : Spawn(child, option)
  BY <1>1, <1>6 DEF Spawn
<1>7. CASE Reduced \/ Wait \/ ExitNormal \/ Raise
  <2>1. at = "running"
    BY <1>7 DEF Reduced, Wait, ExitNormal, Raise, Return
  <2>2. status'[x] \in {"Runnable", "Waiting", "Exited", "RuntimeException"} \/ x # current
    BY <1>1, <1>7 DEF Reduced, Wait, ExitNormal, Raise, Return, StopRunning
  <2>3. x # current => status'[x] = status[x]
    BY <1>1, <1>7 DEF Reduced, Wait, ExitNormal, Raise, Return
  <2>4. x = current => status[x] = "Running"
    BY <2>1 DEF IInv, StatusMatchesPlace
  <2> QED BY <2>1, <2>2, <2>3, <2>4
<1>8. CASE UNCHANGED status
  BY <1>8
<1>9. ASSUME NEW p \in Process, ExitLinked(p)
      PROVE  /\ status'[x] = "Unrunnable" => status[x] = "Unrunnable"
             /\ is_exiting(x) => status'[x] = status[x] \/ status'[x] = "RuntimeException"
             /\ ~is_exiting(x) /\ is_exiting(x)' => at = "propagate" /\ ExitLinked(x)
  BY <1>4, <1>9
<1> QED
  BY <1>3, <1>5, <1>6, <1>7, <1>8, <1>9 DEF Next, vars, TimeoutReturns, DequeueDelayed,
     DequeueWaiting, DequeueNone, Requeue, Propagated, Stopped

-----------------------------------------------------------------------------
(* A process has no name before it is spawned: the strengthening, because a     *)
(* process that is spawned is there at once.                                    *)
NotYetNamed ==
    \A p \in Process : status[p] = "Unrunnable" =>
        registered_name[p] = NoName /\ \A n \in Name : registered[n] # p

RInv == IInv /\ RegistryTypeOK /\ NotYetNamed /\ NamesAgree

-----------------------------------------------------------------------------
(* The process that a name leads to has that name.                              *)
LEMMA HolderFacts ==
    ASSUME RInv, NEW n \in Name, atom_to_process(n) # NoProcess
    PROVE  /\ atom_to_process(n) = registered[n] /\ registered[n] \in Process
           /\ Upgrades(registered[n]) /\ registered_name[registered[n]] = n
<1>1. /\ n \in names /\ Upgrades(registered[n])
      /\ atom_to_process(n) = registered[n]
  BY DEF atom_to_process
<1>2. registered[n] \in Process
  BY <1>1 DEF names, RInv, RegistryTypeOK
<1> QED BY <1>1, <1>2 DEF RInv, NamesAgree

(* A step of Registry is one of Scheduling.                                     *)
LEMMA RegistryStepIsScheduled == RInv /\ [RegistryNext]_registryVars => [Next]_vars
<1> SUFFICES ASSUME RInv, [RegistryNext]_registryVars PROVE Next \/ UNCHANGED vars
  OBVIOUS
<1>1. ASSUME NEW n \in Name, SendToName(n) PROVE Next \/ UNCHANGED vars
  <2> USE <1>1 DEF SendToName
  <2>1. CASE registered_name[current] = n \/ atom_to_process(n) = NoProcess
    <3>1. UNCHANGED <<status, run_queues>>
      BY <2>1
    <3> QED BY <3>1 DEF vars
  <2>2. CASE registered_name[current] # n /\ atom_to_process(n) # NoProcess
    <3>1. StopWaiting(registered[n])
      BY <2>2, HolderFacts
    <3>2. registered[n] # current
      BY <2>2, HolderFacts
    <3>3. Wake(registered[n])
      BY <2>2, <3>1, <3>2, HolderFacts DEF Wake
    <3> QED BY <2>2, <3>3, HolderFacts DEF Next
  <2> QED BY <2>1, <2>2
<1>2. ASSUME NEW n \in Name, TimerSendsToName(n) PROVE Next \/ UNCHANGED vars
  <2> USE <1>2 DEF TimerSendsToName
  <2>1. CASE atom_to_process(n) = NoProcess
    BY <2>1 DEF vars
  <2>2. CASE atom_to_process(n) # NoProcess
    <3>1. TimerWakes(registered[n])
      BY <2>2, HolderFacts DEF TimerWakes
    <3> QED BY <2>2, <3>1, HolderFacts DEF Next
  <2> QED BY <2>1, <2>2
<1> QED BY <1>1, <1>2 DEF RegistryNext, registryVars, Register, Unregister

-----------------------------------------------------------------------------
(* The scheduler's steps make no process appear that has a name already.        *)
LEMMA OthersKeepNames ==
    ASSUME RInv, [Next]_vars, registered' = registered, registered_name' = registered_name
    PROVE  NotYetNamed' /\ NamesAgree'
<1>1. \A p \in Process : Upgrades(p)' => Upgrades(p) \/ status[p] = "Unrunnable"
  BY UpgradesFacts DEF RInv
<1>2. \A p \in Process : status'[p] = "Unrunnable" => status[p] = "Unrunnable"
  BY StatusFacts DEF RInv
<1>3. NotYetNamed'
  BY <1>2 DEF RInv, NotYetNamed
<1>4. ASSUME NEW p \in Process, NEW n \in Name, Upgrades(p)'
      PROVE  registered_name'[p] = n <=> registered'[n] = p
  BY <1>1, <1>4, NameAssumption DEF RInv, NotYetNamed, NamesAgree
<1>5. \A m, n \in names' : registered'[m] = registered'[n] => m = n
  BY DEF RInv, NamesAgree, names
<1> QED BY <1>3, <1>4, <1>5 DEF NamesAgree

LEMMA RegisterKeepsNames ==
    ASSUME RInv, NEW n \in Name, NEW p \in Process, Register(n, p), CanRegister(n, p)
    PROVE  NotYetNamed' /\ NamesAgree'
<1>1. /\ registered' = [registered EXCEPT ![n] = p]
      /\ registered_name' = [registered_name EXCEPT ![p] = n]
      /\ status' = status /\ status[p] # "Unrunnable" /\ \A x \in Process : Upgrades(x)' <=> Upgrades(x)
  BY DEF Register, vars, Upgrades, Queued
<1>2. /\ registered \in [Name -> Process \cup {NoProcess}]
      /\ registered_name \in [Process -> Name \cup {NoName}]
      /\ registered[n] = NoProcess /\ registered_name[p] = NoName /\ Upgrades(p)
      /\ NoProcess \notin Process
  BY ProcessAssumption DEF RInv, RegistryTypeOK, CanRegister, names
<1>3. NotYetNamed'
  BY <1>1, <1>2 DEF RInv, NotYetNamed
<1>4. \A m \in Name : registered[m] # p
  BY <1>2, NameAssumption DEF RInv, NamesAgree
<1>5. ASSUME NEW x \in Process, NEW m \in Name, Upgrades(x)
      PROVE  registered_name'[x] = m <=> registered'[m] = x
  <2>1. registered_name[x] = m <=> registered[m] = x
    BY <1>5 DEF RInv, NamesAgree
  <2>2. CASE x = p
    BY <1>1, <1>2, <1>4, <2>2
  <2>3. CASE x # p
    BY <1>1, <1>2, <2>1, <2>3
  <2> QED BY <2>2, <2>3
<1>6. \A m, k \in names' : registered'[m] = registered'[k] => m = k
  BY <1>1, <1>2, <1>4 DEF RInv, NamesAgree, names
<1> QED BY <1>1, <1>3, <1>5, <1>6 DEF NamesAgree

LEMMA UnregisterKeepsNames ==
    ASSUME RInv, NEW n \in Name, Unregister(n)
    PROVE  NotYetNamed' /\ NamesAgree'
<1>1. /\ registered' = [registered EXCEPT ![n] = NoProcess]
      /\ registered_name' = ForgetName(n)
      /\ status' = status /\ \A x \in Process : Upgrades(x)' <=> Upgrades(x)
  BY DEF Unregister, vars, Upgrades, Queued
<1>2. /\ registered \in [Name -> Process \cup {NoProcess}]
      /\ registered_name \in [Process -> Name \cup {NoName}]
      /\ NoProcess \notin Process /\ NoName \notin Name
  BY ProcessAssumption, NameAssumption DEF RInv, RegistryTypeOK
<1>3. \A x \in Process : registered_name'[x] = registered_name[x]
                         \/ (registered_name'[x] = NoName /\ x = registered[n])
  BY <1>1, <1>2 DEF ForgetName
<1>4. ASSUME NEW x \in Process, Upgrades(x), registered[n] = x
      PROVE  registered_name[x] = n /\ registered_name'[x] = NoName
  <2>1. atom_to_process(n) # NoProcess
    BY <1>2, <1>4 DEF atom_to_process, names
  <2>2. registered_name' = [registered_name EXCEPT ![x] = NoName]
    BY <1>1, <1>4, <2>1 DEF ForgetName
  <2> QED BY <1>2, <1>4, <2>2 DEF RInv, NamesAgree
<1>5. NotYetNamed'
  BY <1>1, <1>2, <1>3 DEF RInv, NotYetNamed
<1>6. ASSUME NEW x \in Process, NEW m \in Name, Upgrades(x)
      PROVE  registered_name'[x] = m <=> registered'[m] = x
  <2>1. registered_name[x] = m <=> registered[m] = x
    BY <1>6 DEF RInv, NamesAgree
  <2>2. registered_name[x] = n <=> registered[n] = x
    BY <1>6 DEF RInv, NamesAgree
  <2>3. CASE registered[n] = x
    <3>1. registered_name[x] = n /\ registered_name'[x] = NoName
      BY <1>4, <1>6, <2>3
    <3> QED BY <1>1, <1>2, <2>1, <3>1
  <2>4. CASE registered[n] # x
    <3>1. registered_name'[x] = registered_name[x]
      BY <1>3, <2>4
    <3> QED BY <1>1, <1>2, <2>1, <2>2, <2>4, <3>1
  <2> QED BY <2>3, <2>4
<1>7. \A m, k \in names' : registered'[m] = registered'[k] => m = k
  BY <1>1, <1>2 DEF RInv, NamesAgree, names
<1> QED BY <1>1, <1>5, <1>6, <1>7 DEF NamesAgree

(* What every step leaves of the types of the tables.                           *)
LEMMA NamesTyped == RInv /\ [RegistryNext]_registryVars => RegistryTypeOK'
<1> SUFFICES ASSUME RInv, [RegistryNext]_registryVars PROVE RegistryTypeOK'
  OBVIOUS
<1>0. /\ RegistryTypeOK /\ current \in Process \cup {NoProcess}
      /\ \A n \in Name : atom_to_process(n) \in Process \cup {NoProcess}
  BY DEF RInv, IInv, TypeOK, RegistryTypeOK, atom_to_process
<1> USE <1>0 DEF RegistryTypeOK, Op
<1>1. ASSUME NEW n \in Name, NEW p \in Process, Register(n, p) PROVE RegistryTypeOK'
  BY <1>1 DEF Register
<1>2. ASSUME NEW n \in Name, Unregister(n) PROVE RegistryTypeOK'
  <2>1. registered_name' \in [Process -> Name \cup {NoName}]
    BY Zenon, <1>2 DEF Unregister, ForgetName
  <2> QED BY <1>2, <2>1 DEF Unregister
<1>3. ASSUME NEW n \in Name, SendToName(n) PROVE RegistryTypeOK'
  BY <1>3 DEF SendToName
<1>4. ASSUME NEW n \in Name, TimerSendsToName(n) PROVE RegistryTypeOK'
  BY <1>4 DEF TimerSendsToName
<1> QED BY <1>1, <1>2, <1>3, <1>4 DEF RegistryNext, registryVars, registry

LEMMA RegistryStep == RInv /\ [RegistryNext]_registryVars => RInv'
<1> SUFFICES ASSUME RInv, [RegistryNext]_registryVars PROVE RInv'
  OBVIOUS
<1>1. [Next]_vars /\ IInv' /\ RegistryTypeOK'
  BY RegistryStepIsScheduled, StepKeepsIInv, NamesTyped DEF RInv
<1>2. ASSUME NEW n \in Name, NEW p \in Process, Register(n, p) PROVE NotYetNamed' /\ NamesAgree'
  <2>1. CASE CanRegister(n, p)
    BY <1>2, <2>1, RegisterKeepsNames
  <2>2. CASE ~CanRegister(n, p)
    BY <1>1, <1>2, <2>2, OthersKeepNames DEF Register
  <2> QED BY <2>1, <2>2
<1>3. ASSUME NEW n \in Name, Unregister(n) PROVE NotYetNamed' /\ NamesAgree'
  BY <1>3, UnregisterKeepsNames
<1>4. ASSUME registered' = registered, registered_name' = registered_name
      PROVE  NotYetNamed' /\ NamesAgree'
  BY <1>1, <1>4, OthersKeepNames
<1>5. NotYetNamed' /\ NamesAgree'
  BY <1>2, <1>3, <1>4 DEF RegistryNext, registryVars, registry, SendToName, TimerSendsToName
<1> QED BY <1>1, <1>5 DEF RInv

LEMMA RegistryInitSafe == RegistryInit => RInv
<1> SUFFICES ASSUME RegistryInit PROVE RInv
  OBVIOUS
<1>1. IInv
  BY InitIInv DEF RegistryInit
<1>2. NoProcess \notin Process /\ NoName \notin Name /\ Undefined \in Name
  BY ProcessAssumption, NameAssumption
<1>3. RegistryTypeOK
  BY <1>2 DEF RegistryInit, RegistryTypeOK, NoCall, Op
<1>4. NotYetNamed /\ NamesAgree
  BY <1>2 DEF RegistryInit, NotYetNamed, NamesAgree, names
<1> QED BY <1>1, <1>3, <1>4 DEF RInv

LEMMA RegistrySafe == RegistrySpec => []RInv
BY RegistryInitSafe, RegistryStep, PTL DEF RegistrySpec

-----------------------------------------------------------------------------
(* Names change nothing that the scheduler promises: what is proved of           *)
(* Scheduling holds of a system with names.                                     *)
THEOREM NamesImplementScheduling == RegistrySpec => Spec
<1>1. RegistryInit => Init
  BY DEF RegistryInit
<1> QED BY <1>1, RegistrySafe, RegistryStepIsScheduled, PTL DEF RegistrySpec, Spec

(* register and unregister keep the table and the processes in agreement,        *)
(* whatever exits in between: NamesAgree                                         *)
THEOREM TablesAgree == RegistrySpec => []NamesAgree
<1>1. RInv => NamesAgree
  BY DEF RInv
<1> QED BY <1>1, RegistrySafe, PTL

(* send_to_name and the timers reach the holder of the name only:                *)
(* OnlyTheHolderReceives                                                         *)
THEOREM HoldersReceive == RegistrySpec => OnlyTheHolderReceives
<1>1. ASSUME RInv, [RegistryNext]_registryVars, call' # call, call'.op \in {"send", "timer"},
             call'.result # NoProcess
      PROVE  registered[call'.name] = call'.result /\ Upgrades(call'.result)
  <2>1. ASSUME NEW n \in Name, SendToName(n)
        PROVE  registered[call'.name] = call'.result /\ Upgrades(call'.result)
    <3>1. call'.name = n /\ call'.result = IF registered_name[current] = n THEN current
                                           ELSE atom_to_process(n)
      BY <2>1 DEF SendToName
    <3>2. CASE registered_name[current] = n
      <4>1. current \in Process /\ Upgrades(current)
        BY <1>1, <2>1 DEF SendToName, RInv, IInv, Control, Upgrades
      <4> QED BY <1>1, <2>1, <3>1, <3>2, <4>1 DEF RInv, NamesAgree
    <3>3. CASE registered_name[current] # n
      BY <1>1, <3>1, <3>3, HolderFacts
    <3> QED BY <3>2, <3>3
  <2>2. ASSUME NEW n \in Name, TimerSendsToName(n)
        PROVE  registered[call'.name] = call'.result /\ Upgrades(call'.result)
    <3>1. call'.name = n /\ call'.result = atom_to_process(n)
      BY <2>2 DEF TimerSendsToName
    <3> QED BY <1>1, <3>1, HolderFacts
  <2>3. ASSUME NEW n \in Name, (\E p \in Process : Register(n, p)) \/ Unregister(n)
        PROVE  FALSE
    BY <1>1, <2>3 DEF Register, Unregister
  <2> QED BY <1>1, <2>1, <2>2, <2>3 DEF RegistryNext, registryVars, registry
<1>2. RInv /\ [RegistryNext]_registryVars =>
        [call' # call /\ call'.op \in {"send", "timer"} /\ call'.result # NoProcess =>
            /\ registered[call'.name] = call'.result
            /\ Upgrades(call'.result)]_registryVars
  BY <1>1
<1> QED BY <1>2, RegistrySafe, PTL DEF RegistrySpec, OnlyTheHolderReceives

(* Only unregister takes a name away: NamesAreNotTaken                           *)
THEOREM NamesStay == RegistrySpec => NamesAreNotTaken
<1>1. ASSUME RInv, [RegistryNext]_registryVars, NEW n \in names, registered[n]' # registered[n]
      PROVE  registered[n]' = NoProcess /\ call'.op = "unregister" /\ call'.name = n
  <2>0. registered \in [Name -> Process \cup {NoProcess}] /\ n \in Name
    BY <1>1 DEF RInv, RegistryTypeOK, names
  <2>1. ASSUME NEW m \in Name, NEW p \in Process, Register(m, p) PROVE FALSE
    BY <1>1, <2>0, <2>1 DEF Register, CanRegister
  <2>2. ASSUME NEW m \in Name, Unregister(m)
        PROVE  registered[n]' = NoProcess /\ call'.op = "unregister" /\ call'.name = n
    BY <1>1, <2>0, <2>2 DEF Unregister
  <2> QED
    BY <1>1, <2>1, <2>2 DEF RegistryNext, registryVars, registry, SendToName, TimerSendsToName
<1>2. RInv /\ [RegistryNext]_registryVars =>
        [\A n \in names : registered[n]' # registered[n] =>
            /\ registered[n]' = NoProcess
            /\ call'.op = "unregister" /\ call'.name = n]_registryVars
  BY <1>1
<1> QED BY <1>2, RegistrySafe, PTL DEF RegistrySpec, NamesAreNotTaken
===============================================================================
