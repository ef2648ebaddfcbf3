------------------------------ MODULE RunQueues ------------------------------
(* The run queues of one scheduler, runtimes/core/src/scheduler/run_queue.rs:  *)
(* the processes that wait, one queue shared by the priorities normal and low, *)
(* where a low process is passed over LowDelay times before it runs, and one   *)
(* queue for each of the priorities high and max.                              *)
EXTENDS Naturals, Sequences

CONSTANTS
    Process,    \* the processes that can ever be spawned
    LowDelay    \* turns a process of low priority is passed over (7 in the code)

ASSUME LowDelayAssumption == LowDelay \in Nat

Priority == {"low", "normal", "high", "max"}

DelayedProcess == [process : Process, delay : 0..LowDelay]

Queues == [waiting : SUBSET Process, normal_low : Seq(DelayedProcess),
           high : Seq(Process), max : Seq(Process)]

EmptyQueues == [waiting |-> {}, normal_low |-> << >>, high |-> << >>, max |-> << >>]

(* DelayedProcess::priority_to_delay *)
priority_to_delay(priority) == IF priority = "low" THEN LowDelay ELSE 0

(* Queues::enqueue: at the back of the queue of the process's priority *)
enqueue(q, p, priority) ==
    IF priority = "max" THEN [q EXCEPT !.max = Append(@, p)]
    ELSE IF priority = "high" THEN [q EXCEPT !.high = Append(@, p)]
    ELSE [q EXCEPT !.normal_low =
            Append(@, [process |-> p, delay |-> priority_to_delay(priority)])]

(* Queues::dequeue, in two parts: what it answers, and the queues it leaves *)
DelayedHead(q) == q.normal_low[1]

Dequeued(q) ==
    IF q.max # << >> THEN "Now"
    ELSE IF q.high # << >> THEN "Now"
    ELSE IF q.normal_low # << >>
         THEN IF DelayedHead(q).delay = 0 THEN "Now" ELSE "Delayed"
    ELSE IF q.waiting # {} THEN "Waiting"
    ELSE "None"

DequeuedProcess(q) ==
    IF q.max # << >> THEN q.max[1]
    ELSE IF q.high # << >> THEN q.high[1]
    ELSE DelayedHead(q).process

AfterDequeueSameDelay(q) ==
    IF q.max # << >> THEN [q EXCEPT !.max = Tail(@)]
    ELSE IF q.high # << >> THEN [q EXCEPT !.high = Tail(@)]
    ELSE IF DelayedHead(q).delay = 0 THEN [q EXCEPT !.normal_low = Tail(@)]
    ELSE [q EXCEPT !.normal_low = Append(Tail(@), DelayedHead(q))]
AfterDequeue(q) ==
    IF q.max # << >> THEN [q EXCEPT !.max = Tail(@)]
    ELSE IF q.high # << >> THEN [q EXCEPT !.high = Tail(@)]
    ELSE IF DelayedHead(q).delay = 0 THEN [q EXCEPT !.normal_low = Tail(@)]
    ELSE [q EXCEPT !.normal_low =
            Append(Tail(@), [DelayedHead(q) EXCEPT !.delay = @ - 1])]

(* Queues::stop_waiting: from the waiting processes to the back of a queue *)
StopWaitingTwice(q, p, priority) == IF p \in q.waiting THEN enqueue(q, p, priority) ELSE q
stop_waiting(q, p, priority) ==
    IF p \in q.waiting
    THEN enqueue([q EXCEPT !.waiting = @ \ {p}], p, priority)
    ELSE q

-----------------------------------------------------------------------------
(* Where a process is in the queues *)
InDelayed(p, q) == \E i \in 1..Len(q.normal_low) : q.normal_low[i].process = p
InHigh(p, q) == \E i \in 1..Len(q.high) : q.high[i] = p
InMax(p, q) == \E i \in 1..Len(q.max) : q.max[i] = p
InRunQueue(p, q) == InDelayed(p, q) \/ InHigh(p, q) \/ InMax(p, q)

(* No run queue holds a process twice, and no two of them hold the same one *)
NoDuplicates(q) ==
    /\ \A i, j \in 1..Len(q.normal_low) :
            q.normal_low[i].process = q.normal_low[j].process => i = j
    /\ \A i, j \in 1..Len(q.high) : q.high[i] = q.high[j] => i = j
    /\ \A i, j \in 1..Len(q.max) : q.max[i] = q.max[j] => i = j
    /\ \A p \in Process : /\ ~(InDelayed(p, q) /\ InHigh(p, q))
                          /\ ~(InDelayed(p, q) /\ InMax(p, q))
                          /\ ~(InHigh(p, q) /\ InMax(p, q))
=============================================================================
