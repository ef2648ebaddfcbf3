---------------------------- MODULE TinyScheduler ----------------------------
(* The scheduler of the tiny runtime: runtimes/tiny/src/scheduler/mod.rs with   *)
(* its run queue, queue.rs, and the main loop of lib.rs.  The runtime spawns    *)
(* one process, init.  The root process is the scheduler itself: it is current  *)
(* while the scheduler loop runs, and prev while a process runs.                *)
EXTENDS Naturals, Sequences

CONSTANTS InitProcess, Root, NoProcess

VARIABLES
    status,                 \* Process.status
    scheduled, visited,     \* RunQueue
    current, prev,          \* Scheduler.current, Scheduler.prev
    halt_code,              \* Scheduler.halt_code
    at                      \* "loop", "running", "yielded", "signals", "panicked" or "stopped"

vars == <<status, scheduled, visited, current, prev, halt_code, at>>

(* Scheduler::new, then spawn_init *)
Init ==
    /\ status = [p \in {InitProcess, Root} |-> IF p = Root THEN "Running" ELSE "Runnable"]
    /\ scheduled = <<InitProcess>> /\ visited = << >>
    /\ current = Root /\ prev = NoProcess
    /\ halt_code = 0
    /\ at = "loop"

(* RunQueue::next: a new cycle starts when all have been visited *)
Cycle == IF scheduled = << >> THEN visited ELSE scheduled

(* swap_current: the current process is Runnable from now on, if it is Running *)
Suspended(st, p) == [st EXCEPT ![p] = IF @ = "Running" THEN "Runnable" ELSE @]

(* scheduler_yield: swap_process to the next process, if there is one *)
SwapProcess ==
    /\ at = "loop" /\ Cycle # << >>
    /\ scheduled' = Tail(Cycle)
    /\ visited' = IF scheduled = << >> THEN << >> ELSE visited
    /\ status' = Suspended([status EXCEPT ![Head(Cycle)] = "Running"], current)
    /\ current' = Head(Cycle) /\ prev' = current
    /\ at' = "running"
    /\ UNCHANGED halt_code

NothingScheduled ==
    /\ at = "loop" /\ Cycle = << >>
    /\ at' = "stopped"
    /\ UNCHANGED <<status, scheduled, visited, current, prev, halt_code>>

(* process_yield: back to the stack of the scheduler *)
Yield ==
    /\ at = "running" /\ at' = "yielded"
    /\ UNCHANGED <<status, scheduled, visited, current, prev, halt_code>>

(* process_exit, normal or with an exception, then process_yield *)
ProcessExit(s) ==
    /\ at = "running" /\ at' = "yielded"
    /\ status' = [status EXCEPT ![current] = s]
    /\ UNCHANGED <<scheduled, visited, current, prev, halt_code>>

(* scheduler_yield after the swap: swap_current, take_prev, and the match on the
   status of the process that yielded *)
SwappedBack ==
    /\ at = "yielded"
    /\ status' = Suspended(status, current)
    /\ current' = prev /\ prev' = NoProcess
    /\ visited' = IF status'[current] = "Running" THEN Append(visited, current) ELSE visited
    /\ halt_code' = CASE status'[current] = "Exiting" -> 0
                      [] status'[current] = "Errored" -> 1
                      [] OTHER -> halt_code
    /\ at' = IF status'[current] \in {"Running", "Exiting", "Errored"} THEN "signals" ELSE "panicked"
    /\ UNCHANGED scheduled

(* The main loop then looks for a signal, which may end the runtime *)
CheckSignals ==
    /\ at = "signals" /\ at' \in {"loop", "stopped"}
    /\ UNCHANGED <<status, scheduled, visited, current, prev, halt_code>>

Next ==
    \/ SwapProcess \/ NothingScheduled
    \/ Yield \/ ProcessExit("Exiting") \/ ProcessExit("Errored")
    \/ SwappedBack
    \/ CheckSignals

Spec == Init /\ [][Next]_vars

-----------------------------------------------------------------------------
(* A process that yields, and is not exiting, is rescheduled: the comments of
   swap_current (mod.rs:170) and process_yield (mod.rs:308). *)
YieldingIsRescheduled ==
    [][at = "yielded" /\ status[current] = "Running" =>
        \E i \in 1..Len(visited') : visited'[i] = current]_vars
=============================================================================
