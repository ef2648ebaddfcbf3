------------------------------ MODULE Scheduling -----------------------------
(* One scheduler thread and its processes: the status of each process         *)
(* (liblumen_alloc erts/process.rs), the run queues, and Scheduler::run_once   *)
(* of runtimes/full, which Scheduler::scheduler_yield of runtimes/minimal      *)
(* repeats.  Every main of the repository starts one scheduler thread.         *)
(*                                                                             *)
(* What a process computes is left out, and so is to whom it is linked and     *)
(* who monitors it: here any process may be notified or told to exit when      *)
(* another one exits.  Signals adds that state.                                *)
EXTENDS RunQueues

CONSTANTS
    InitProcess,        \* the process that spawn_init creates
    NoProcess,          \* no current process
    SpawnPriorities     \* the values of the priority option of spawn

ASSUME ProcessAssumption ==
    /\ InitProcess \in Process /\ NoProcess \notin Process
    /\ SpawnPriorities \subseteq Priority \cup {"inherited"}

VARIABLES
    status,         \* Process.status
    priority,       \* Process.priority
    run_queues,     \* Scheduler.run_queues
    current,        \* CURRENT_PROCESS, and the Arc that run_once holds
    at,             \* where run_once is
    panicked        \* an assert! or an unreachable! was reached

vars == <<status, priority, run_queues, current, at, panicked>>

Status == {"Unrunnable", "Runnable", "Running", "Waiting", "Exited", "RuntimeException"}

At == {"timeout", "dequeue", "running", "requeue", "propagate", "stopped"}

(* Process::is_exiting *)
is_exiting(p) == status[p] \in {"Exited", "RuntimeException"}

(* Only the run queues and run_once own a process: a pid can be turned into a
   process (registry::pid_to_process) just as long as one of them has it. *)
Queued(p) == InRunQueue(p, run_queues) \/ p \in run_queues.waiting
Upgrades(p) == Queued(p) \/ p = current

Init ==
    /\ status = [p \in Process |-> IF p = InitProcess THEN "Runnable" ELSE "Unrunnable"]
    /\ priority = [p \in Process |-> "normal"]
    /\ run_queues = enqueue(EmptyQueues, InitProcess, "normal")
    /\ current = NoProcess
    /\ at = "timeout"
    /\ panicked = FALSE

-----------------------------------------------------------------------------
(* Scheduler::stop_waiting: Process::stop_waiting, then Queues::stop_waiting *)
StopWaiting(p) ==
    /\ status' = [status EXCEPT ![p] = IF @ = "Waiting" THEN "Runnable" ELSE @]
    /\ run_queues' = stop_waiting(run_queues, p, priority[p])

(* Process::exit from outside of the process, then Scheduler::stop_waiting *)
ExitOtherAsleep(p) ==
    /\ status' = [status EXCEPT ![p] = "RuntimeException"]
    /\ UNCHANGED run_queues
ExitOther(p) ==
    /\ status' = [status EXCEPT ![p] = "RuntimeException"]
    /\ run_queues' = stop_waiting(run_queues, p, priority[p])

-----------------------------------------------------------------------------
(* run_once: hierarchy.timeout(), where each timer that fires may wake a
   process that is still there *)
TimerWakes(p) ==
    /\ at = "timeout" /\ Upgrades(p)
    /\ StopWaiting(p)
    /\ UNCHANGED <<priority, current, at, panicked>>

TimeoutReturns ==
    /\ at = "timeout"
    /\ at' = "dequeue"
    /\ UNCHANGED <<status, priority, run_queues, current, panicked>>

(* run_once: Run::Now.  A process that is exiting does not run again. *)
RunsAlways(p) == TRUE
Runs(p) == ~is_exiting(p)

Dequeue ==
    /\ at = "dequeue" /\ Dequeued(run_queues) = "Now"
    /\ LET p == DequeuedProcess(run_queues) IN
        /\ current' = p
        /\ IF Runs(p)
           THEN /\ status' = [status EXCEPT ![p] = "Running"]
                /\ at' = "running"
           ELSE /\ UNCHANGED status
                /\ at' = "requeue"
    /\ run_queues' = AfterDequeue(run_queues)
    /\ UNCHANGED <<priority, panicked>>

(* run_once: Run::Delayed, look at the next process *)
DequeueDelayed ==
    /\ at = "dequeue" /\ Dequeued(run_queues) = "Delayed"
    /\ run_queues' = AfterDequeue(run_queues)
    /\ UNCHANGED <<status, priority, current, at, panicked>>

(* run_once: Run::Waiting, and the main loop calls run_once again *)
DequeueWaiting ==
    /\ at = "dequeue" /\ Dequeued(run_queues) = "Waiting"
    /\ at' = "timeout"
    /\ UNCHANGED <<status, priority, run_queues, current, panicked>>

(* run_once: Run::None, and the main loop ends *)
DequeueNone ==
    /\ at = "dequeue" /\ Dequeued(run_queues) = "None"
    /\ at' = "stopped"
    /\ UNCHANGED <<status, priority, run_queues, current, panicked>>

-----------------------------------------------------------------------------
(* The current process runs.  Scheduler::spawn_*: the child becomes runnable
   and is scheduled where its parent is. *)
cascaded_priority(option) == IF option = "inherited" THEN priority[current] ELSE option

Spawn(child, option) ==
    /\ at = "running" /\ status[child] = "Unrunnable"
    /\ status' = [status EXCEPT ![child] = "Runnable"]
    /\ priority' = [priority EXCEPT ![child] = cascaded_priority(option)]
    /\ run_queues' = enqueue(run_queues, child, cascaded_priority(option))
    /\ UNCHANGED <<current, at, panicked>>

(* Sending to another process (send, timers, monitors) wakes it *)
Wake(p) ==
    /\ at = "running" /\ Upgrades(p) /\ p # current
    /\ StopWaiting(p)
    /\ UNCHANGED <<priority, current, at, panicked>>

(* Process::run returns: the process used up its reductions, waits, exits, or
   ends with an exception.  stop_running makes it runnable if it still runs. *)
StopRunningNever(s) == s
StopRunning(s) == IF s = "Running" THEN "Runnable" ELSE s

Return(s) ==
    /\ at = "running"
    /\ status' = [status EXCEPT ![current] = StopRunning(s)]
    /\ at' = "requeue"
    /\ UNCHANGED <<priority, run_queues, current, panicked>>

Reduced == Return("Running")
Wait == Return("Waiting")
ExitNormal == Return("Exited")
Raise == Return("RuntimeException")

-----------------------------------------------------------------------------
(* Queues::requeue, with Next::from_status *)
Requeue ==
    /\ at = "requeue"
    /\ CASE status[current] = "Runnable" ->
                /\ run_queues' = enqueue(run_queues, current, priority[current])
                /\ at' = "timeout" /\ current' = NoProcess
                /\ UNCHANGED panicked
         [] status[current] = "Waiting" ->
                /\ run_queues' = [run_queues EXCEPT !.waiting = @ \cup {current}]
                /\ at' = "timeout" /\ current' = NoProcess
                /\ UNCHANGED panicked
         [] is_exiting(current) ->
                /\ at' = "propagate"
                /\ UNCHANGED <<run_queues, current, panicked>>
         [] OTHER ->
                /\ at' = "stopped" /\ panicked' = TRUE
                /\ UNCHANGED <<run_queues, current>>
    /\ UNCHANGED <<status, priority>>

(* propagate_exit, one process at a time: a process that monitors the exiting
   one is woken, ... *)
Notify(p) ==
    /\ at = "propagate" /\ Upgrades(p) /\ p # current
    /\ StopWaiting(p)
    /\ UNCHANGED <<priority, current, at, panicked>>

(* ... and a process that is linked to one with an exception is told to exit *)
ExitLinked(p) ==
    /\ at = "propagate" /\ Upgrades(p) /\ p # current
    /\ status[current] = "RuntimeException"
    /\ ExitOther(p)
    /\ UNCHANGED <<priority, current, at, panicked>>

(* run_once returns, and with it goes the last Arc of the process *)
Propagated ==
    /\ at = "propagate"
    /\ at' = "timeout" /\ current' = NoProcess
    /\ UNCHANGED <<status, priority, run_queues, panicked>>

(* The main loop has ended: nothing was left to run *)
Stopped ==
    /\ at = "stopped" /\ ~panicked
    /\ UNCHANGED vars

-----------------------------------------------------------------------------
Next ==
    \/ \E p \in Process : TimerWakes(p)
    \/ TimeoutReturns
    \/ Dequeue \/ DequeueDelayed \/ DequeueWaiting \/ DequeueNone
    \/ \E p \in Process, option \in SpawnPriorities : Spawn(p, option)
    \/ \E p \in Process : Wake(p)
    \/ Reduced \/ Wait \/ ExitNormal \/ Raise
    \/ Requeue
    \/ \E p \in Process : Notify(p)
    \/ \E p \in Process : ExitLinked(p)
    \/ Propagated
    \/ Stopped

Spec == Init /\ [][Next]_vars

(* The scheduler thread goes on with run_once, and a process returns to it
   when its reductions are used up, if not before *)
FairSpec ==
    /\ Spec
    /\ WF_vars(TimeoutReturns)
    /\ WF_vars(Dequeue) /\ WF_vars(DequeueDelayed) /\ WF_vars(DequeueWaiting)
    /\ WF_vars(Reduced \/ Wait \/ ExitNormal \/ Raise)
    /\ WF_vars(Requeue) /\ WF_vars(Propagated)

-----------------------------------------------------------------------------
TypeOK ==
    /\ status \in [Process -> Status]
    /\ priority \in [Process -> Priority]
    /\ run_queues \in Queues
    /\ current \in Process \cup {NoProcess}
    /\ at \in At
    /\ panicked \in BOOLEAN

(* No process is ever lost or scheduled twice: while it has not exited, a
   spawned process is in exactly one of the run queues, the waiting processes
   and the hands of run_once, and once there only. *)
InOnePlace ==
    /\ NoDuplicates(run_queues)
    /\ \A p \in Process :
        /\ ~(InRunQueue(p, run_queues) /\ p \in run_queues.waiting)
        /\ p = current => ~Queued(p)
        /\ status[p] \in {"Runnable", "Running", "Waiting"} => Upgrades(p)
        /\ status[p] = "Unrunnable" => ~Upgrades(p)

(* The status of a process and its place agree: whatever is in a run queue can
   be run or has its exit still to propagate, and only processes that wait are
   with the waiting ones, so none of them misses its exit or its wake-up. *)
StatusMatchesPlace ==
    \A p \in Process :
        /\ InRunQueue(p, run_queues) => status[p] \in {"Runnable", "RuntimeException"}
        /\ p \in run_queues.waiting <=> status[p] = "Waiting" /\ p # current
        /\ status[p] = "Running" <=> p = current /\ at = "running"

(* requeue never sees a status that it calls unreachable. *)
NothingUnreachable == ~panicked

(* A process that is exiting never runs again, whoever wakes it. *)
ExitIsFinal ==
    [][\A p \in Process : is_exiting(p) => is_exiting(p)']_vars

(* A process in a run queue leaves it in the end, unless processes of a higher
   priority keep the scheduler busy: a low process is passed over only so
   often. *)
HigherPriority(p) ==
    IF priority[p] = "max" THEN {}
    ELSE IF priority[p] = "high" THEN {"max"} ELSE {"high", "max"}

EventuallyDequeued ==
    \A p \in Process :
        []<>(\/ ~InRunQueue(p, run_queues)
             \/ \E q \in Process : /\ priority[q] \in HigherPriority(p)
                                   /\ InRunQueue(q, run_queues) \/ q = current)

(* A process that was told to exit propagates its own exit and is released in
   the end, under the same condition. *)
ExitIsPropagated ==
    \A p \in Process :
        []<>(\/ ~(is_exiting(p) /\ Upgrades(p))
             \/ \E q \in Process : /\ priority[q] \in HigherPriority(p)
                                   /\ InRunQueue(q, run_queues) \/ q = current)
=============================================================================
