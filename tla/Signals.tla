------------------------------- MODULE Signals -------------------------------
(* Links, monitors and the exit signals that travel along them, on top of     *)
(* Scheduling: runtimes/core/src/process.rs and process/monitor.rs, the link   *)
(* and monitor tables of a process, and the functions of the erlang module     *)
(* that change them (link, unlink, monitor, demonitor, process_flag, spawn).   *)
EXTENDS Scheduling, FiniteSets

CONSTANTS
    MaxReferences,  \* bound on the monitors that are ever created
    MonitorSelf     \* may a process monitor itself?

ASSUME ReferenceAssumption == MaxReferences \in Nat /\ MonitorSelf \in BOOLEAN

Reference == 0..(MaxReferences - 1)

VARIABLES
    linked,             \* Process.linked_pid_set
    monitored,          \* Process.monitored_pid_by_reference: what it monitors
    monitors,           \* Process.monitor_by_reference: who monitors it
    traps_exit,         \* Process.trap_exit
    exception,          \* the RuntimeException of Process.status
    mailbox,            \* the DOWN and EXIT messages of Process.mailbox
    next_reference,     \* Scheduler.reference_count
    to_notify,          \* entries of monitors that propagate_exit has yet to visit
    to_exit,            \* elements of linked that it has yet to visit
    flushed             \* history: references given up with demonitor and flush

tables == <<linked, monitored, monitors, traps_exit, exception, mailbox, next_reference, flushed>>
signals == <<tables, to_notify, to_exit>>
allVars == <<vars, signals>>

(* Messages, whose data is copied for the process that receives them *)
Down(r) == [tag |-> "DOWN", reference |-> r]
Exit(p) == [tag |-> "EXIT", from |-> p]
Message == {Down(r) : r \in Reference} \cup {Exit(p) : p \in Process}

(* An exception by its class and reason: an exit with reason normal, an error
   or a throw with reason normal, and any class with another reason *)
Raised == {"exit_normal", "error_normal", "abnormal"}
Exception == Raised \cup {"none"}

SignalsInit ==
    /\ Init
    /\ linked = [p \in Process |-> {}]
    /\ monitored = [p \in Process |-> {}]
    /\ monitors = [p \in Process |-> {}]
    /\ traps_exit = [p \in Process |-> FALSE]
    /\ exception = [p \in Process |-> "none"]
    /\ mailbox = [p \in Process |-> << >>]
    /\ next_reference = 0
    /\ to_notify = {} /\ to_exit = {}
    /\ flushed = {}

Push(p, message) == mailbox' = [mailbox EXCEPT ![p] = Append(@, message)]

-----------------------------------------------------------------------------
(* What the current process does.  link/1, which is an error when q is gone *)
LinkOneWay(p, q) == [linked EXCEPT ![p] = @ \cup {q}]
LinkedWith(p, q) == [linked EXCEPT ![p] = @ \cup {q}, ![q] = @ \cup {p}]

Link(q) ==
    /\ at = "running" /\ q # current /\ Upgrades(q)
    /\ linked' = LinkedWith(current, q)
    /\ UNCHANGED <<vars, monitored, monitors, traps_exit, exception, mailbox, next_reference,
                   to_notify, to_exit, flushed>>

(* unlink/1, which does nothing when q is gone *)
Unlink(q) ==
    /\ at = "running" /\ q # current /\ Upgrades(q)
    /\ linked' = [linked EXCEPT ![current] = @ \ {q}, ![q] = @ \ {current}]
    /\ UNCHANGED <<vars, monitored, monitors, traps_exit, exception, mailbox, next_reference,
                   to_notify, to_exit, flushed>>

(* process::monitor: the reference enters the tables of both processes *)
MonitoredHereOnly(p, q) ==
    /\ monitored' = [monitored EXCEPT ![p] = @ \cup {<<next_reference, q>>}]
    /\ UNCHANGED monitors
MonitoredWith(p, q) ==
    /\ monitored' = [monitored EXCEPT ![p] = @ \cup {<<next_reference, q>>}]
    /\ monitors' = [monitors EXCEPT ![q] = @ \cup {<<next_reference, p>>}]

(* monitor/2: for a process that is gone, a DOWN message at once *)
Monitor(q) ==
    /\ at = "running" /\ next_reference < MaxReferences
    /\ status[q] # "Unrunnable" /\ (q = current => MonitorSelf)
    /\ next_reference' = next_reference + 1
    /\ IF Upgrades(q)
       THEN MonitoredWith(current, q) /\ UNCHANGED mailbox
       ELSE Push(current, Down(next_reference)) /\ UNCHANGED <<monitored, monitors>>
    /\ UNCHANGED <<vars, linked, traps_exit, exception, to_notify, to_exit, flushed>>

(* Mailbox::flush: the oldest DOWN message with the reference goes *)
FlushNothing(messages, r) == messages
Flush(messages, r) ==
    LET IsDown(i) == messages[i].tag = "DOWN" /\ messages[i].reference = r
        found == {i \in 1..Len(messages) : IsDown(i)}
        first == CHOOSE i \in found : \A j \in found : i <= j
    IN  IF found = {} THEN messages
        ELSE SubSeq(messages, 1, first - 1) \o SubSeq(messages, first + 1, Len(messages))

(* demonitor/2 of a reference in the table of the process *)
DemonitorFound(r, flush) ==
    /\ at = "running"
    /\ \E q \in Process :
        /\ <<r, q>> \in monitored[current]
        /\ monitored' = [monitored EXCEPT ![current] = @ \ {<<r, q>>}]
        /\ monitors' = IF Upgrades(q)
                       THEN [monitors EXCEPT ![q] = @ \ {<<r, current>>}] ELSE monitors
    /\ IF flush
       THEN /\ mailbox' = [mailbox EXCEPT ![current] = Flush(@, r)]
            /\ flushed' = flushed \cup {r}
       ELSE UNCHANGED <<mailbox, flushed>>
    /\ UNCHANGED <<vars, linked, traps_exit, exception, next_reference, to_notify, to_exit>>

(* of one that is not: a second call, the monitor of another process, or one of
   a process that was gone.  Nothing is flushed, whatever the options. *)
DemonitorMissing(r) ==
    /\ at = "running" /\ r < next_reference
    /\ \A q \in Process : <<r, q>> \notin monitored[current]
    /\ UNCHANGED allVars

Demonitor(r, flush) == DemonitorFound(r, flush) \/ DemonitorMissing(r)

(* process_flag(trap_exit, flag) *)
TrapExit(flag) ==
    /\ at = "running" /\ traps_exit[current] # flag
    /\ traps_exit' = [traps_exit EXCEPT ![current] = flag]
    /\ UNCHANGED <<vars, linked, monitored, monitors, exception, mailbox, next_reference,
                   to_notify, to_exit, flushed>>

(* spawn_opt: Options::connect before the child is scheduled *)
SpawnConnected(child, option, link, monitor) ==
    /\ Spawn(child, option)
    /\ linked' = IF link THEN LinkedWith(current, child) ELSE linked
    /\ IF monitor
       THEN /\ next_reference < MaxReferences
            /\ next_reference' = next_reference + 1
            /\ MonitoredWith(current, child)
       ELSE UNCHANGED <<next_reference, monitored, monitors>>
    /\ UNCHANGED <<traps_exit, exception, mailbox, to_notify, to_exit, flushed>>

(* exit/1, error/1, throw/1 or any other exception *)
RaiseReason(raised) ==
    /\ Raise
    /\ exception' = [exception EXCEPT ![current] = raised]
    /\ UNCHANGED <<linked, monitored, monitors, traps_exit, mailbox, next_reference,
                   to_notify, to_exit, flushed>>

-----------------------------------------------------------------------------
(* propagate_exit: the exceptions that travel along links.  Only class exit with
   reason normal is expected; Process::exit makes the reason that travels an
   exit, so that an error with reason normal arrives as an expected exit. *)
IsExpected(p) == status[p] = "Exited" \/ exception[p] = "exit_normal"
AsExit(raised) == IF raised \in {"exit_normal", "error_normal"} THEN "exit_normal" ELSE "abnormal"

ExitsToAllLinked(p) == linked[p]
ExitsTo(p) == IF IsExpected(p) THEN {} ELSE linked[p]

RequeueSignals ==
    /\ Requeue
    /\ IF at' = "propagate"
       THEN /\ to_notify' = monitors[current]
            /\ to_exit' = ExitsTo(current)
       ELSE UNCHANGED <<to_notify, to_exit>>
    /\ UNCHANGED tables

(* monitor::propagate_exit for one entry: the DOWN message, then stop_waiting.
   run_once still reads the status of the exiting process, so stop_waiting,
   which writes the status, never returns when it is for that process. *)
NotifyMonitor(r, m) ==
    /\ at = "propagate" /\ <<r, m>> \in to_notify
    /\ to_notify' = to_notify \ {<<r, m>>}
    /\ IF Upgrades(m)
       THEN /\ Push(m, Down(r))
            /\ IF m = current
               THEN at' = "blocked" /\ UNCHANGED <<status, priority, run_queues, current, panicked>>
               ELSE Notify(m)
       ELSE UNCHANGED <<vars, mailbox>>
    /\ UNCHANGED <<linked, monitored, monitors, traps_exit, exception, next_reference,
                   to_exit, flushed>>

(* propagate_exit_to_links for one process: a message if it traps exits, else
   its exit, which replaces the exception it may already have *)
SignalLink(q) ==
    /\ at = "propagate" /\ to_notify = {} /\ q \in to_exit
    /\ to_exit' = to_exit \ {q}
    /\ CASE ~Upgrades(q) -> UNCHANGED <<vars, mailbox, exception>>
         [] Upgrades(q) /\ traps_exit[q] ->
                /\ Push(q, Exit(current))
                /\ Notify(q)
                /\ UNCHANGED exception
         [] Upgrades(q) /\ ~traps_exit[q] ->
                /\ ExitLinked(q)
                /\ exception' = [exception EXCEPT ![q] = AsExit(exception[current])]
                /\ UNCHANGED mailbox
    /\ UNCHANGED <<linked, monitored, monitors, traps_exit, next_reference, to_notify, flushed>>

(* run_once returns, and the process is dropped with its tables, its status and its
   flags *)
PropagatedSignals ==
    /\ Propagated /\ to_notify = {} /\ to_exit = {}
    /\ linked' = [linked EXCEPT ![current] = {}]
    /\ monitored' = [monitored EXCEPT ![current] = {}]
    /\ monitors' = [monitors EXCEPT ![current] = {}]
    /\ mailbox' = [mailbox EXCEPT ![current] = << >>]
    /\ exception' = [exception EXCEPT ![current] = "none"]
    /\ traps_exit' = [traps_exit EXCEPT ![current] = FALSE]
    /\ UNCHANGED <<next_reference, to_notify, to_exit, flushed>>

-----------------------------------------------------------------------------
SignalsNext ==
    \/ \E q \in Process : Link(q)
    \/ \E q \in Process : Unlink(q)
    \/ \E q \in Process : Monitor(q)
    \/ \E r \in Reference, flush \in BOOLEAN : Demonitor(r, flush)
    \/ \E flag \in BOOLEAN : TrapExit(flag)
    \/ \E p \in Process, option \in SpawnPriorities, link, monitor \in BOOLEAN :
            SpawnConnected(p, option, link, monitor)
    \/ \E raised \in Raised : RaiseReason(raised)
    \/ RequeueSignals
    \/ \E r \in Reference, m \in Process : NotifyMonitor(r, m)
    \/ \E q \in Process : SignalLink(q)
    \/ PropagatedSignals
    \/ /\ \/ \E p \in Process : TimerWakes(p) \/ Wake(p)
          \/ TimeoutReturns
          \/ Dequeue \/ DequeueDelayed \/ DequeueWaiting \/ DequeueNone
          \/ Reduced \/ Wait \/ ExitNormal
          \/ Stopped
       /\ UNCHANGED signals

SignalsSpec == SignalsInit /\ [][SignalsNext]_allVars

-----------------------------------------------------------------------------
SignalsTypeOK ==
    /\ linked \in [Process -> SUBSET Process]
    /\ monitored \in [Process -> SUBSET (Reference \X Process)]
    /\ monitors \in [Process -> SUBSET (Reference \X Process)]
    /\ traps_exit \in [Process -> BOOLEAN] /\ exception \in [Process -> Exception]
    /\ mailbox \in [Process -> Seq(Message)]
    /\ next_reference \in 0..MaxReferences
    /\ to_notify \subseteq Reference \X Process /\ to_exit \subseteq Process
    /\ flushed \subseteq Reference

(* Two processes that are both there agree on being linked, whichever of them
   called link or unlink, or was spawned with a link. *)
LinksAgree ==
    \A p, q \in Process :
        Upgrades(p) /\ Upgrades(q) => (q \in linked[p] <=> p \in linked[q])

Downs(p, r) ==
    Cardinality({i \in 1..Len(mailbox[p]) :
                    mailbox[p][i].tag = "DOWN" /\ mailbox[p][i].reference = r})

(* Every monitor fires exactly once: there is no DOWN message for it while the
   monitored process is there, and exactly one from its exit on, however exits,
   new monitors and demonitor calls interleave. *)
OneDownForEachMonitor ==
    \A p, q \in Process : \A r \in Reference :
        Upgrades(p) /\ <<r, q>> \in monitored[p] =>
            Downs(p, r) = IF \/ ~Upgrades(q)
                             \/ q = current /\ at = "propagate" /\ <<r, p>> \notin to_notify
                          THEN 1 ELSE 0

(* After demonitor with flush of a monitor that is in the table of the process,
   no DOWN message of that monitor is in a mailbox, also when the monitored
   process exits later. *)
FlushedIsGone ==
    \A r \in flushed, p \in Process : Downs(p, r) = 0

(* When the exit of a process with an exception other than exit:normal has
   been propagated, every process that is linked to it is exiting as well, or
   traps exits and has its EXIT message, whichever of the two made the link. *)
ExitReachesLinked ==
    [][at = "propagate" /\ at' = "timeout" /\ ~IsExpected(current) =>
        \A q \in Process \ {current} : Upgrades(q) /\ current \in linked[q] =>
            \/ is_exiting(q)
            \/ \E i \in 1..Len(mailbox[q]) :
                    mailbox[q][i].tag = "EXIT" /\ mailbox[q][i].from = current]_allVars

(* Nothing else makes a process exit: a process only ever starts to exit by
   itself or because a process that it is linked to does. *)
ExitComesFromLinked ==
    [][\A q \in Process : ~is_exiting(q) /\ is_exiting(q)' =>
        \/ q = current /\ at = "running"
        \/ q \in linked[current] /\ at = "propagate" /\ ~IsExpected(current)]_allVars

(* A process that has been told to exit by an exception goes on exiting, and its
   exception stays one that travels to the processes linked to it, whatever exit
   signals and wake-ups come before it is run again.  One thing alone can take
   that back: a linked process that propagates an error or a throw with reason
   normal, whose exit replaces the exception by an expected one. *)
AbnormalExitStays ==
    [][\A q \in Process : is_exiting(q) /\ ~IsExpected(q) =>
            /\ is_exiting(q)'
            /\ IsExpected(q)' =>
                    /\ at = "propagate" /\ q \in to_exit /\ ~traps_exit[q]
                    /\ exception[current] = "error_normal"]_allVars

(* propagate_exit can call stop_waiting for any linked or monitoring process
   and returns (the comments at runtimes/full/src/scheduler.rs:203 and
   runtimes/minimal/src/scheduler.rs:471). *)
PropagationNeverBlocks == at # "blocked"
=============================================================================
