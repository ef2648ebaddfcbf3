------------------------------- MODULE Receive -------------------------------
(* The receive state machine of runtimes/minimal/src/builtins/receive.rs, for   *)
(* one process, with its mailbox (liblumen_alloc mailbox.rs), its timer and the *)
(* scheduler that suspends and resumes it.                                      *)
(*                                                                              *)
(* A message is its address in the arena of the mailbox, so the cursor of the   *)
(* receive context, a pointer, is a message or Null.  Which messages a receive  *)
(* matches is the program's choice.  All processes of a scheduler share one     *)
(* thread, so another process sends, and timers time out, only while this one   *)
(* is not running.                                                              *)
EXTENDS Naturals, Sequences

CONSTANTS
    Message,        \* the messages that are ever sent
    Null,
    Timeouts,       \* the `after` values: milliseconds, or Infinity
    Infinity,
    U64Max,         \* u64::MAX
    MaxClock         \* bound: last value of the monotonic clock

ASSUME MessageAssumption == Null \notin Message
ASSUME TimeoutsAssumption ==
    /\ Infinity \notin Nat /\ Timeouts \subseteq Nat \cup {Infinity}
    /\ MaxClock \in Nat /\ U64Max \in Nat \ {0}
    /\ \A d \in Timeouts \ {Infinity} : MaxClock + d < U64Max

VARIABLES
    clock,            \* monotonic::time()
    mailbox,        \* Mailbox.messages, oldest first
    unsent,         \* messages not sent yet
    status,         \* Process.status
    at,             \* what the compiled receive does next
    message,        \* ReceiveContext.message, the cursor
    receive_timeout,    \* ReceiveContext.timeout
    timer,          \* ReceiveContext.timer_reference: the deadline, or Null
    pending,        \* deadlines of the timers of this process that have yet to fire
    pattern,        \* the messages that match a clause of the receive
    timeout,        \* history: its `after` value
    started         \* history: when it began

context == <<message, receive_timeout, timer>>
history == <<pattern, timeout, started>>
vars == <<clock, mailbox, unsent, status, at, context, pending, history>>

Init ==
    /\ clock = 0
    /\ mailbox = << >> /\ unsent = Message
    /\ status = "Running" /\ at = "idle"
    /\ message = Null /\ receive_timeout = 0 /\ timer = Null
    /\ pending = {}
    /\ pattern = {} /\ timeout = Infinity /\ started = 0

(* ReceiveTimeout: 0 is immediate, u64::MAX is infinity *)
Immediate == 0
ReceiveTimeout(d) ==
    IF d = 0 THEN Immediate ELSE IF d = Infinity THEN U64Max ELSE clock + d

IsTimedOutEarly == receive_timeout # U64Max /\ receive_timeout <= clock + 1
IsTimedOut ==
    \/ receive_timeout = Immediate
    \/ receive_timeout # U64Max /\ receive_timeout <= clock

-----------------------------------------------------------------------------
(* builtin_receive_start: the context, and a timer if there is a deadline (which
   is bounded, so that the clock gets there) *)
ReceiveStart(p, d) ==
    /\ status = "Running" /\ at = "idle"
    /\ d # Infinity => clock + d <= MaxClock
    /\ receive_timeout' = ReceiveTimeout(d)
    /\ message' = Null
    /\ IF receive_timeout' \in {Immediate, U64Max}
       THEN timer' = Null /\ UNCHANGED pending
       ELSE timer' = receive_timeout' /\ pending' = pending \cup {receive_timeout'}
    /\ at' = "next"
    /\ pattern' = p /\ timeout' = d /\ started' = clock
    /\ UNCHANGED <<clock, mailbox, unsent, status>>

(* ReceiveContext::cancel_timer: a timer that has fired is not an error *)
CancelNothing == timer' = Null /\ UNCHANGED pending
CancelTimer == timer' = Null /\ pending' = pending \ {timer}

(* builtin_receive_next: the oldest message at first, then the one that came
   after the cursor *)
IndexOf(m) == CHOOSE i \in 1..Len(mailbox) : mailbox[i] = m
NextIndex == IF message = Null THEN 1 ELSE IndexOf(message) + 1

ReceiveNextPeek ==
    /\ status = "Running" /\ at = "next"
    /\ NextIndex <= Len(mailbox)
    /\ message' = mailbox[NextIndex]
    /\ at' = "peek"
    /\ UNCHANGED <<clock, mailbox, unsent, status, receive_timeout, timer, pending, history>>

ReceiveNextTimeout ==
    /\ status = "Running" /\ at = "next"
    /\ NextIndex > Len(mailbox)
    /\ IsTimedOut
    /\ CancelTimer
    /\ at' = "done"
    /\ UNCHANGED <<clock, mailbox, unsent, status, message, receive_timeout, history>>

ReceiveNextWait ==
    /\ status = "Running" /\ at = "next"
    /\ NextIndex > Len(mailbox)
    /\ ~IsTimedOut
    /\ status' = "Waiting"
    /\ UNCHANGED <<clock, mailbox, unsent, at, context, pending, history>>

(* Compiled code: does the peeked message match? *)
Peek ==
    /\ status = "Running" /\ at = "peek"
    /\ at' = IF message \in pattern THEN "pop" ELSE "next"
    /\ UNCHANGED <<clock, mailbox, unsent, status, context, pending, history>>

(* builtin_receive_pop: Mailbox::remove of the message at the cursor *)
Remove(m) == SubSeq(mailbox, 1, IndexOf(m) - 1) \o SubSeq(mailbox, IndexOf(m) + 1, Len(mailbox))

ReceivePop ==
    /\ status = "Running" /\ at = "pop"
    /\ mailbox' = Remove(message)
    /\ message' = Null
    /\ at' = "done"
    /\ UNCHANGED <<clock, unsent, status, receive_timeout, timer, pending, history>>

ReceiveDone ==
    /\ status = "Running" /\ at = "done"
    /\ CancelTimer
    /\ at' = "idle"
    /\ UNCHANGED <<clock, mailbox, unsent, status, message, receive_timeout, history>>

-----------------------------------------------------------------------------
ClockAdvances ==
    /\ clock < MaxClock
    /\ clock' = clock + 1
    /\ UNCHANGED <<mailbox, unsent, status, at, context, pending, history>>

(* builtin_send to itself, which the program does outside of a receive *)
SendFromSelf(m) ==
    /\ status = "Running" /\ at = "idle" /\ m \in unsent
    /\ mailbox' = Append(mailbox, m) /\ unsent' = unsent \ {m}
    /\ UNCHANGED <<clock, status, at, context, pending, history>>

(* Process::stop_waiting *)
StopWaitingNever == UNCHANGED status
StopWaiting == status' = IF status = "Waiting" THEN "Runnable" ELSE status

(* builtin_send of another process, or a monitor or link message: Mailbox::push,
   then stop_waiting *)
SendFromOther(m) ==
    /\ status # "Running" /\ m \in unsent
    /\ mailbox' = Append(mailbox, m) /\ unsent' = unsent \ {m}
    /\ StopWaiting
    /\ UNCHANGED <<clock, at, context, pending, history>>

(* Hierarchy::timeout, which fires no timer early *)
TimerTimesOut(t) ==
    /\ status # "Running" /\ t \in pending /\ t <= clock
    /\ pending' = pending \ {t}
    /\ StopWaiting
    /\ UNCHANGED <<clock, mailbox, unsent, at, context, history>>

(* The process uses up its reductions outside of a receive *)
Reduced ==
    /\ status = "Running" /\ at = "idle"
    /\ status' = "Runnable"
    /\ UNCHANGED <<clock, mailbox, unsent, at, context, pending, history>>

(* The scheduler resumes it *)
Resume ==
    /\ status = "Runnable"
    /\ status' = "Running"
    /\ UNCHANGED <<clock, mailbox, unsent, at, context, pending, history>>

Next ==
    \/ \E p \in SUBSET Message, d \in Timeouts : ReceiveStart(p, d)
    \/ ReceiveNextPeek \/ ReceiveNextTimeout \/ ReceiveNextWait
    \/ Peek \/ ReceivePop \/ ReceiveDone
    \/ ClockAdvances
    \/ \E m \in Message : SendFromSelf(m) \/ SendFromOther(m)
    \/ \E t \in pending : TimerTimesOut(t)
    \/ Reduced \/ Resume

Spec == Init /\ [][Next]_vars

(* The scheduler runs what is runnable and calls timeout in every turn, and the
   clock goes on *)
Fairness ==
    /\ WF_vars(ReceiveNextPeek \/ ReceiveNextTimeout \/ ReceiveNextWait)
    /\ WF_vars(Peek) /\ WF_vars(ReceivePop) /\ WF_vars(ReceiveDone)
    /\ WF_vars(Resume) /\ WF_vars(ClockAdvances)
    /\ WF_vars(\E t \in pending : TimerTimesOut(t))

FairSpec == Spec /\ Fairness

-----------------------------------------------------------------------------
Receiving == at \in {"next", "peek", "pop"}

TypeOK ==
    /\ clock \in 0..MaxClock
    /\ mailbox \in Seq(Message) /\ unsent \subseteq Message
    /\ status \in {"Running", "Runnable", "Waiting"}
    /\ at \in {"idle", "next", "peek", "pop", "done"}
    /\ message \in Message \cup {Null}
    /\ receive_timeout \in Nat /\ timer \in Nat \cup {Null} /\ pending \subseteq Nat
    /\ pattern \subseteq Message /\ timeout \in Nat \cup {Infinity} /\ started \in 0..clock

(* No wakeup is lost: a process that waits has looked at every message of its
   mailbox, and if its receive has a deadline, the timer that wakes it has yet
   to fire, whatever came in while it was suspended or still running. *)
NoLostWakeup ==
    status = "Waiting" =>
        /\ at = "next" /\ NextIndex = Len(mailbox) + 1
        /\ timeout = Infinity \/ started + timeout \in pending

(* The timer of a receive does not outlive it: none is pending outside of a
   receive, so none wakes the process from a later one. *)
NoStrayTimer == at = "idle" => pending = {}

(* The state machine implements selective receive with a timeout: it takes the
   oldest message that matches, and times out only when none matches and the
   time it was given has passed. *)
Abstract == INSTANCE SelectiveReceive WITH receiving <- Receiving, now <- clock
ImplementsSelectiveReceive == Abstract!Spec

(* A receive with a timeout ends, and so does one for which a message that
   matches is in the mailbox. *)
ReceiveEnds ==
    /\ Receiving /\ timeout # Infinity ~> ~Receiving
    /\ Receiving /\ (\E i \in 1..Len(mailbox) : mailbox[i] \in pattern) ~> ~Receiving
=============================================================================
