--------------------------- MODULE SelectiveReceive ---------------------------
(* What `receive ... after` promises the program: it ends with the oldest       *)
(* message of the mailbox that matches, which leaves the mailbox while all      *)
(* others stay in their order, or with its timeout, but only when no message    *)
(* that matches is there and the time that was asked for has passed.            *)
EXTENDS Naturals, Sequences

CONSTANTS Message, Infinity

VARIABLES
    mailbox,        \* the messages, oldest first
    receiving,      \* is the program in a receive?
    pattern,        \* the messages that match one of its clauses
    timeout,        \* milliseconds after which it gives up, or Infinity
    started,        \* when it began
    now

vars == <<mailbox, receiving, pattern, timeout, started, now>>

RemoveFrom(s, i) == SubSeq(s, 1, i - 1) \o SubSeq(s, i + 1, Len(s))

IsFirstMatch(i) ==
    mailbox[i] \in pattern /\ \A j \in 1..(i - 1) : mailbox[j] \notin pattern

Init ==
    /\ mailbox = << >>
    /\ receiving = FALSE /\ pattern = {} /\ timeout = Infinity /\ started = 0
    /\ now = 0

Arrive ==
    /\ \E m \in Message : mailbox' = Append(mailbox, m)
    /\ UNCHANGED <<receiving, pattern, timeout, started, now>>

ClockTick ==
    /\ now' = now + 1
    /\ UNCHANGED <<mailbox, receiving, pattern, timeout, started>>

Begin ==
    /\ ~receiving /\ receiving' = TRUE
    /\ pattern' \subseteq Message
    /\ timeout' = Infinity \/ timeout' \in Nat
    /\ started' = now
    /\ UNCHANGED <<mailbox, now>>

Take ==
    /\ receiving /\ receiving' = FALSE
    /\ \E i \in 1..Len(mailbox) : IsFirstMatch(i) /\ mailbox' = RemoveFrom(mailbox, i)
    /\ UNCHANGED <<pattern, timeout, started, now>>

TimeOut ==
    /\ receiving /\ receiving' = FALSE
    /\ timeout # Infinity /\ started + timeout <= now
    /\ \A i \in 1..Len(mailbox) : mailbox[i] \notin pattern
    /\ UNCHANGED <<mailbox, pattern, timeout, started, now>>

Next == Arrive \/ ClockTick \/ Begin \/ Take \/ TimeOut

Spec == Init /\ [][Next]_vars
=============================================================================
