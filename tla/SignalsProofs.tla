---------------------------- MODULE SignalsProofs ----------------------------
(* Signals implements Scheduling when no process monitors itself, and its links *)
(* and exits are safe, for any set of processes and any number of monitors.     *)
EXTENDS Signals, SchedulingProofs, WellFoundedInduction

(* No process is in its own table of monitors, nor among those to notify.       *)
NoSelf ==
    /\ \A p \in Process, r \in Reference : <<r, p>> \notin monitors[p]
    /\ at = "propagate" => \A r \in Reference : <<r, current>> \notin to_notify

(* A process has no links before it is spawned.                                 *)
NotYetLinked ==
    \A p, q \in Process : status[p] = "Unrunnable" => linked[p] = {} /\ p \notin linked[q]

Told(q, p) ==
    \/ is_exiting(q)
    \/ \E i \in 1..Len(mailbox[q]) : mailbox[q][i].tag = "EXIT" /\ mailbox[q][i].from = p

(* What propagate_exit has still to visit, and what it has visited.             *)
Propagating ==
    at = "propagate" =>
        /\ to_exit \subseteq linked[current]
        /\ to_exit # {} => ~IsExpected(current)
        /\ ~IsExpected(current) =>
                \A q \in Process \ {current} :
                    Upgrades(q) /\ q \in linked[current] => q \in to_exit \/ Told(q, current)

SInv == IInv /\ SignalsTypeOK /\ NoSelf /\ NotYetLinked /\ LinksAgree /\ Propagating

-----------------------------------------------------------------------------
(* A step of Signals is one of Scheduling.                                      *)
LEMMA StepIsScheduled == SInv /\ [SignalsNext]_allVars => [Next]_vars
<1> SUFFICES ASSUME SInv, [SignalsNext]_allVars PROVE Next \/ UNCHANGED vars
  BY Zenon
<1>1. ASSUME NEW q \in Process, Link(q) \/ Unlink(q) \/ Monitor(q) PROVE UNCHANGED vars
  BY Zenon, <1>1 DEF Link, Unlink, Monitor
<1>2. ASSUME NEW r \in Reference, NEW flush \in BOOLEAN, DemonitorFound(r, flush) PROVE UNCHANGED vars
  BY Zenon, <1>2 DEF DemonitorFound
<1>3. ASSUME NEW flag \in BOOLEAN, TrapExit(flag) PROVE UNCHANGED vars
  BY Zenon, <1>3 DEF TrapExit
<1>4. ASSUME NEW p \in Process, NEW option \in SpawnPriorities, NEW link, NEW monitor,
             SpawnConnected(p, option, link, monitor)
      PROVE  Next
  BY Zenon, <1>4 DEF SpawnConnected, Next
<1>5. ASSUME NEW raised \in Raised, RaiseReason(raised) PROVE Next
  BY Zenon, <1>5 DEF RaiseReason, Next
<1>6. CASE RequeueSignals \/ PropagatedSignals
  BY Zenon, <1>6 DEF RequeueSignals, PropagatedSignals, Next
<1>7. ASSUME NEW r \in Reference, NEW m \in Process, NotifyMonitor(r, m)
      PROVE  Next \/ UNCHANGED vars
  <2>1. m # current
    BY Zenon, <1>7 DEF NotifyMonitor, SInv, NoSelf
  <2>2. Notify(m) \/ UNCHANGED vars
    BY Zenon, <1>7, <2>1 DEF NotifyMonitor
  <2> QED BY Zenon, <2>2 DEF Next
<1>8. ASSUME NEW q \in Process, SignalLink(q) PROVE Next \/ UNCHANGED vars
  <2>1. Notify(q) \/ ExitLinked(q) \/ UNCHANGED vars
    BY Zenon, <1>8 DEF SignalLink
  <2> QED BY Zenon, <2>1 DEF Next
<1>9. CASE UNCHANGED allVars
  BY Zenon, <1>9 DEF allVars
<1> QED BY Zenon, <1>1, <1>2, <1>3, <1>4, <1>5, <1>6, <1>7, <1>8, <1>9 
  DEF SignalsNext, Next, Demonitor, DemonitorMissing

-----------------------------------------------------------------------------
LEMMA SmallestOf ==
    ASSUME NEW T, T \subseteq Nat, T # {}
    PROVE  \E x \in T : \A y \in T : x <= y
<1> DEFINE R == OpToRel(<, Nat)
<1>1. \E x \in T : \A y \in T : ~(<<y, x>> \in R)
  BY Zenon, NatLessThanWellFounded, WFMin
<1>2. \A x, y \in Nat : <<y, x>> \in R <=> y < x
  BY Zenon DEF OpToRel
<1> HIDE DEF R
<1>3. PICK x \in T : \A y \in T : ~(<<y, x>> \in R)
  BY Zenon, <1>1
<1>4. ASSUME NEW y \in T PROVE x <= y
  <2>1. x \in Nat /\ y \in Nat
    BY Zenon
  <2>2. ~(y < x)
    BY Zenon, <1>2, <1>3, <2>1
  <2> QED BY <2>1, <2>2
<1> QED BY Zenon, <1>4

(* Mailbox::flush leaves a list of messages.                                    *)
LEMMA FlushTyped ==
    ASSUME NEW s \in Seq(Message), NEW r
    PROVE  Flush(s, r) \in Seq(Message)
<1> DEFINE found == {i \in 1..Len(s) : s[i].tag = "DOWN" /\ s[i].reference = r}
           first == CHOOSE i \in found : \A j \in found : i <= j
<1>1. CASE found = {}
  BY Zenon, <1>1 DEF Flush
<1>2. CASE found # {}
  <2>1. \E i \in found : \A j \in found : i <= j
    <3>1. found \subseteq Nat
      OBVIOUS
    <3> HIDE DEF found
    <3> QED BY Zenon, <1>2, <3>1, SmallestOf
  <2>2. first \in 1..Len(s)
    BY Zenon, <2>1
  <2>3. Flush(s, r) = SubSeq(s, 1, first - 1) \o SubSeq(s, first + 1, Len(s))
    BY Zenon, <1>2 DEF Flush
  <2> HIDE DEF first
  <2>4. SubSeq(s, 1, first - 1) \in Seq(Message) /\ SubSeq(s, first + 1, Len(s)) \in Seq(Message)
    BY <2>2
  <2> QED BY <2>3, <2>4
<1> QED BY Zenon, <1>1, <1>2

(* At a point where the current process runs or its exit is propagated.         *)
LEMMA CurrentFacts ==
    ASSUME SInv
    PROVE  /\ at \in {"running", "requeue", "propagate"} => current \in Process
           /\ at = "running" => status[current] = "Running"
           /\ \A p \in Process : Upgrades(p) => status[p] # "Unrunnable"
BY Zenon DEF SInv, IInv, Control, StatusMatchesPlace, InOnePlace

LEMMA MonitoredTyped ==
    ASSUME SInv, NEW p \in Process, NEW q \in Process, next_reference < MaxReferences,
           MonitoredWith(p, q), next_reference' = next_reference + 1
    PROVE  /\ monitored' \in [Process -> SUBSET (Reference \X Process)]
           /\ monitors' \in [Process -> SUBSET (Reference \X Process)]
           /\ next_reference' \in 0..MaxReferences
<1>1. next_reference \in Reference /\ next_reference' \in 0..MaxReferences
  BY ReferenceAssumption DEF SInv, SignalsTypeOK, Reference
<1>2. <<next_reference, q>> \in Reference \X Process /\ <<next_reference, p>> \in Reference \X Process
  BY Zenon, <1>1
<1> QED BY Zenon, <1>1, <1>2 DEF SInv, SignalsTypeOK, MonitoredWith

LEMMA PushTyped ==
    ASSUME SInv, NEW p \in Process, NEW m \in Message, Push(p, m)
    PROVE  mailbox' \in [Process -> Seq(Message)]
BY DEF SInv, SignalsTypeOK, Push

LEMMA TypesKept == SInv /\ [SignalsNext]_allVars => SignalsTypeOK'
<1> SUFFICES ASSUME SInv, [SignalsNext]_allVars PROVE SignalsTypeOK'
  BY Zenon
<1>0. SignalsTypeOK
  BY Zenon DEF SInv
<1>1. ASSUME NEW q \in Process, Link(q) \/ Unlink(q) PROVE SignalsTypeOK'
  <2>1. current \in Process
    BY Zenon, <1>1, CurrentFacts DEF Link, Unlink
  <2>2. linked' \in [Process -> SUBSET Process]
    <3>1. CASE Link(q)
      BY Zenon, <1>0, <3>1, <2>1 DEF Link, LinkedWith, SignalsTypeOK
    <3>2. CASE Unlink(q)
      <4>1. linked[current] \ {q} \subseteq Process /\ linked[q] \ {current} \subseteq Process
        BY Zenon, <1>0, <2>1 DEF SignalsTypeOK
      <4> QED BY Zenon, <1>0, <3>2, <4>1 DEF Unlink, SignalsTypeOK
    <3> QED BY Zenon, <1>1, <3>1, <3>2
  <2> QED BY Zenon, <1>0, <1>1, <2>2 DEF Link, Unlink, SignalsTypeOK
<1>2. ASSUME NEW q \in Process, Monitor(q) PROVE SignalsTypeOK'
  <2>1. current \in Process
    BY Zenon, <1>2, CurrentFacts DEF Monitor
  <2>2. next_reference \in Reference /\ next_reference' \in 0..MaxReferences
    BY <1>0, <1>2, ReferenceAssumption DEF Monitor, SignalsTypeOK, Reference
  <2>3. Down(next_reference) \in Message
    BY <2>1, <2>2 DEF Message
  <2>4. mailbox' \in [Process -> Seq(Message)]
    BY Zenon, <1>0, <1>2, <2>1, <2>3, PushTyped DEF Monitor, SignalsTypeOK
  <2>5. /\ monitored' \in [Process -> SUBSET (Reference \X Process)]
        /\ monitors' \in [Process -> SUBSET (Reference \X Process)]
    BY Zenon, <1>0, <1>2, <2>1, MonitoredTyped DEF Monitor, SignalsTypeOK
  <2> QED BY Zenon, <1>0, <1>2, <2>2, <2>4, <2>5 DEF Monitor, SignalsTypeOK
<1>3. ASSUME NEW r \in Reference, NEW flush \in BOOLEAN, DemonitorFound(r, flush) PROVE SignalsTypeOK'
  <2>1. current \in Process
    BY Zenon, <1>3, CurrentFacts DEF DemonitorFound
  <2>2. mailbox' \in [Process -> Seq(Message)]
    <3>1. mailbox[current] \in Seq(Message)
      BY Zenon, <1>0, <2>1 DEF SignalsTypeOK
    <3>2. Flush(mailbox[current], r) \in Seq(Message)
      BY Zenon, <3>1, FlushTyped
    <3> QED BY Zenon, <1>0, <1>3, <3>2 DEF DemonitorFound, SignalsTypeOK
  <2>3. /\ monitored' \in [Process -> SUBSET (Reference \X Process)]
        /\ monitors' \in [Process -> SUBSET (Reference \X Process)]
    BY <1>0, <1>3, <2>1 DEF DemonitorFound, SignalsTypeOK
  <2>4. flushed' \subseteq Reference
    BY <1>0, <1>3 DEF DemonitorFound, SignalsTypeOK
  <2> QED BY Zenon, <1>0, <1>3, <2>2, <2>3, <2>4 DEF DemonitorFound, SignalsTypeOK
<1>4. ASSUME NEW flag \in BOOLEAN, TrapExit(flag) PROVE SignalsTypeOK'
  <2>1. traps_exit' \in [Process -> BOOLEAN]
    BY Zenon, <1>0, <1>4 DEF TrapExit, SignalsTypeOK
  <2> QED BY Zenon, <1>0, <1>4, <2>1 DEF TrapExit, SignalsTypeOK
<1>5. ASSUME NEW p \in Process, NEW option \in SpawnPriorities, NEW link \in BOOLEAN,
             NEW monitor \in BOOLEAN, SpawnConnected(p, option, link, monitor)
      PROVE  SignalsTypeOK'
  <2>1. current \in Process
    BY Zenon, <1>5, CurrentFacts DEF SpawnConnected, Spawn
  <2>2. linked' \in [Process -> SUBSET Process]
    BY Zenon, <1>0, <1>5, <2>1 DEF SpawnConnected, LinkedWith, SignalsTypeOK
  <2>3. /\ monitored' \in [Process -> SUBSET (Reference \X Process)]
        /\ monitors' \in [Process -> SUBSET (Reference \X Process)]
        /\ next_reference' \in 0..MaxReferences
    BY Zenon, <1>0, <1>5, <2>1, MonitoredTyped DEF SpawnConnected, SignalsTypeOK
  <2> QED BY Zenon, <1>0, <1>5, <2>2, <2>3 DEF SpawnConnected, SignalsTypeOK
<1>6. ASSUME NEW raised \in Raised, RaiseReason(raised) PROVE SignalsTypeOK'
  <2>1. exception' \in [Process -> Exception]
    BY Zenon, <1>0, <1>6 DEF RaiseReason, SignalsTypeOK, Exception
  <2> QED BY Zenon, <1>0, <1>6, <2>1 DEF RaiseReason, SignalsTypeOK
<1>7. CASE RequeueSignals
  <2>1. current \in Process
    BY Zenon, <1>7, CurrentFacts DEF RequeueSignals, Requeue
  <2>2. to_notify' \subseteq Reference \X Process /\ to_exit' \subseteq Process
    BY <1>0, <1>7, <2>1 DEF RequeueSignals, ExitsTo, SignalsTypeOK
  <2> QED BY Zenon, <1>0, <1>7, <2>2 DEF RequeueSignals, tables, SignalsTypeOK
<1>8. ASSUME NEW r \in Reference, NEW m \in Process, NotifyMonitor(r, m) PROVE SignalsTypeOK'
  <2>1. Down(r) \in Message
    BY DEF Message
  <2>2. mailbox' \in [Process -> Seq(Message)]
    BY Zenon, <1>0, <1>8, <2>1, PushTyped DEF NotifyMonitor, SignalsTypeOK
  <2> QED BY Zenon, <1>0, <1>8, <2>2 DEF NotifyMonitor, SignalsTypeOK
<1>9. ASSUME NEW q \in Process, SignalLink(q) PROVE SignalsTypeOK'
  <2>1. current \in Process
    BY Zenon, <1>9, CurrentFacts DEF SignalLink
  <2>2. Exit(current) \in Message
    BY <2>1 DEF Message
  <2>3. mailbox' \in [Process -> Seq(Message)]
    BY Zenon, <1>0, <1>9, <2>2, PushTyped DEF SignalLink, SignalsTypeOK
  <2>4. exception' \in [Process -> Exception]
    <3>1. AsExit(exception[current]) \in Exception
      BY Zenon DEF AsExit, Exception, Raised
    <3> QED BY Zenon, <1>0, <1>9, <3>1 DEF SignalLink, SignalsTypeOK
  <2> QED BY Zenon, <1>0, <1>9, <2>3, <2>4 DEF SignalLink, SignalsTypeOK
<1>10. CASE PropagatedSignals
  <2>1. mailbox' \in [Process -> Seq(Message)]
    <3>1. << >> \in Seq(Message)
      OBVIOUS
    <3> QED BY Zenon, <1>0, <1>10, <3>1 DEF PropagatedSignals, SignalsTypeOK
  <2>2. /\ linked' \in [Process -> SUBSET Process]
        /\ monitored' \in [Process -> SUBSET (Reference \X Process)]
        /\ monitors' \in [Process -> SUBSET (Reference \X Process)]
    BY Zenon, <1>0, <1>10 DEF PropagatedSignals, SignalsTypeOK
  <2>3. exception' \in [Process -> Exception] /\ traps_exit' \in [Process -> BOOLEAN]
    BY Zenon, <1>0, <1>10 DEF PropagatedSignals, SignalsTypeOK, Exception
  <2> QED BY Zenon, <1>0, <1>10, <2>1, <2>2, <2>3 DEF PropagatedSignals, SignalsTypeOK
<1>11. CASE UNCHANGED signals
  BY Zenon, <1>0, <1>11 DEF signals, tables, SignalsTypeOK
<1>12. CASE UNCHANGED allVars
  BY Zenon, <1>11, <1>12 DEF allVars
<1> QED
  BY Zenon, <1>1, <1>2, <1>3, <1>4, <1>5, <1>6, <1>7, <1>8, <1>9, <1>10, <1>11, <1>12
  DEF SignalsNext, Demonitor, DemonitorMissing

(* Nobody gets into a process's own table of monitors: monitor/2 of itself is   *)
(* excluded, and a child is not its parent.                                     *)
LEMMA NoSelfKept == MonitorSelf = FALSE /\ SInv /\ [SignalsNext]_allVars => NoSelf'
<1> SUFFICES ASSUME MonitorSelf = FALSE, SInv, [SignalsNext]_allVars PROVE NoSelf'
  BY Zenon
<1>0. NoSelf /\ monitors \in [Process -> SUBSET (Reference \X Process)]
  BY Zenon DEF SInv, SignalsTypeOK
<1>1. ASSUME NEW q \in Process, q # current, current \in Process, MonitoredWith(current, q)
      PROVE  \A p \in Process, r \in Reference : <<r, p>> \notin monitors'[p]
  BY Zenon, <1>0, <1>1 DEF MonitoredWith, NoSelf
<1>2. ASSUME NEW q \in Process, Monitor(q) PROVE NoSelf'
  <2>1. current \in Process /\ q # current /\ at' # "propagate"
    BY Zenon, <1>2, CurrentFacts DEF Monitor, vars
  <2> QED BY Zenon, <1>0, <1>1, <1>2, <2>1 DEF Monitor, NoSelf
<1>3. ASSUME NEW p \in Process, NEW option \in SpawnPriorities, NEW link \in BOOLEAN,
             NEW monitor \in BOOLEAN, SpawnConnected(p, option, link, monitor)
      PROVE  NoSelf'
  <2>1. current \in Process /\ p # current /\ at' # "propagate"
    BY Zenon, <1>3, CurrentFacts DEF SpawnConnected, Spawn
  <2> QED BY Zenon, <1>0, <1>1, <1>3, <2>1 DEF SpawnConnected, NoSelf
<1>4. ASSUME NEW r \in Reference, NEW flush \in BOOLEAN, DemonitorFound(r, flush) PROVE NoSelf'
  <2>1. \A p \in Process : monitors'[p] \subseteq monitors[p]
    BY Zenon, <1>0, <1>4 DEF DemonitorFound
  <2>2. at' # "propagate"
    BY Zenon, <1>4 DEF DemonitorFound, vars
  <2> QED BY Zenon, <1>0, <2>1, <2>2 DEF NoSelf
<1>5. CASE RequeueSignals
  <2>1. current \in Process
    BY Zenon, <1>5, CurrentFacts DEF RequeueSignals, Requeue
  <2>2. at' = "propagate" => current' = current /\ to_notify' = monitors[current]
    BY Zenon, <1>5 DEF RequeueSignals, Requeue
  <2> QED BY Zenon, <1>0, <1>5, <2>1, <2>2 DEF RequeueSignals, tables, NoSelf
<1>6. ASSUME NEW r \in Reference, NEW m \in Process, NotifyMonitor(r, m) PROVE NoSelf'
  <2>1. at = "propagate" /\ current' = current /\ to_notify' \subseteq to_notify
    BY Zenon, <1>6 DEF NotifyMonitor, Notify, vars
  <2> QED BY Zenon, <1>0, <1>6, <2>1 DEF NotifyMonitor, NoSelf
<1>7. ASSUME NEW q \in Process, SignalLink(q) PROVE NoSelf'
  <2>1. at = "propagate" /\ current' = current
    BY Zenon, <1>7 DEF SignalLink, Notify, ExitLinked, vars
  <2> QED BY Zenon, <1>0, <1>7, <2>1 DEF SignalLink, NoSelf
<1>8. CASE PropagatedSignals
  BY Zenon, <1>0, <1>8 DEF PropagatedSignals, Propagated, NoSelf
<1>9. ASSUME UNCHANGED monitors, at' # "propagate" PROVE NoSelf'
  BY Zenon, <1>0, <1>9 DEF NoSelf
<1>10. ASSUME NEW q \in Process, Link(q) \/ Unlink(q) PROVE NoSelf'
  BY Zenon, <1>9, <1>10 DEF Link, Unlink, vars
<1>11. CASE \/ \E flag \in BOOLEAN : TrapExit(flag)
            \/ \E raised \in Raised : RaiseReason(raised)
  BY Zenon, <1>9, <1>11 DEF TrapExit, RaiseReason, Raise, Return, vars
<1>12. CASE UNCHANGED allVars
  BY Zenon, <1>0, <1>12 DEF allVars, vars, signals, tables, NoSelf
<1>13. CASE Stopped /\ UNCHANGED signals
  BY Zenon, <1>9, <1>13 DEF Stopped, vars, signals, tables
<1>14. CASE /\ \/ \E p \in Process : TimerWakes(p) \/ Wake(p)
               \/ TimeoutReturns
               \/ Dequeue \/ DequeueDelayed \/ DequeueWaiting \/ DequeueNone
               \/ Reduced \/ Wait \/ ExitNormal
            /\ UNCHANGED signals
  <2>1. at' # "propagate"
    BY Zenon, <1>14 DEF TimerWakes, Wake, TimeoutReturns, Dequeue, DequeueDelayed, DequeueWaiting,
       DequeueNone, Reduced, Wait, ExitNormal, Return
  <2> QED BY Zenon, <1>9, <1>14, <2>1 DEF signals, tables
<1> QED
  BY Zenon, <1>2, <1>3, <1>4, <1>5, <1>6, <1>7, <1>8, <1>10, <1>11, <1>12, <1>13, <1>14
  DEF SignalsNext, Demonitor, DemonitorMissing

(* link/1, unlink/1 and spawn_link change both tables, and a process that goes  *)
(* takes its table with it.                                                     *)
LEMMA LinksKept == SInv /\ [SignalsNext]_allVars => NotYetLinked' /\ LinksAgree'
<1> SUFFICES ASSUME SInv, [SignalsNext]_allVars PROVE NotYetLinked' /\ LinksAgree'
  BY Zenon
<1>0. IInv /\ NotYetLinked /\ LinksAgree /\ linked \in [Process -> SUBSET Process] /\ [Next]_vars
  BY Zenon, StepIsScheduled DEF SInv, SignalsTypeOK
<1>1. \A x \in Process : /\ Upgrades(x)' => Upgrades(x) \/ status[x] = "Unrunnable"
                         /\ status'[x] = "Unrunnable" => status[x] = "Unrunnable"
  BY Zenon, <1>0, UpgradesFacts, StatusFacts
<1>2. \A p, q \in Process : Upgrades(p)' /\ Upgrades(q)' => (q \in linked[p] <=> p \in linked[q])
  BY Zenon, <1>0, <1>1 DEF NotYetLinked, LinksAgree
<1>3. ASSUME NEW q \in Process, Link(q) \/ Unlink(q) PROVE NotYetLinked' /\ LinksAgree'
  <2>1. /\ current \in Process /\ q # current
        /\ status[current] # "Unrunnable" /\ status[q] # "Unrunnable"
    BY Zenon, <1>3, CurrentFacts DEF Link, Unlink
  <2>2. /\ \A x \in Process \ {current, q} : linked'[x] = linked[x]
        /\ \/ linked'[current] = linked[current] \cup {q} /\ linked'[q] = linked[q] \cup {current}
           \/ linked'[current] = linked[current] \ {q} /\ linked'[q] = linked[q] \ {current}
    <3>1. CASE Link(q)
      BY Zenon, <1>0, <2>1, <3>1 DEF Link, LinkedWith
    <3>2. CASE Unlink(q)
      BY Zenon, <1>0, <2>1, <3>2 DEF Unlink
    <3> QED BY Zenon, <1>3, <3>1, <3>2
  <2>3. NotYetLinked'
    BY <1>0, <1>1, <2>1, <2>2 DEF NotYetLinked
  <2>4. LinksAgree'
    BY <1>2, <2>1, <2>2 DEF LinksAgree
  <2> QED BY Zenon, <2>3, <2>4
<1>4. ASSUME NEW c \in Process, NEW option \in SpawnPriorities, NEW link \in BOOLEAN,
             NEW monitor \in BOOLEAN, SpawnConnected(c, option, link, monitor)
      PROVE  NotYetLinked' /\ LinksAgree'
  <2>1. current \in Process /\ c # current /\ status[current] # "Unrunnable"
    BY Zenon, <1>4, CurrentFacts DEF SpawnConnected, Spawn
  <2>2. status'[c] # "Unrunnable"
    BY Zenon, <1>0, <1>4 DEF SpawnConnected, Spawn, IInv, TypeOK
  <2>3. \/ linked' = linked
        \/ /\ \A x \in Process \ {current, c} : linked'[x] = linked[x]
           /\ linked'[current] = linked[current] \cup {c} /\ linked'[c] = linked[c] \cup {current}
    BY Zenon, <1>0, <1>4, <2>1 DEF SpawnConnected, LinkedWith
  <2>4. NotYetLinked'
    BY <1>0, <1>1, <2>1, <2>2, <2>3 DEF NotYetLinked
  <2>5. LinksAgree'
    BY <1>2, <2>1, <2>3 DEF LinksAgree
  <2> QED BY Zenon, <2>4, <2>5
<1>5. CASE PropagatedSignals
  <2>1. current \in Process /\ linked'[current] = {} /\ status' = status
    BY Zenon, <1>0, <1>5, CurrentFacts DEF PropagatedSignals, Propagated
  <2>2. \A x \in Process \ {current} : linked'[x] = linked[x]
    BY Zenon, <1>0, <1>5 DEF PropagatedSignals
  <2>3. \A x \in Process : x = current => ~Upgrades(x)'
    <3>1. ~Queued(current) /\ current' # current /\ run_queues' = run_queues
      BY Zenon, <1>0, <1>5, <2>1, ProcessAssumption
      DEF PropagatedSignals, Propagated, IInv, InOnePlace
    <3> QED BY Zenon, <3>1 DEF Upgrades, Queued
  <2>4. NotYetLinked'
    BY Zenon, <1>0, <2>1, <2>2 DEF NotYetLinked
  <2>5. LinksAgree'
    <3> SUFFICES ASSUME NEW p \in Process, NEW q \in Process, Upgrades(p)', Upgrades(q)'
                 PROVE  q \in linked'[p] <=> p \in linked'[q]
      BY Zenon DEF LinksAgree
    <3>1. p # current /\ q # current
      BY Zenon, <2>3
    <3> QED BY Zenon, <1>2, <2>2, <3>1
  <2> QED BY Zenon, <2>4, <2>5
<1>6. ASSUME UNCHANGED linked PROVE NotYetLinked' /\ LinksAgree'
  BY Zenon, <1>0, <1>1, <1>2, <1>6 DEF NotYetLinked, LinksAgree
<1>7. CASE \/ \E q \in Process : Monitor(q)
           \/ \E r \in Reference, flush \in BOOLEAN : DemonitorFound(r, flush)
           \/ \E flag \in BOOLEAN : TrapExit(flag)
           \/ \E raised \in Raised : RaiseReason(raised)
           \/ RequeueSignals
           \/ \E r \in Reference, m \in Process : NotifyMonitor(r, m)
           \/ \E q \in Process : SignalLink(q)
  BY Zenon, <1>6, <1>7 DEF Monitor, DemonitorFound, TrapExit, RaiseReason, RequeueSignals, NotifyMonitor,
     SignalLink, tables
<1>8. CASE UNCHANGED signals \/ UNCHANGED allVars
  BY Zenon, <1>6, <1>8 DEF signals, tables, allVars
<1> QED BY Zenon, <1>3, <1>4, <1>5, <1>7, <1>8 DEF SignalsNext, Demonitor, DemonitorMissing

(* A message in a mailbox stays there when another one is pushed.               *)
LEMMA ToldKept ==
    ASSUME SInv, [SignalsNext]_allVars, NEW q \in Process, NEW p \in Process, Told(q, p),
           \/ UNCHANGED mailbox
           \/ \E x \in Process, m \in Message : Push(x, m)
    PROVE  Told(q, p)'
<1>1. CASE is_exiting(q)
  <2>1. IInv /\ [Next]_vars
    BY Zenon, StepIsScheduled DEF SInv
  <2> QED BY Zenon, <1>1, <2>1, StatusFacts DEF Told, is_exiting
<1>2. CASE \E i \in 1..Len(mailbox[q]) : mailbox[q][i].tag = "EXIT" /\ mailbox[q][i].from = p
  <2>1. mailbox \in [Process -> Seq(Message)]
    BY Zenon DEF SInv, SignalsTypeOK
  <2>2. PICK i \in 1..Len(mailbox[q]) : mailbox[q][i].tag = "EXIT" /\ mailbox[q][i].from = p
    BY Zenon, <1>2
  <2>3. i \in 1..Len(mailbox'[q]) /\ mailbox'[q][i] = mailbox[q][i]
    <3>1. CASE UNCHANGED mailbox
      BY Zenon, <3>1
    <3>2. ASSUME NEW x \in Process, NEW m \in Message, Push(x, m)
          PROVE  i \in 1..Len(mailbox'[q]) /\ mailbox'[q][i] = mailbox[q][i]
      <4>1. mailbox'[q] = IF x = q THEN Append(mailbox[q], m) ELSE mailbox[q]
        BY Zenon, <2>1, <3>2 DEF Push
      <4>2. mailbox[q] \in Seq(Message)
        BY Zenon, <2>1
      <4> QED BY <4>1, <4>2, AppendFacts
    <3> QED BY Zenon, <3>1, <3>2
  <2> QED BY Zenon, <2>2, <2>3 DEF Told
<1> QED BY Zenon, <1>1, <1>2 DEF Told

(* A step within propagate_exit that leaves the current process alone, and      *)
(* visits nobody but those it tells.                                            *)
LEMMA PropagatingKeeps ==
    ASSUME SInv, [SignalsNext]_allVars, at = "propagate", current' = current, UNCHANGED linked,
           IsExpected(current)' <=> IsExpected(current), to_exit' \subseteq to_exit,
           \A q \in to_exit \ to_exit' : Upgrades(q) => Told(q, current)',
           \/ UNCHANGED mailbox
           \/ \E x \in Process, m \in Message : Push(x, m)
    PROVE  Propagating'
<1>1. /\ current \in Process /\ Propagating /\ NotYetLinked /\ linked \in [Process -> SUBSET Process]
      /\ IInv /\ [Next]_vars
  BY Zenon, CurrentFacts, StepIsScheduled DEF SInv, SignalsTypeOK
<1>2. ASSUME ~IsExpected(current), NEW q \in Process \ {current}, Upgrades(q)', q \in linked[current]
      PROVE  q \in to_exit' \/ Told(q, current)'
  <2>1. Upgrades(q)
    BY Zenon, <1>1, <1>2, UpgradesFacts DEF NotYetLinked
  <2>2. q \in to_exit \/ Told(q, current)
    BY Zenon, <1>1, <1>2, <2>1 DEF Propagating
  <2>3. Told(q, current) => Told(q, current)'
    <3>1. ASSUME NEW p \in Process, p = current, Told(q, p) PROVE Told(q, p)'
      BY Zenon, <3>1, ToldKept
    <3> QED BY Zenon, <1>1, <3>1 DEF Told
  <2> QED BY Zenon, <2>1, <2>2, <2>3
<1> QED BY Zenon, <1>1, <1>2 DEF Propagating

LEMMA PropagatingKept == SInv /\ [SignalsNext]_allVars => Propagating'
<1> SUFFICES ASSUME SInv, [SignalsNext]_allVars PROVE Propagating'
  OBVIOUS
<1>0. IInv /\ [Next]_vars /\ SignalsTypeOK /\ Propagating
  BY Zenon, StepIsScheduled DEF SInv
<1>1. CASE RequeueSignals
  <2>1. CASE at' = "propagate"
    <3>1. /\ current \in Process /\ current' = current /\ UNCHANGED <<status, exception, linked>>
          /\ to_exit' = ExitsTo(current)
      BY Zenon, <1>1, <2>1, CurrentFacts DEF RequeueSignals, Requeue, tables
    <3>2. IsExpected(current)' <=> IsExpected(current)
      BY Zenon, <3>1 DEF IsExpected
    <3> QED BY Zenon, <3>1, <3>2 DEF Propagating, ExitsTo
  <2> QED BY Zenon, <2>1 DEF Propagating
<1>2. ASSUME NEW r \in Reference, NEW m \in Process, NotifyMonitor(r, m) PROVE Propagating'
  <2>1. current \in Process /\ m # current /\ at = "propagate"
    BY Zenon, <1>2, CurrentFacts DEF NotifyMonitor, SInv, NoSelf
  <2>2. current' = current /\ UNCHANGED <<linked, to_exit, exception>>
    BY Zenon, <1>2, <2>1 DEF NotifyMonitor, Notify, vars
  <2>3. status'[current] = status[current]
    BY Zenon, <1>0, <1>2, <2>1 DEF NotifyMonitor, Notify, StopWaiting, vars, IInv, TypeOK
  <2>4. IsExpected(current)' <=> IsExpected(current)
    BY Zenon, <2>2, <2>3 DEF IsExpected
  <2>5. Down(r) \in Message
    BY DEF Message
  <2>6. UNCHANGED mailbox \/ \E x \in Process, d \in Message : Push(x, d)
    BY Zenon, <1>2, <2>5 DEF NotifyMonitor
  <2> QED BY Zenon, <2>1, <2>2, <2>4, <2>6, PropagatingKeeps
<1>3. ASSUME NEW q \in Process, SignalLink(q) PROVE Propagating'
  <2>1. /\ current \in Process /\ at = "propagate" /\ q \in to_exit /\ to_exit' = to_exit \ {q}
        /\ UNCHANGED linked
    BY Zenon, <1>3, CurrentFacts DEF SignalLink
  <2>2. \/ ~Upgrades(q) /\ UNCHANGED <<vars, mailbox, exception>>
        \/ Push(q, Exit(current)) /\ Notify(q) /\ UNCHANGED exception
        \/ /\ ExitLinked(q) /\ UNCHANGED mailbox
           /\ exception' = [exception EXCEPT ![q] = AsExit(exception[current])]
    BY Zenon, <1>3 DEF SignalLink
  <2>3. current' = current
    BY Zenon, <2>2 DEF vars, Notify, ExitLinked
  <2>4. status'[current] = status[current] /\ exception'[current] = exception[current]
    BY Zenon, <1>0, <2>1, <2>2
    DEF vars, Notify, ExitLinked, StopWaiting, ExitOther, IInv, TypeOK, SignalsTypeOK
  <2>5. IsExpected(current)' <=> IsExpected(current)
    BY Zenon, <2>3, <2>4 DEF IsExpected
  <2>6. Exit(current) \in Message
    BY <2>1 DEF Message
  <2>7. UNCHANGED mailbox \/ \E x \in Process, d \in Message : Push(x, d)
    BY Zenon, <2>2, <2>6
  <2>8. Upgrades(q) => Told(q, current)'
    <3>1. ASSUME Push(q, Exit(current)) PROVE Told(q, current)'
      <4>1. mailbox'[q] = Append(mailbox[q], Exit(current)) /\ mailbox[q] \in Seq(Message)
        BY Zenon, <1>0, <3>1 DEF Push, SignalsTypeOK
      <4>2. /\ Len(mailbox[q]) + 1 \in 1..Len(mailbox'[q])
            /\ mailbox'[q][Len(mailbox[q]) + 1] = Exit(current)
        BY <2>6, <4>1, AppendFacts
      <4>3. Exit(current).tag = "EXIT" /\ Exit(current).from = current
        BY Zenon DEF Exit
      <4> QED BY Zenon, <2>3, <4>2, <4>3 DEF Told
    <3>2. ASSUME ExitLinked(q) PROVE Told(q, current)'
      BY Zenon, <1>0, <3>2 DEF ExitLinked, ExitOther, Told, is_exiting, IInv, TypeOK
    <3> QED BY Zenon, <2>2, <3>1, <3>2
  <2> QED BY Zenon, <2>1, <2>3, <2>5, <2>7, <2>8, PropagatingKeeps
<1>4. CASE UNCHANGED allVars
  <2>1. UNCHANGED <<status, run_queues, current, at, linked, exception, to_exit, mailbox>>
    BY Zenon, <1>4 DEF allVars, vars, signals, tables
  <2> QED BY Zenon, <1>0, <2>1 DEF Propagating, IsExpected, Upgrades, Queued, Told, is_exiting
<1>5. ASSUME at' # "propagate" PROVE Propagating'
  BY Zenon, <1>5 DEF Propagating
<1>6. ASSUME NEW q \in Process, Link(q) \/ Unlink(q) \/ Monitor(q) PROVE Propagating'
  BY Zenon, <1>5, <1>6 DEF Link, Unlink, Monitor, vars
<1>7. CASE \/ \E r \in Reference, flush \in BOOLEAN : DemonitorFound(r, flush)
           \/ \E flag \in BOOLEAN : TrapExit(flag)
           \/ \E raised \in Raised : RaiseReason(raised)
  BY Zenon, <1>5, <1>7 DEF DemonitorFound, TrapExit, RaiseReason, Raise, Return, vars
<1>8. CASE \E p \in Process, option \in SpawnPriorities, link, monitor \in BOOLEAN :
                SpawnConnected(p, option, link, monitor)
  BY Zenon, <1>5, <1>8 DEF SpawnConnected, Spawn
<1>9. CASE PropagatedSignals
  BY Zenon, <1>5, <1>9 DEF PropagatedSignals, Propagated
<1>10. CASE \/ \E p \in Process : TimerWakes(p) \/ Wake(p)
            \/ TimeoutReturns
            \/ Dequeue \/ DequeueDelayed \/ DequeueWaiting \/ DequeueNone
            \/ Reduced \/ Wait \/ ExitNormal \/ Stopped
  <2>1. at' # "propagate"
    BY Zenon, <1>10 DEF TimerWakes, Wake, TimeoutReturns, Dequeue, DequeueDelayed, DequeueWaiting,
       DequeueNone, Reduced, Wait, ExitNormal, Return, Stopped, vars
  <2> QED BY Zenon, <1>5, <2>1
<1> QED BY Zenon, <1>1, <1>2, <1>3, <1>4, <1>6, <1>7, <1>8, <1>9, <1>10
  DEF SignalsNext, Demonitor, DemonitorMissing

-----------------------------------------------------------------------------
LEMMA SignalsInitSafe == SignalsInit => SInv
<1> SUFFICES ASSUME SignalsInit PROVE SInv
  BY Zenon
<1>1. IInv
  BY Zenon, InitIInv DEF SignalsInit
<1>2. SignalsTypeOK
  BY ReferenceAssumption DEF SignalsInit, SignalsTypeOK, Exception
<1>3. NoSelf /\ NotYetLinked /\ LinksAgree
  BY Zenon DEF SignalsInit, Init, NoSelf, NotYetLinked, LinksAgree
<1>4. Propagating
  BY Zenon DEF SignalsInit, Init, Propagating
<1> QED BY Zenon, <1>1, <1>2, <1>3, <1>4 DEF SInv

LEMMA SignalsSafe == MonitorSelf = FALSE => (SignalsSpec => []SInv)
<1> SUFFICES ASSUME MonitorSelf = FALSE PROVE SignalsSpec => []SInv
  BY Zenon
<1>1. SInv /\ [SignalsNext]_allVars => SInv'
  BY Zenon, StepIsScheduled, StepKeepsIInv, TypesKept, NoSelfKept, LinksKept, PropagatingKept DEF SInv
<1> QED BY <1>1, SignalsInitSafe, PTL DEF SignalsSpec

(* Without self-monitors the links, monitors and signals are steps of           *)
(* Scheduling, so that whatever is proved of the scheduler holds with them.     *)
THEOREM ImplementsScheduling == MonitorSelf = FALSE => (SignalsSpec => Spec)
<1> SUFFICES ASSUME MonitorSelf = FALSE PROVE SignalsSpec => Spec
  BY Zenon
<1>1. SignalsInit => Init
  BY Zenon DEF SignalsInit
<1> QED BY <1>1, SignalsSafe, StepIsScheduled, PTL DEF SignalsSpec, Spec

(* propagate_exit never calls stop_waiting for the process whose status          *)
(* run_once still reads, when no process monitors itself.                        *)
THEOREM NeverBlocks == MonitorSelf = FALSE => (SignalsSpec => []PropagationNeverBlocks)
<1> SUFFICES ASSUME MonitorSelf = FALSE PROVE SignalsSpec => []PropagationNeverBlocks
  OBVIOUS
<1>1. SInv => PropagationNeverBlocks
  BY Zenon DEF SInv, IInv, TypeOK, At, PropagationNeverBlocks
<1> QED BY <1>1, SignalsSafe, PTL

(* link/1, unlink/1, spawn_link and exits keep the two tables of a link equal.   *)
THEOREM LinksAreMutual == MonitorSelf = FALSE => (SignalsSpec => []LinksAgree)
<1> SUFFICES ASSUME MonitorSelf = FALSE PROVE SignalsSpec => []LinksAgree
  OBVIOUS
<1>1. SInv => LinksAgree
  BY Zenon DEF SInv
<1> QED BY <1>1, SignalsSafe, PTL

(* propagate_exit_to_links leaves out no process that is linked.                 *)
THEOREM ExitsReach == MonitorSelf = FALSE => (SignalsSpec => ExitReachesLinked)
<1> SUFFICES ASSUME MonitorSelf = FALSE PROVE SignalsSpec => ExitReachesLinked
  BY Zenon
<1>1. ASSUME SInv, [SignalsNext]_allVars, at = "propagate", at' = "timeout", ~IsExpected(current),
             NEW q \in Process \ {current}, Upgrades(q), current \in linked[q]
      PROVE  Told(q, current)
  <2>1. to_exit = {}
    <3>1. CASE PropagatedSignals
      BY Zenon, <3>1 DEF PropagatedSignals
    <3>2. CASE UNCHANGED at
      BY Zenon, <1>1, <3>2
    <3>3. CASE \/ \E r \in Reference, m \in Process : NotifyMonitor(r, m)
               \/ \E p \in Process : SignalLink(p)
      <4>1. at' \in {at, "blocked"}
        BY Zenon, <3>3 DEF NotifyMonitor, SignalLink, Notify, ExitLinked, vars
      <4> QED BY Zenon, <1>1, <4>1
    <3> QED
      BY Zenon, <1>1, <3>1, <3>2, <3>3
      DEF SignalsNext, allVars, vars, Link, Unlink, Monitor, Demonitor, DemonitorFound,
          DemonitorMissing, TrapExit, SpawnConnected,
          Spawn, RaiseReason, Raise, Return, RequeueSignals, Requeue, TimerWakes, Wake,
          TimeoutReturns, Dequeue, DequeueDelayed, DequeueWaiting, DequeueNone, Reduced, Wait,
          ExitNormal, Stopped
  <2>2. current \in Process /\ Upgrades(current)
    BY Zenon, <1>1, CurrentFacts DEF Upgrades
  <2>3. q \in linked[current]
    BY Zenon, <1>1, <2>2 DEF SInv, LinksAgree
  <2> QED BY Zenon, <1>1, <2>1, <2>3 DEF SInv, Propagating
<1>2. SInv /\ [SignalsNext]_allVars =>
        [at = "propagate" /\ at' = "timeout" /\ ~IsExpected(current) =>
            \A q \in Process \ {current} : Upgrades(q) /\ current \in linked[q] =>
                \/ is_exiting(q)
                \/ \E i \in 1..Len(mailbox[q]) :
                        mailbox[q][i].tag = "EXIT" /\ mailbox[q][i].from = current]_allVars
  BY Zenon, <1>1 DEF Told
<1> QED BY <1>2, SignalsSafe, PTL DEF SignalsSpec, ExitReachesLinked

(* Only the process itself, or the exit of one it is linked to, ends a process.  *)
THEOREM ExitsComeFromLinks == MonitorSelf = FALSE => (SignalsSpec => ExitComesFromLinked)
<1> SUFFICES ASSUME MonitorSelf = FALSE PROVE SignalsSpec => ExitComesFromLinked
  OBVIOUS
<1>1. ASSUME SInv, [SignalsNext]_allVars, NEW q \in Process, ~is_exiting(q), is_exiting(q)'
      PROVE  \/ q = current /\ at = "running"
             \/ q \in linked[current] /\ at = "propagate" /\ ~IsExpected(current)
  <2>1. IInv /\ [Next]_vars
    BY Zenon, <1>1, StepIsScheduled DEF SInv
  <2>2. (q = current /\ at = "running") \/ (at = "propagate" /\ ExitLinked(q))
    BY Zenon, <1>1, <2>1, StatusFacts
  <2>3. ASSUME at = "propagate", ExitLinked(q)
        PROVE  q \in linked[current] /\ ~IsExpected(current)
    <3>1. status' # status
      BY Zenon, <1>1 DEF is_exiting
    <3>2. ASSUME NEW p \in Process, SignalLink(p) PROVE p = q
      <4>1. ExitLinked(p) \/ Notify(p)
        BY Zenon, <3>1, <3>2 DEF SignalLink, vars
      <4>2. \A x \in Process \ {p} : is_exiting(x)' => is_exiting(x)
        BY Zenon, <2>1, <4>1
        DEF ExitLinked, Notify, ExitOther, StopWaiting, is_exiting, IInv, TypeOK
      <4> QED BY Zenon, <1>1, <4>2
    <3>3. ASSUME NEW r \in Reference, NEW m \in Process, NotifyMonitor(r, m) PROVE FALSE
      <4>1. m # current
        BY Zenon, <1>1, <3>3 DEF NotifyMonitor, SInv, NoSelf
      <4>2. Notify(m)
        BY Zenon, <3>1, <3>3, <4>1 DEF NotifyMonitor, vars
      <4> QED BY Zenon, <1>1, <2>1, <4>2 DEF Notify, StopWaiting, is_exiting, IInv, TypeOK
    <3>4. SignalLink(q)
      BY Zenon, <1>1, <2>3, <3>1, <3>2, <3>3
      DEF SignalsNext, allVars, vars, Link, Unlink, Monitor, Demonitor, DemonitorFound,
          DemonitorMissing, TrapExit, SpawnConnected,
          Spawn, RaiseReason, Raise, Return, RequeueSignals, Requeue, PropagatedSignals, Propagated,
          TimerWakes, Wake, TimeoutReturns, Dequeue, DequeueDelayed, DequeueWaiting, DequeueNone,
          Reduced, Wait, ExitNormal, Stopped
    <3> QED BY Zenon, <1>1, <2>3, <3>4 DEF SignalLink, SInv, Propagating
  <2> QED BY Zenon, <2>2, <2>3
<1>2. SInv /\ [SignalsNext]_allVars =>
        [\A q \in Process : ~is_exiting(q) /\ is_exiting(q)' =>
            \/ q = current /\ at = "running"
            \/ q \in linked[current] /\ at = "propagate" /\ ~IsExpected(current)]_allVars
  BY Zenon, <1>1
<1> QED BY <1>2, SignalsSafe, PTL DEF SignalsSpec, ExitComesFromLinked

(* A process whose exception travels to its links keeps one that does, but for    *)
(* the exit that a linked process makes of an error or a throw with reason normal. *)
THEOREM AbnormalStays == MonitorSelf = FALSE => (SignalsSpec => AbnormalExitStays)
<1> SUFFICES ASSUME MonitorSelf = FALSE PROVE SignalsSpec => AbnormalExitStays
  OBVIOUS
<1> DEFINE Replaced(q) == /\ at = "propagate" /\ q \in to_exit /\ ~traps_exit[q]
                          /\ exception[current] = "error_normal"
<1>1. ASSUME SInv, [SignalsNext]_allVars, NEW q \in Process, is_exiting(q), ~IsExpected(q)
      PROVE  is_exiting(q)' /\ (IsExpected(q)' => Replaced(q))
  <2>1. IInv /\ [Next]_vars /\ exception \in [Process -> Exception]
    BY Zenon, <1>1, StepIsScheduled DEF SInv, SignalsTypeOK
  <2>2. status[q] = "RuntimeException" /\ exception[q] # "exit_normal"
    BY Zenon, <1>1 DEF is_exiting, IsExpected
  <2>3. status'[q] = "RuntimeException"
    BY Zenon, <1>1, <2>1, <2>2, StatusFacts
  <2>4. exception'[q] # "exit_normal" \/ Replaced(q)
    <3>1. ASSUME NEW raised \in Raised, RaiseReason(raised) PROVE exception'[q] # "exit_normal"
      <4>1. q # current
        BY Zenon, <1>1, <2>2, <3>1, CurrentFacts DEF RaiseReason, Raise, Return
      <4> QED BY Zenon, <2>1, <2>2, <3>1, <4>1 DEF RaiseReason
    <3>2. ASSUME NEW p \in Process, SignalLink(p), exception'[q] = "exit_normal" PROVE Replaced(q)
      <4>1. /\ p = q /\ exception'[q] = AsExit(exception[current])
            /\ at = "propagate" /\ p \in to_exit /\ ~traps_exit[p]
        BY Zenon, <2>1, <2>2, <3>2 DEF SignalLink
      <4>2. ~IsExpected(current)
        BY Zenon, <1>1, <4>1 DEF SInv, Propagating
      <4> QED BY Zenon, <3>2, <4>1, <4>2 DEF AsExit, IsExpected
    <3>3. CASE UNCHANGED exception
      BY Zenon, <2>2, <3>3
    <3>4. ASSUME PropagatedSignals PROVE exception'[q] # "exit_normal"
      BY Zenon, <2>1, <2>2, <3>4 DEF PropagatedSignals
    <3> QED
      BY Zenon, <1>1, <3>1, <3>2, <3>3, <3>4
      DEF SignalsNext, allVars, signals, tables, Link, Unlink, Monitor, Demonitor, DemonitorFound,
          DemonitorMissing, TrapExit, SpawnConnected, RequeueSignals, NotifyMonitor
  <2> QED BY Zenon, <2>3, <2>4 DEF is_exiting, IsExpected
<1>2. SInv /\ [SignalsNext]_allVars =>
        [\A q \in Process : is_exiting(q) /\ ~IsExpected(q) =>
            /\ is_exiting(q)'
            /\ IsExpected(q)' =>
                    /\ at = "propagate" /\ q \in to_exit /\ ~traps_exit[q]
                    /\ exception[current] = "error_normal"]_allVars
  BY Zenon, <1>1
<1> QED BY <1>2, SignalsSafe, PTL DEF SignalsSpec, AbnormalExitStays

-----------------------------------------------------------------------------
(* Monitors and their DOWN messages                                             *)

DownsIn(s, r) == {i \in 1..Len(s) : s[i].tag = "DOWN" /\ s[i].reference = r}
One(S) == \E k \in S : S = {k}

(* The monitor of q by p with reference r has fired.                            *)
Fired(p, q, r) ==
    \/ ~Upgrades(q)
    \/ q = current /\ at = "propagate" /\ <<r, p>> \notin to_notify

(* A reference that is anywhere has been created.                               *)
Numbered ==
    \A p \in Process, r \in Reference :
        (\/ \E q \in Process : <<r, q>> \in monitored[p] \cup monitors[p]
         \/ DownsIn(mailbox[p], r) # {}
         \/ r \in flushed) => r < next_reference

(* A reference stands for one monitor: the two tables and the DOWN messages     *)
(* agree on whose it is, and while the monitored process is there both have it. *)
OnlyFor(p, q, r) ==
    /\ \A x, y \in Process :
            /\ <<r, y>> \in monitored[x] => x = p /\ y = q
            /\ <<r, x>> \in monitors[y] => x = p /\ y = q
    /\ \A x \in Process : DownsIn(mailbox[x], r) # {} => x = p
    /\ Upgrades(q) => <<r, p>> \in monitors[q]

Paired ==
    \A p, q \in Process, r \in Reference : <<r, q>> \in monitored[p] => OnlyFor(p, q, r)

(* Only a process that is there has tables, and it has been spawned.            *)
Spawned ==
    \A p, q \in Process, r \in Reference : <<r, q>> \in monitored[p] \cup monitors[p] =>
        Upgrades(p) /\ status[q] # "Unrunnable"

Notifying == at = "propagate" => to_notify \subseteq monitors[current]

(* What was flushed is nowhere.                                                 *)
Gone ==
    \A r \in flushed, p \in Process :
        /\ DownsIn(mailbox[p], r) = {}
        /\ \A q \in Process : <<r, q>> \notin monitored[p] \cup monitors[p]

OneDown ==
    \A p, q \in Process, r \in Reference : <<r, q>> \in monitored[p] =>
        IF Fired(p, q, r) THEN One(DownsIn(mailbox[p], r)) ELSE DownsIn(mailbox[p], r) = {}

Monitoring == Numbered /\ Paired /\ Spawned /\ Notifying /\ Gone /\ OneDown

(* Whose reference is in a table of monitors.                                   *)
LEMMA OneMonitor ==
    ASSUME Paired, NEW p \in Process, NEW q \in Process, NEW x \in Process, NEW y \in Process,
           NEW r \in Reference, <<r, q>> \in monitored[p], <<r, x>> \in monitors[y]
    PROVE  x = p /\ y = q
<1>1. OnlyFor(p, q, r)
  BY Zenon DEF Paired
<1> QED BY Zenon, <1>1 DEF OnlyFor

(* A message is pushed at the end of the mailbox.                               *)
LEMMA AppendDowns ==
    ASSUME NEW s \in Seq(Message), NEW m \in Message, NEW r
    PROVE  DownsIn(Append(s, m), r) =
               IF m.tag = "DOWN" /\ m.reference = r THEN DownsIn(s, r) \cup {Len(s) + 1} ELSE DownsIn(s, r)
<1>1. /\ Len(Append(s, m)) = Len(s) + 1 /\ Append(s, m)[Len(s) + 1] = m /\ Len(s) \in Nat
      /\ \A i \in 1..Len(s) : Append(s, m)[i] = s[i]
  OBVIOUS
<1>2. 1..(Len(s) + 1) = 1..Len(s) \cup {Len(s) + 1}
  BY <1>1
<1> QED BY Zenon, <1>1, <1>2 DEF DownsIn

(* Without one element the elements after it move forward.                      *)
LEMMA WithoutOne ==
    ASSUME NEW s \in Seq(Message), NEW f \in 1..Len(s)
    PROVE  LET t == SubSeq(s, 1, f - 1) \o SubSeq(s, f + 1, Len(s)) IN
           /\ Len(t) = Len(s) - 1
           /\ \A i \in 1..(f - 1) : t[i] = s[i]
           /\ \A i \in f..(Len(s) - 1) : t[i] = s[i + 1]
<1> DEFINE a == SubSeq(s, 1, f - 1)
           b == SubSeq(s, f + 1, Len(s))
<1>1. /\ a \in Seq(Message) /\ Len(a) = f - 1 /\ \A i \in 1..(f - 1) : a[i] = s[i]
  OBVIOUS
<1>2. /\ b \in Seq(Message) /\ Len(b) = Len(s) - f /\ \A i \in 1..(Len(s) - f) : b[i] = s[f + i]
  OBVIOUS
<1>3. Len(s) \in Nat /\ f \in Nat /\ f >= 1 /\ f <= Len(s)
  OBVIOUS
<1> HIDE DEF a, b
<1>4. Len(a \o b) = Len(s) - 1
  <2>0. a \in Seq(Message) /\ b \in Seq(Message)
    BY Zenon, <1>1, <1>2
  <2>1. Len(a \o b) = Len(a) + Len(b)
    BY ONLY <2>0
  <2>2. (f - 1) + (Len(s) - f) = Len(s) - 1
    BY <1>3
  <2> QED BY Zenon, <1>1, <1>2, <2>1, <2>2
<1>5. \A i \in 1..(f - 1) : (a \o b)[i] = s[i]
  BY <1>1, <1>2, <1>3
<1>6. ASSUME NEW i \in f..(Len(s) - 1) PROVE (a \o b)[i] = s[i + 1]
  <2>1. i - Len(a) \in 1..(Len(s) - f) /\ i \in 1..(Len(a) + Len(b)) /\ i > Len(a)
    BY <1>1, <1>2, <1>3
  <2>2. (a \o b)[i] = b[i - Len(a)]
    BY <1>1, <1>2, <2>1
  <2>3. f + (i - Len(a)) = i + 1
    BY <1>1, <1>3
  <2> QED BY Zenon, <1>2, <2>1, <2>2, <2>3
<1> QED BY Zenon, <1>4, <1>5, <1>6 DEF a, b

(* Mailbox::flush takes the DOWN message of the reference, when there is one,   *)
(* and no other.                                                                *)
LEMMA FlushDowns ==
    ASSUME NEW s \in Seq(Message), NEW r, DownsIn(s, r) = {} \/ One(DownsIn(s, r))
    PROVE  /\ DownsIn(Flush(s, r), r) = {}
           /\ \A x : /\ DownsIn(s, x) = {} => DownsIn(Flush(s, r), x) = {}
                     /\ x # r /\ One(DownsIn(s, x)) => One(DownsIn(Flush(s, r), x))
<1>1. CASE DownsIn(s, r) = {}
  BY Zenon, <1>1 DEF DownsIn, Flush
<1>2. ASSUME NEW f \in DownsIn(s, r), DownsIn(s, r) = {f}
      PROVE  /\ DownsIn(Flush(s, r), r) = {}
             /\ \A x : /\ DownsIn(s, x) = {} => DownsIn(Flush(s, r), x) = {}
                       /\ x # r /\ One(DownsIn(s, x)) => One(DownsIn(Flush(s, r), x))
  <2> DEFINE t == SubSeq(s, 1, f - 1) \o SubSeq(s, f + 1, Len(s))
  <2>1. f \in 1..Len(s) /\ s[f].tag = "DOWN" /\ s[f].reference = r /\ Len(s) \in Nat
    BY DEF DownsIn
  <2>2. Flush(s, r) = t
    <3>1. {i \in 1..Len(s) : s[i].tag = "DOWN" /\ s[i].reference = r} = {f}
      BY Zenon, <1>2 DEF DownsIn
    <3>2. (CHOOSE i \in {f} : \A j \in {f} : i <= j) = f
      BY <2>1
    <3> QED BY Zenon, <3>1, <3>2 DEF Flush
  <2>3. /\ Len(t) = Len(s) - 1
        /\ \A i \in 1..(f - 1) : t[i] = s[i]
        /\ \A i \in f..(Len(s) - 1) : t[i] = s[i + 1]
    BY Zenon, <2>1, WithoutOne
  <2> HIDE DEF t
  <2>4. \A i \in 1..Len(t) : \/ i < f /\ i \in 1..Len(s) /\ t[i] = s[i]
                             \/ i >= f /\ i + 1 \in 1..Len(s) /\ t[i] = s[i + 1]
    BY <2>1, <2>3
  <2>5. ASSUME NEW x, NEW i \in DownsIn(t, x)
        PROVE  \/ i < f /\ i \in DownsIn(s, x)
               \/ i >= f /\ i + 1 \in DownsIn(s, x)
    <3>1. i \in 1..Len(t) /\ t[i].tag = "DOWN" /\ t[i].reference = x
      BY Zenon DEF DownsIn
    <3>2. CASE i < f /\ i \in 1..Len(s) /\ t[i] = s[i]
      BY Zenon, <3>1, <3>2 DEF DownsIn
    <3>3. CASE i >= f /\ i + 1 \in 1..Len(s) /\ t[i] = s[i + 1]
      BY Zenon, <3>1, <3>3 DEF DownsIn
    <3> QED BY Zenon, <2>4, <3>1, <3>2, <3>3
  <2>6. DownsIn(t, r) = {}
    <3> SUFFICES ASSUME NEW i \in DownsIn(t, r) PROVE FALSE
      BY Zenon
    <3>1. i \in Nat
      BY <2>1, <2>3 DEF DownsIn
    <3> QED BY <1>2, <2>1, <2>5, <3>1
  <2>7. \A x : DownsIn(s, x) = {} => DownsIn(t, x) = {}
    BY Zenon, <2>5
  <2>8. ASSUME NEW x, x # r, NEW k \in DownsIn(s, x), DownsIn(s, x) = {k} PROVE One(DownsIn(t, x))
    <3>1. k \in 1..Len(s) /\ s[k].tag = "DOWN" /\ s[k].reference = x /\ k # f
      BY Zenon, <2>1, <2>8 DEF DownsIn
    <3>2. CASE k < f
      <4>1. k \in DownsIn(t, x)
        BY <2>1, <2>3, <3>1, <3>2 DEF DownsIn
      <4>2. \A i \in DownsIn(t, x) : i \in Nat
        BY DEF DownsIn
      <4>3. \A i \in DownsIn(t, x) : i = k
        BY <2>1, <2>5, <2>8, <3>1, <3>2, <4>2
      <4> QED BY Zenon, <4>1, <4>3 DEF One
    <3>3. CASE k > f
      <4>1. k - 1 \in DownsIn(t, x)
        BY <2>1, <2>3, <3>1, <3>3 DEF DownsIn
      <4>2. \A i \in DownsIn(t, x) : i \in Nat
        BY DEF DownsIn
      <4>3. ASSUME NEW i \in DownsIn(t, x) PROVE i = k - 1
        <5>1. (i < f /\ i \in DownsIn(s, x)) \/ i + 1 \in DownsIn(s, x)
          BY ONLY Zenon, <2>5, <4>3
        <5>2. i \in Nat /\ k \in Nat /\ f \in Nat
          BY <2>1, <3>1, <4>2
        <5>3. i + 1 = k \/ (i = k /\ i < f)
          BY Zenon, <2>8, <5>1
        <5> QED BY <3>3, <5>2, <5>3
      <4> QED BY Zenon, <4>1, <4>3 DEF One
    <3> QED BY <2>1, <3>1, <3>2, <3>3
  <2> QED BY Zenon, <2>2, <2>6, <2>7, <2>8 DEF One
<1> QED BY Zenon, <1>1, <1>2 DEF One

(* Who is there after a step.                                                   *)
LEMMA ThereFacts ==
    ASSUME SInv, [SignalsNext]_allVars, NEW x \in Process
    PROVE  /\ Upgrades(x)' => Upgrades(x) \/ status[x] = "Unrunnable"
           /\ Upgrades(x) /\ ~Upgrades(x)' => at = "propagate" /\ at' = "timeout" /\ x = current
           /\ status'[x] = "Unrunnable" => status[x] = "Unrunnable"
<1>1. IInv /\ [Next]_vars
  BY Zenon, StepIsScheduled DEF SInv
<1> QED BY Zenon, <1>1, UpgradesFacts, UpgradesStay, StatusFacts DEF Propagated

(* A monitor fires by the exit of the process, not by any other step.           *)
LEMMA FiredStays ==
    ASSUME SInv, Spawned, [SignalsNext]_allVars, at # "propagate", at' # "propagate",
           NEW p \in Process, NEW q \in Process, NEW r \in Reference, <<r, q>> \in monitored[p]
    PROVE  Fired(p, q, r)' <=> Fired(p, q, r)
<1>1. status[q] # "Unrunnable"
  BY Zenon DEF Spawned
<1>2. Upgrades(q)' <=> Upgrades(q)
  BY Zenon, <1>1, ThereFacts
<1> QED BY Zenon, <1>2 DEF Fired

(* A step that changes no table.                                                *)
LEMMA MonitorsStay ==
    ASSUME SInv, Monitoring, [SignalsNext]_allVars, ~(at = "propagate" /\ at' = "timeout"),
           UNCHANGED <<monitored, monitors, next_reference, flushed>>,
           \A x \in Process, r \in Reference : DownsIn(mailbox'[x], r) = DownsIn(mailbox[x], r),
           \A p, q \in Process, r \in Reference :
                <<r, q>> \in monitored[p] => (Fired(p, q, r)' <=> Fired(p, q, r)),
           Notifying'
    PROVE  Monitoring'
<1>0. Numbered /\ Paired /\ Spawned /\ Gone /\ OneDown /\ flushed \subseteq Reference
  BY Zenon DEF Monitoring, SInv, SignalsTypeOK
<1>1. \A x \in Process : /\ Upgrades(x)' => Upgrades(x) \/ status[x] = "Unrunnable"
                         /\ Upgrades(x) => Upgrades(x)'
                         /\ status'[x] = "Unrunnable" => status[x] = "Unrunnable"
  BY Zenon, ThereFacts
<1>2. Numbered'
  BY Zenon, <1>0 DEF Numbered
<1>3. Spawned'
  BY Zenon, <1>0, <1>1 DEF Spawned
<1>4. Paired'
  <2> SUFFICES ASSUME NEW p \in Process, NEW q \in Process, NEW r \in Reference, <<r, q>> \in monitored'[p]
               PROVE  OnlyFor(p, q, r)'
    BY Zenon DEF Paired
  <2>0. <<r, q>> \in monitored[p]
    BY Zenon
  <2>1. status[q] # "Unrunnable"
    BY Zenon, <1>0, <2>0 DEF Spawned
  <2>2. OnlyFor(p, q, r)
    BY Zenon, <1>0, <2>0 DEF Paired
  <2> QED BY Zenon, <1>1, <2>1, <2>2 DEF OnlyFor
<1>5. Gone'
  BY Zenon, <1>0 DEF Gone
<1>6. OneDown'
  BY Zenon, <1>0 DEF OneDown
<1> QED BY Zenon, <1>2, <1>3, <1>4, <1>5, <1>6 DEF Monitoring

(* process::monitor: a new reference enters both tables.                        *)
LEMMA NewMonitor ==
    ASSUME SInv, Monitoring, [SignalsNext]_allVars, at = "running", at' = "running",
           NEW c \in Process, c # current, MonitoredWith(current, c), Upgrades(c)',
           status'[c] # "Unrunnable", next_reference < MaxReferences,
           next_reference' = next_reference + 1, UNCHANGED <<mailbox, flushed>>
    PROVE  Monitoring'
<1> DEFINE n == next_reference
<1>0. /\ Numbered /\ Paired /\ Spawned /\ Gone /\ OneDown /\ flushed \subseteq Reference
      /\ current \in Process /\ Reference \subseteq Int /\ n \in Reference
      /\ monitored \in [Process -> SUBSET (Reference \X Process)]
      /\ monitors \in [Process -> SUBSET (Reference \X Process)]
  BY CurrentFacts, ReferenceAssumption DEF Monitoring, SInv, SignalsTypeOK, Reference
<1>1. \A x \in Process : /\ Upgrades(x)' => Upgrades(x) \/ status[x] = "Unrunnable"
                         /\ Upgrades(x) => Upgrades(x)'
                         /\ status'[x] = "Unrunnable" => status[x] = "Unrunnable"
  BY Zenon, ThereFacts
<1>2. /\ \A x \in Process : monitored'[x] = IF x = current THEN monitored[x] \cup {<<n, c>>} ELSE monitored[x]
      /\ \A x \in Process : monitors'[x] = IF x = c THEN monitors[x] \cup {<<n, current>>} ELSE monitors[x]
  BY Zenon, <1>0 DEF MonitoredWith
<1>3. \A p, q \in Process, r \in Reference :
        /\ <<r, q>> \in monitored'[p] <=> <<r, q>> \in monitored[p] \/ (p = current /\ q = c /\ r = n)
        /\ <<r, q>> \in monitors'[p] <=> <<r, q>> \in monitors[p] \/ (p = c /\ q = current /\ r = n)
  <2> HIDE DEF n
  <2> TAKE p, q \in Process, r \in Reference
  <2>0. \A x, y : <<r, x>> = <<n, y>> <=> r = n /\ x = y
    BY Zenon
  <2>1. <<r, q>> \in monitored'[p] <=> <<r, q>> \in monitored[p] \/ (p = current /\ q = c /\ r = n)
    <3>1. monitored'[p] = IF p = current THEN monitored[p] \cup {<<n, c>>} ELSE monitored[p]
      BY Zenon, <1>2
    <3> QED BY ONLY Zenon, <2>0, <3>1
  <2>2. <<r, q>> \in monitors'[p] <=> <<r, q>> \in monitors[p] \/ (p = c /\ q = current /\ r = n)
    <3>1. monitors'[p] = IF p = c THEN monitors[p] \cup {<<n, current>>} ELSE monitors[p]
      BY Zenon, <1>2
    <3> QED BY ONLY Zenon, <2>0, <3>1
  <2> QED BY Zenon, <2>1, <2>2
<1>4. \A p, q \in Process : /\ <<n, q>> \notin monitored[p] /\ <<n, q>> \notin monitors[p]
                            /\ DownsIn(mailbox[p], n) = {} /\ n \notin flushed
  <2>1. ~(n < next_reference)
    BY <1>0
  <2> QED BY Zenon, <1>0, <2>1 DEF Numbered
<1>5. Upgrades(current) /\ status[current] # "Unrunnable"
  BY Zenon, <1>0, CurrentFacts DEF Upgrades
<1> HIDE DEF n
<1>6. Numbered'
  <2>1. n < next_reference' /\ \A r \in Reference : r < next_reference => r < next_reference'
    BY <1>0 DEF n
  <2> QED BY Zenon, <1>0, <1>3, <2>1 DEF Numbered
<1>7. Spawned'
  BY <1>0, <1>1, <1>3, <1>5 DEF Spawned
<1>8. Gone'
  <2> SUFFICES ASSUME NEW r \in flushed, NEW p \in Process, NEW q \in Process
               PROVE  /\ DownsIn(mailbox[p], r) = {}
                      /\ <<r, q>> \notin monitored'[p] /\ <<r, q>> \notin monitors'[p]
    BY Zenon DEF Gone
  <2>1. r \in Reference /\ r # n
    BY Zenon, <1>0, <1>4
  <2>2. /\ DownsIn(mailbox[p], r) = {}
        /\ <<r, q>> \notin monitored[p] /\ <<r, q>> \notin monitors[p]
    BY Zenon, <1>0 DEF Gone
  <2> QED BY Zenon, <1>3, <2>1, <2>2
<1>9. Paired'
  <2> SUFFICES ASSUME NEW p \in Process, NEW q \in Process, NEW r \in Reference, <<r, q>> \in monitored'[p]
               PROVE  OnlyFor(p, q, r)'
    BY Zenon DEF Paired
  <2>1. CASE r = n
    <3>1. p = current /\ q = c
      BY Zenon, <1>3, <1>4, <2>1
    <3> QED BY Zenon, <1>0, <1>3, <1>4, <2>1, <3>1 DEF OnlyFor
  <2>2. CASE r # n
    <3>1. <<r, q>> \in monitored[p] /\ status[q] # "Unrunnable"
      BY <1>0, <1>3, <2>2 DEF Spawned
    <3>2. \A x, y \in Process : /\ <<r, y>> \in monitored'[x] => <<r, y>> \in monitored[x]
                                /\ <<r, y>> \in monitors'[x] <=> <<r, y>> \in monitors[x]
      BY Zenon, <1>3, <2>2
    <3>3. OnlyFor(p, q, r)
      BY Zenon, <1>0, <3>1 DEF Paired
    <3> QED BY Zenon, <1>1, <3>1, <3>2, <3>3 DEF OnlyFor
  <2> QED BY Zenon, <2>1, <2>2
<1>10. OneDown'
  <2> SUFFICES ASSUME NEW p \in Process, NEW q \in Process, NEW r \in Reference, <<r, q>> \in monitored'[p]
               PROVE  IF Fired(p, q, r)' THEN One(DownsIn(mailbox[p], r)) ELSE DownsIn(mailbox[p], r) = {}
    BY Zenon DEF OneDown
  <2>1. CASE r = n
    <3>1. q = c /\ ~Fired(p, q, r)'
      BY <1>3, <1>4, <2>1 DEF Fired
    <3> QED BY Zenon, <1>4, <2>1, <3>1
  <2>2. CASE r # n
    <3>1. <<r, q>> \in monitored[p]
      BY Zenon, <1>3, <2>2
    <3>2. Fired(p, q, r)' <=> Fired(p, q, r)
      BY Zenon, <1>0, <3>1, FiredStays
    <3> QED BY Zenon, <1>0, <3>1, <3>2 DEF OneDown
  <2> QED BY Zenon, <2>1, <2>2
<1>11. Notifying'
  BY Zenon DEF Notifying
<1> QED BY Zenon, <1>6, <1>7, <1>8, <1>9, <1>10, <1>11 DEF Monitoring

(* monitor/2 of a process that is gone: a DOWN message with a new reference,    *)
(* which is in no table.                                                        *)
LEMMA MonitorKeeps ==
    ASSUME MonitorSelf = FALSE, SInv, Monitoring, [SignalsNext]_allVars, NEW q \in Process, Monitor(q)
    PROVE  Monitoring'
<1>0. /\ Numbered /\ Paired /\ Spawned /\ Gone /\ OneDown /\ flushed \subseteq Reference
      /\ current \in Process /\ Reference \subseteq Int /\ next_reference \in Reference
      /\ mailbox \in [Process -> Seq(Message)]
  BY CurrentFacts, ReferenceAssumption DEF Monitoring, SInv, SignalsTypeOK, Reference, Monitor
<1>1. /\ at = "running" /\ at' = "running" /\ next_reference < MaxReferences /\ q # current
      /\ next_reference' = next_reference + 1 /\ UNCHANGED flushed
      /\ status' = status /\ run_queues' = run_queues /\ current' = current
      /\ status[q] # "Unrunnable"
  BY Zenon DEF Monitor, vars
<1>2. CASE Upgrades(q)
  <2>1. MonitoredWith(current, q) /\ UNCHANGED mailbox
    BY Zenon, <1>2 DEF Monitor
  <2>2. Upgrades(q)'
    BY Zenon, <1>1, <1>2 DEF Upgrades, Queued
  <2> QED BY Zenon, <1>1, <2>1, <2>2, NewMonitor
<1>3. CASE ~Upgrades(q)
  <2> DEFINE n == next_reference
  <2>1. /\ Push(current, Down(n)) /\ UNCHANGED <<monitored, monitors>>
    BY Zenon, <1>3 DEF Monitor
  <2>2. /\ Down(n) \in Message
        /\ Down(n).tag = "DOWN" /\ Down(n).reference = n
    <3>1. Down(n) \in Message
      BY <1>0 DEF Message
    <3> QED BY Zenon, <3>1 DEF Down
  <2>3. \A x \in Process : mailbox'[x] = IF x = current THEN Append(mailbox[x], Down(n)) ELSE mailbox[x]
    BY Zenon, <1>0, <2>1 DEF Push
  <2>4. \A x \in Process, r \in Reference : r # n => DownsIn(mailbox'[x], r) = DownsIn(mailbox[x], r)
    <3> TAKE x \in Process, r \in Reference
    <3> HAVE r # n
    <3>1. mailbox[x] \in Seq(Message)
      BY Zenon, <1>0
    <3>2. DownsIn(Append(mailbox[x], Down(n)), r) = DownsIn(mailbox[x], r)
      BY Zenon, <2>2, <3>1, AppendDowns
    <3> QED BY Zenon, <2>3, <3>2
  <2>5. \A p, y \in Process : <<n, y>> \notin monitored[p] /\ <<n, y>> \notin monitors[p] /\ n \notin flushed
    <3>1. ~(n < next_reference)
      BY <1>0
    <3> QED BY Zenon, <1>0, <3>1 DEF Numbered
  <2>6. n < next_reference' /\ \A r \in Reference : r < next_reference => r < next_reference'
    BY <1>0, <1>1
  <2>7. \A x \in Process : Upgrades(x)' <=> Upgrades(x)
    BY Zenon, <1>1 DEF Upgrades, Queued
  <2> HIDE DEF n
  <2>8. Numbered'
    <3> SUFFICES ASSUME NEW p \in Process, NEW r \in Reference,
                        \/ \E y \in Process : <<r, y>> \in monitored[p] \cup monitors[p]
                        \/ DownsIn(mailbox'[p], r) # {}
                        \/ r \in flushed
                 PROVE  r < next_reference'
      BY Zenon, <1>1, <2>1 DEF Numbered
    <3>1. CASE r = n
      BY Zenon, <2>6, <3>1
    <3>2. CASE r # n
      BY Zenon, <1>0, <2>4, <2>6, <3>2 DEF Numbered
    <3> QED BY Zenon, <3>1, <3>2
  <2>9. Spawned'
    BY Zenon, <1>0, <1>1, <2>1, <2>7 DEF Spawned
  <2>10. ASSUME NEW p \in Process, NEW y \in Process, NEW r \in Reference, <<r, y>> \in monitored[p]
         PROVE  r # n /\ \A x \in Process : DownsIn(mailbox'[x], r) = DownsIn(mailbox[x], r)
    BY Zenon, <2>4, <2>5, <2>10
  <2>11. Paired'
    <3> SUFFICES ASSUME NEW p \in Process, NEW y \in Process, NEW r \in Reference, <<r, y>> \in monitored'[p]
                 PROVE  OnlyFor(p, y, r)'
      BY Zenon DEF Paired
    <3>1. <<r, y>> \in monitored[p]
      BY Zenon, <2>1
    <3>2. OnlyFor(p, y, r)
      BY Zenon, <1>0, <3>1 DEF Paired
    <3> QED BY Zenon, <2>1, <2>7, <2>10, <3>1, <3>2 DEF OnlyFor
  <2>12. Gone'
    <3>1. \A r \in flushed : r \in Reference /\ r # n
      BY Zenon, <1>0, <2>5
    <3> QED BY Zenon, <1>0, <1>1, <2>1, <2>4, <3>1 DEF Gone
  <2>13. OneDown'
    <3> SUFFICES ASSUME NEW p \in Process, NEW y \in Process, NEW r \in Reference, <<r, y>> \in monitored[p]
                 PROVE  IF Fired(p, y, r)' THEN One(DownsIn(mailbox'[p], r)) ELSE DownsIn(mailbox'[p], r) = {}
      BY Zenon, <2>1 DEF OneDown
    <3>1. Fired(p, y, r)' <=> Fired(p, y, r)
      BY Zenon, <1>0, <1>1, FiredStays
    <3> QED BY Zenon, <1>0, <2>10, <3>1 DEF OneDown
  <2>14. Notifying'
    BY Zenon, <1>1 DEF Notifying
  <2> QED BY Zenon, <2>8, <2>9, <2>11, <2>12, <2>13, <2>14 DEF Monitoring
<1> QED BY Zenon, <1>2, <1>3

(* demonitor/2 takes the reference out of both tables and, with flush, out of   *)
(* the mailbox.                                                                 *)
LEMMA DemonitorKeeps ==
    ASSUME SInv, Monitoring, [SignalsNext]_allVars, NEW n \in Reference, NEW flush \in BOOLEAN,
           DemonitorFound(n, flush)
    PROVE  Monitoring'
<1>0. /\ Numbered /\ Paired /\ Spawned /\ Gone /\ OneDown /\ flushed \subseteq Reference
      /\ current \in Process
      /\ mailbox \in [Process -> Seq(Message)]
      /\ monitored \in [Process -> SUBSET (Reference \X Process)]
      /\ monitors \in [Process -> SUBSET (Reference \X Process)]
  BY Zenon, CurrentFacts DEF Monitoring, SInv, SignalsTypeOK, DemonitorFound
<1>1. /\ at = "running" /\ at' = "running" /\ next_reference' = next_reference
      /\ status' = status /\ run_queues' = run_queues /\ current' = current
      /\ flushed' = (IF flush THEN flushed \cup {n} ELSE flushed)
      /\ mailbox' = (IF flush THEN [mailbox EXCEPT ![current] = Flush(@, n)] ELSE mailbox)
  BY Zenon DEF DemonitorFound, vars
<1>2. PICK c \in Process :
        /\ <<n, c>> \in monitored[current]
        /\ monitored' = [monitored EXCEPT ![current] = @ \ {<<n, c>>}]
        /\ monitors' = IF Upgrades(c) THEN [monitors EXCEPT ![c] = @ \ {<<n, current>>}] ELSE monitors
  BY Zenon DEF DemonitorFound
<1>3. \A x \in Process : Upgrades(x)' <=> Upgrades(x)
  BY Zenon, <1>1 DEF Upgrades, Queued
<1>4. /\ \A x, y \in Process : /\ <<n, y>> \in monitored[x] => x = current /\ y = c
                               /\ <<n, x>> \in monitors[y] => x = current /\ y = c
      /\ \A x \in Process : DownsIn(mailbox[x], n) # {} => x = current
      /\ DownsIn(mailbox[current], n) = {} \/ One(DownsIn(mailbox[current], n))
  <2>1. OnlyFor(current, c, n)
    BY Zenon, <1>0, <1>2 DEF Paired
  <2>2. DownsIn(mailbox[current], n) = {} \/ One(DownsIn(mailbox[current], n))
    BY Zenon, <1>0, <1>2 DEF OneDown
  <2> QED BY Zenon, <2>1, <2>2 DEF OnlyFor
<1>5. \A x, y \in Process, r \in Reference :
        /\ <<r, y>> \in monitored'[x] => r # n /\ <<r, y>> \in monitored[x]
        /\ <<r, y>> \in monitors'[x] => r # n /\ <<r, y>> \in monitors[x]
        /\ r # n /\ <<r, y>> \in monitors[x] => <<r, y>> \in monitors'[x]
  <2>1. ASSUME NEW x \in Process, NEW y \in Process, NEW r \in Reference, <<r, y>> \in monitored'[x]
        PROVE  r # n /\ <<r, y>> \in monitored[x]
    <3>1. <<r, y>> \in monitored[x] /\ ~(x = current /\ <<r, y>> = <<n, c>>)
      BY Zenon, <1>0, <1>2, <2>1
    <3> QED BY Zenon, <1>4, <3>1
  <2>2. ASSUME NEW x \in Process, NEW y \in Process, NEW r \in Reference, <<r, y>> \in monitors'[x]
        PROVE  r # n /\ <<r, y>> \in monitors[x]
    <3>1. <<r, y>> \in monitors[x] /\ (Upgrades(c) => ~(x = c /\ <<r, y>> = <<n, current>>))
      BY Zenon, <1>0, <1>2, <2>2
    <3>2. Upgrades(x)
      BY Zenon, <1>0, <3>1 DEF Spawned
    <3> QED BY Zenon, <1>4, <3>1, <3>2
  <2>3. ASSUME NEW x \in Process, NEW y \in Process, NEW r \in Reference, r # n, <<r, y>> \in monitors[x]
        PROVE  <<r, y>> \in monitors'[x]
    <3>1. <<r, y>> # <<n, current>>
      BY Zenon, <2>3
    <3> QED BY Zenon, <1>0, <1>2, <2>3, <3>1
  <2> QED BY Zenon, <2>1, <2>2, <2>3
<1>6. \A x \in Process : mailbox[x] \in Seq(Message)
  BY Zenon, <1>0
<1>7. /\ \A x \in Process : flush => DownsIn(mailbox'[x], n) = {}
      /\ \A x \in Process, r \in Reference :
            /\ DownsIn(mailbox[x], r) = {} => DownsIn(mailbox'[x], r) = {}
            /\ r # n /\ One(DownsIn(mailbox[x], r)) => One(DownsIn(mailbox'[x], r))
  <2>1. CASE flush
    <3>1. \A x \in Process : mailbox'[x] = IF x = current THEN Flush(mailbox[x], n) ELSE mailbox[x]
      BY Zenon, <1>0, <1>1, <2>1
    <3>2. /\ DownsIn(Flush(mailbox[current], n), n) = {}
          /\ \A r : /\ DownsIn(mailbox[current], r) = {} => DownsIn(Flush(mailbox[current], n), r) = {}
                    /\ r # n /\ One(DownsIn(mailbox[current], r)) => One(DownsIn(Flush(mailbox[current], n), r))
      BY Zenon, <1>0, <1>4, <1>6, FlushDowns
    <3> QED BY Zenon, <1>0, <1>4, <3>1, <3>2
  <2>2. CASE ~flush
    BY Zenon, <1>1, <2>2
  <2> QED BY Zenon, <2>1, <2>2
<1>8. Numbered'
  <2> SUFFICES ASSUME NEW p \in Process, NEW r \in Reference,
                      \/ \E y \in Process : <<r, y>> \in monitored'[p] \cup monitors'[p]
                      \/ DownsIn(mailbox'[p], r) # {}
                      \/ r \in flushed'
               PROVE  r < next_reference
    BY Zenon, <1>1 DEF Numbered
  <2>1. n < next_reference
    BY Zenon, <1>0, <1>2 DEF Numbered
  <2>2. CASE r = n
    BY Zenon, <2>1, <2>2
  <2>3. CASE r # n
    BY Zenon, <1>0, <1>1, <1>5, <1>7, <2>3 DEF Numbered
  <2> QED BY Zenon, <2>2, <2>3
<1>9. Spawned'
  BY Zenon, <1>0, <1>1, <1>3, <1>5 DEF Spawned
<1>10. Paired'
  <2> SUFFICES ASSUME NEW p \in Process, NEW q \in Process, NEW r \in Reference, <<r, q>> \in monitored'[p]
               PROVE  OnlyFor(p, q, r)'
    BY Zenon DEF Paired
  <2>1. r # n /\ <<r, q>> \in monitored[p]
    BY Zenon, <1>5
  <2>2. OnlyFor(p, q, r)
    BY Zenon, <1>0, <2>1 DEF Paired
  <2> QED BY Zenon, <1>3, <1>5, <1>7, <2>1, <2>2 DEF OnlyFor
<1>11. Gone'
  <2> SUFFICES ASSUME NEW r \in flushed', NEW p \in Process, NEW q \in Process
               PROVE  /\ DownsIn(mailbox'[p], r) = {}
                      /\ <<r, q>> \notin monitored'[p] /\ <<r, q>> \notin monitors'[p]
    BY Zenon DEF Gone
  <2>1. CASE r \in flushed
    BY Zenon, <1>0, <1>5, <1>7, <2>1 DEF Gone
  <2>2. CASE r = n /\ flush
    BY Zenon, <1>5, <1>7, <2>2
  <2> QED BY Zenon, <1>1, <2>1, <2>2
<1>12. OneDown'
  <2> SUFFICES ASSUME NEW p \in Process, NEW q \in Process, NEW r \in Reference, <<r, q>> \in monitored'[p]
               PROVE  IF Fired(p, q, r)' THEN One(DownsIn(mailbox'[p], r)) ELSE DownsIn(mailbox'[p], r) = {}
    BY Zenon DEF OneDown
  <2>1. r # n /\ <<r, q>> \in monitored[p]
    BY <1>5
  <2>2. Fired(p, q, r)' <=> Fired(p, q, r)
    BY Zenon, <1>0, <1>1, <2>1, FiredStays
  <2> QED BY Zenon, <1>0, <1>7, <2>1, <2>2 DEF OneDown
<1>13. Notifying'
  BY Zenon, <1>1 DEF Notifying
<1> QED BY Zenon, <1>8, <1>9, <1>10, <1>11, <1>12, <1>13 DEF Monitoring

(* monitor::propagate_exit: the DOWN message of a monitor that has not fired.   *)
LEMMA NotifyKeeps ==
    ASSUME SInv, Monitoring, [SignalsNext]_allVars, NEW n \in Reference, NEW m \in Process,
           NotifyMonitor(n, m)
    PROVE  Monitoring'
<1>0. /\ Numbered /\ Paired /\ Spawned /\ Gone /\ OneDown /\ flushed \subseteq Reference
      /\ current \in Process /\ mailbox \in [Process -> Seq(Message)] /\ Notifying
  BY Zenon, CurrentFacts DEF Monitoring, SInv, SignalsTypeOK, NotifyMonitor
<1>1. /\ at = "propagate" /\ <<n, m>> \in to_notify /\ to_notify' = to_notify \ {<<n, m>>}
      /\ UNCHANGED <<monitored, monitors, next_reference, flushed>>
      /\ m # current /\ at' = at /\ current' = current
  <2>1. m # current
    BY Zenon DEF NotifyMonitor, SInv, NoSelf
  <2> QED BY Zenon, <2>1 DEF NotifyMonitor, Notify, vars
<1>2. <<n, m>> \in monitors[current] /\ Notifying'
  BY Zenon, <1>0, <1>1 DEF Notifying
<1>3. Upgrades(current) /\ \A r, x : <<r, x>> = <<n, m>> <=> r = n /\ x = m
  BY Zenon DEF Upgrades
<1>4. ASSUME NEW p \in Process, NEW q \in Process, NEW r \in Reference, <<r, q>> \in monitored[p]
      PROVE  /\ Upgrades(q)' <=> Upgrades(q)
             /\ r = n => p = m /\ q = current
             /\ r # n => (Fired(p, q, r)' <=> Fired(p, q, r))
  <2>1. status[q] # "Unrunnable"
    BY Zenon, <1>0, <1>4 DEF Spawned
  <2>2. Upgrades(q)' <=> Upgrades(q)
    BY Zenon, <1>1, <2>1, ThereFacts
  <2>3. r = n => p = m /\ q = current
    BY Zenon, <1>0, <1>2, <1>4, OneMonitor
  <2>4. r # n => (<<r, p>> \in to_notify' <=> <<r, p>> \in to_notify)
    BY Zenon, <1>1, <1>3
  <2>5. r # n => (Fired(p, q, r)' <=> Fired(p, q, r))
    BY Zenon, <1>1, <2>2, <2>4 DEF Fired
  <2> QED BY Zenon, <2>2, <2>3, <2>5
<1>5. CASE ~Upgrades(m)
  <2>1. UNCHANGED mailbox
    BY Zenon, <1>5 DEF NotifyMonitor
  <2>2. \A p, q \in Process, r \in Reference : <<r, q>> \in monitored[p] => r # n
    BY Zenon, <1>0, <1>4, <1>5 DEF Spawned
  <2>3. \A p, q \in Process, r \in Reference : <<r, q>> \in monitored[p] => (Fired(p, q, r)' <=> Fired(p, q, r))
    BY Zenon, <1>4, <2>2
  <2> QED BY Zenon, <1>1, <1>2, <2>1, <2>3, MonitorsStay
<1>6. CASE Upgrades(m)
  <2>1. Push(m, Down(n))
    BY Zenon, <1>6 DEF NotifyMonitor
  <2>2. /\ Down(n) \in Message
        /\ Down(n).tag = "DOWN" /\ Down(n).reference = n
    <3>1. Down(n) \in Message
      BY DEF Message
    <3> QED BY Zenon, <3>1 DEF Down
  <2>3. /\ \A x \in Process : x # m => mailbox'[x] = mailbox[x]
        /\ mailbox'[m] = Append(mailbox[m], Down(n)) /\ mailbox[m] \in Seq(Message)
    BY Zenon, <1>0, <2>1 DEF Push
  <2>4. /\ \A r : r # n => DownsIn(mailbox'[m], r) = DownsIn(mailbox[m], r)
        /\ DownsIn(mailbox'[m], n) = DownsIn(mailbox[m], n) \cup {Len(mailbox[m]) + 1}
    BY <2>2, <2>3, AppendDowns
  <2>5. \A x \in Process, r \in Reference : x # m \/ r # n => DownsIn(mailbox'[x], r) = DownsIn(mailbox[x], r)
    BY Zenon, <2>3, <2>4
  <2>6. \A x \in Process : /\ Upgrades(x)' => Upgrades(x) \/ status[x] = "Unrunnable"
                           /\ Upgrades(x) => Upgrades(x)'
                           /\ status'[x] = "Unrunnable" => status[x] = "Unrunnable"
    BY Zenon, <1>1, ThereFacts
  <2>7. n < next_reference /\ n \notin flushed
    BY Zenon, <1>0, <1>2 DEF Numbered, Gone
  <2>8. Numbered'
    <3> SUFFICES ASSUME NEW p \in Process, NEW r \in Reference,
                        \/ \E y \in Process : <<r, y>> \in monitored[p] \cup monitors[p]
                        \/ DownsIn(mailbox'[p], r) # {}
                        \/ r \in flushed
                 PROVE  r < next_reference
      BY Zenon, <1>1 DEF Numbered
    <3>1. CASE r = n
      BY Zenon, <2>7, <3>1
    <3>2. CASE r # n
      BY Zenon, <1>0, <2>5, <3>2 DEF Numbered
    <3> QED BY Zenon, <3>1, <3>2
  <2>9. Spawned'
    BY Zenon, <1>0, <1>1, <2>6 DEF Spawned
  <2>10. Gone'
    BY Zenon, <1>0, <1>1, <2>5, <2>7 DEF Gone
  <2>11. Paired'
    <3> SUFFICES ASSUME NEW p \in Process, NEW q \in Process, NEW r \in Reference, <<r, q>> \in monitored'[p]
                 PROVE  OnlyFor(p, q, r)'
      BY Zenon DEF Paired
    <3>0. <<r, q>> \in monitored[p]
      BY Zenon, <1>1
    <3>1. OnlyFor(p, q, r)
      BY Zenon, <1>0, <3>0 DEF Paired
    <3>2. \A x \in Process : DownsIn(mailbox'[x], r) # {} => x = p
      BY Zenon, <1>4, <2>5, <3>0, <3>1 DEF OnlyFor
    <3> QED BY Zenon, <1>1, <1>4, <3>0, <3>1, <3>2 DEF OnlyFor
  <2>12. OneDown'
    <3> SUFFICES ASSUME NEW p \in Process, NEW q \in Process, NEW r \in Reference, <<r, q>> \in monitored[p]
                 PROVE  IF Fired(p, q, r)' THEN One(DownsIn(mailbox'[p], r)) ELSE DownsIn(mailbox'[p], r) = {}
      BY Zenon, <1>1 DEF OneDown
    <3>1. CASE r # n
      BY Zenon, <1>0, <1>4, <2>5, <3>1 DEF OneDown
    <3>2. CASE r = n
      <4>1. p = m /\ q = current
        BY Zenon, <1>4, <3>2
      <4>2. ~Fired(p, q, r) /\ Fired(p, q, r)'
        BY Zenon, <1>1, <1>3, <3>2, <4>1 DEF Fired
      <4>3. DownsIn(mailbox[p], r) = {}
        BY Zenon, <1>0, <4>2 DEF OneDown
      <4>4. DownsIn(mailbox'[p], r) = {Len(mailbox[m]) + 1}
        BY Zenon, <2>4, <3>2, <4>1, <4>3
      <4> QED BY Zenon, <4>2, <4>4 DEF One
    <3> QED BY Zenon, <3>1, <3>2
  <2> QED BY Zenon, <1>2, <2>8, <2>9, <2>10, <2>11, <2>12 DEF Monitoring
<1> QED BY Zenon, <1>5, <1>6

(* The process is dropped with its tables: every monitor of it has fired.       *)
LEMMA PropagatedKeeps ==
    ASSUME SInv, Monitoring, [SignalsNext]_allVars, PropagatedSignals
    PROVE  Monitoring'
<1>0. /\ Numbered /\ Paired /\ Spawned /\ Gone /\ OneDown /\ IInv
      /\ current \in Process /\ mailbox \in [Process -> Seq(Message)]
      /\ monitored \in [Process -> SUBSET (Reference \X Process)]
      /\ monitors \in [Process -> SUBSET (Reference \X Process)]
  BY Zenon, CurrentFacts DEF Monitoring, SInv, SignalsTypeOK, PropagatedSignals, Propagated
<1>1. /\ at = "propagate" /\ at' = "timeout" /\ current' = NoProcess /\ to_notify = {}
      /\ status' = status /\ run_queues' = run_queues
      /\ UNCHANGED <<next_reference, flushed>>
      /\ \A x \in Process : x # current => /\ monitored'[x] = monitored[x] /\ monitors'[x] = monitors[x]
                                           /\ mailbox'[x] = mailbox[x]
      /\ monitored'[current] = {} /\ monitors'[current] = {} /\ mailbox'[current] = << >>
  BY Zenon, <1>0 DEF PropagatedSignals, Propagated
<1>2. \A r : DownsIn(mailbox'[current], r) = {}
  BY <1>1 DEF DownsIn
<1>3. \A x \in Process : Upgrades(x)' <=> Upgrades(x) /\ x # current
  <2>1. ~Queued(current)
    BY Zenon, <1>0 DEF IInv, InOnePlace
  <2> QED BY Zenon, <1>0, <1>1, <2>1, ProcessAssumption DEF Upgrades, Queued
<1>4. Numbered'
  BY Zenon, <1>0, <1>1, <1>2 DEF Numbered
<1>5. Spawned'
  BY Zenon, <1>0, <1>1, <1>3 DEF Spawned
<1>6. Gone'
  BY Zenon, <1>0, <1>1, <1>2 DEF Gone
<1>7. ASSUME NEW p \in Process, NEW q \in Process, NEW r \in Reference, <<r, q>> \in monitored'[p]
      PROVE  /\ OnlyFor(p, q, r)'
             /\ IF Fired(p, q, r)' THEN One(DownsIn(mailbox'[p], r)) ELSE DownsIn(mailbox'[p], r) = {}
  <2>1. p # current /\ <<r, q>> \in monitored[p] /\ mailbox'[p] = mailbox[p]
    BY Zenon, <1>1, <1>7
  <2>2. OnlyFor(p, q, r)
    BY Zenon, <1>0, <2>1 DEF Paired
  <2>3. Fired(p, q, r)' <=> Fired(p, q, r)
    BY Zenon, <1>1, <1>3 DEF Fired
  <2>4. IF Fired(p, q, r) THEN One(DownsIn(mailbox[p], r)) ELSE DownsIn(mailbox[p], r) = {}
    BY Zenon, <1>0, <2>1 DEF OneDown
  <2>5. \A x, y \in Process : /\ <<r, y>> \in monitored'[x] => <<r, y>> \in monitored[x]
                              /\ <<r, y>> \in monitors'[x] => <<r, y>> \in monitors[x]
    BY Zenon, <1>1
  <2>6. \A x \in Process : DownsIn(mailbox'[x], r) # {} => DownsIn(mailbox[x], r) # {}
    BY Zenon, <1>1, <1>2
  <2>7. Upgrades(q)' => <<r, p>> \in monitors'[q]
    BY Zenon, <1>1, <1>3, <2>2 DEF OnlyFor
  <2>8. OnlyFor(p, q, r)'
    BY Zenon, <2>2, <2>5, <2>6, <2>7 DEF OnlyFor
  <2> QED BY Zenon, <2>1, <2>3, <2>4, <2>8
<1>8. Paired'
  BY Zenon, <1>7 DEF Paired
<1>10. OneDown'
  BY Zenon, <1>7 DEF OneDown
<1>9. Notifying'
  BY Zenon, <1>1 DEF Notifying
<1> QED BY Zenon, <1>4, <1>5, <1>6, <1>8, <1>9, <1>10 DEF Monitoring

LEMMA MonitoringKept == MonitorSelf = FALSE /\ SInv /\ Monitoring /\ [SignalsNext]_allVars => Monitoring'
<1> SUFFICES ASSUME MonitorSelf = FALSE, SInv, Monitoring, [SignalsNext]_allVars PROVE Monitoring'
  BY Zenon
<1>0. Spawned /\ Paired /\ Notifying /\ mailbox \in [Process -> Seq(Message)]
  BY Zenon DEF Monitoring, SInv, SignalsTypeOK
<1>1. ASSUME at # "propagate", at' # "propagate",
             UNCHANGED <<monitored, monitors, next_reference, flushed, mailbox>>
      PROVE  Monitoring'
  <2>1. \A p, q \in Process, r \in Reference : <<r, q>> \in monitored[p] => (Fired(p, q, r)' <=> Fired(p, q, r))
    BY Zenon, <1>0, <1>1, FiredStays
  <2>2. Notifying'
    BY Zenon, <1>1 DEF Notifying
  <2> QED BY Zenon, <1>1, <2>1, <2>2, MonitorsStay
<1>2. CASE \/ \E q \in Process : Link(q) \/ Unlink(q)
           \/ \E flag \in BOOLEAN : TrapExit(flag)
           \/ \E raised \in Raised : RaiseReason(raised)
  BY Zenon, <1>1, <1>2 DEF Link, Unlink, TrapExit, RaiseReason, Raise, Return, vars
<1>3. CASE \E q \in Process : Monitor(q)
  BY Zenon, <1>3, MonitorKeeps
<1>4. CASE \E r \in Reference, flush \in BOOLEAN : DemonitorFound(r, flush)
  BY Zenon, <1>4, DemonitorKeeps
<1>5. ASSUME NEW c \in Process, NEW option \in SpawnPriorities, NEW link \in BOOLEAN,
             NEW monitor \in BOOLEAN, SpawnConnected(c, option, link, monitor)
      PROVE  Monitoring'
  <2>1. /\ at = "running" /\ at' = "running" /\ current \in Process /\ c # current
        /\ UNCHANGED <<mailbox, flushed>> /\ status'[c] = "Runnable"
    BY Zenon, <1>5, CurrentFacts DEF SpawnConnected, Spawn, SInv, IInv, TypeOK
  <2>2. Upgrades(c)'
    <3>1. IInv'
      BY Zenon, StepIsScheduled, StepKeepsIInv DEF SInv
    <3> QED BY Zenon, <2>1, <3>1 DEF IInv, InOnePlace
  <2>3. CASE monitor
    BY Zenon, <1>5, <2>1, <2>2, <2>3, NewMonitor DEF SpawnConnected
  <2>4. CASE ~monitor
    BY Zenon, <1>1, <1>5, <2>1, <2>4 DEF SpawnConnected
  <2> QED BY Zenon, <2>3, <2>4
<1>6. CASE RequeueSignals
  <2>1. /\ at = "requeue" /\ current \in Process /\ UNCHANGED <<monitored, monitors, next_reference, flushed, mailbox>>
    BY Zenon, <1>6, CurrentFacts DEF RequeueSignals, Requeue, tables
  <2>2. CASE at' = "propagate"
    <3>1. current' = current /\ to_notify' = monitors[current]
      BY Zenon, <1>6, <2>2 DEF RequeueSignals, Requeue
    <3>2. ASSUME NEW p \in Process, NEW q \in Process, NEW r \in Reference, <<r, q>> \in monitored[p]
          PROVE  Fired(p, q, r)' <=> Fired(p, q, r)
      <4>1. status[q] # "Unrunnable" /\ (Upgrades(q) => <<r, p>> \in monitors[q])
        <5>1. OnlyFor(p, q, r)
          BY Zenon, <1>0, <3>2 DEF Paired
        <5> QED BY Zenon, <1>0, <3>2, <5>1 DEF Spawned, OnlyFor
      <4>2. Upgrades(q)' <=> Upgrades(q)
        BY Zenon, <2>1, <4>1, ThereFacts
      <4>3. Upgrades(current)
        BY Zenon DEF Upgrades
      <4> QED BY Zenon, <2>1, <3>1, <4>1, <4>2, <4>3 DEF Fired
    <3>3. Notifying'
      BY Zenon, <2>1, <3>1 DEF Notifying
    <3> QED BY Zenon, <2>1, <3>2, <3>3, MonitorsStay
  <2>3. CASE at' # "propagate"
    BY Zenon, <1>1, <2>1, <2>3
  <2> QED BY Zenon, <2>2, <2>3
<1>7. CASE \E r \in Reference, m \in Process : NotifyMonitor(r, m)
  BY Zenon, <1>7, NotifyKeeps
<1>8. ASSUME NEW x \in Process, SignalLink(x) PROVE Monitoring'
  <2>1. /\ at = "propagate" /\ at' = at /\ current' = current /\ current \in Process
        /\ UNCHANGED <<monitored, monitors, next_reference, flushed, to_notify>>
    BY Zenon, <1>8, CurrentFacts DEF SignalLink, Notify, ExitLinked, vars
  <2>2. ASSUME NEW p \in Process, NEW q \in Process, NEW r \in Reference, <<r, q>> \in monitored[p]
        PROVE  Fired(p, q, r)' <=> Fired(p, q, r)
    <3>1. status[q] # "Unrunnable"
      BY Zenon, <1>0, <2>2 DEF Spawned
    <3>2. Upgrades(q)' <=> Upgrades(q)
      BY Zenon, <2>1, <3>1, ThereFacts
    <3> QED BY Zenon, <2>1, <3>2 DEF Fired
  <2>3. Notifying'
    BY Zenon, <1>0, <2>1 DEF Notifying
  <2>4. ASSUME NEW y \in Process, NEW r \in Reference
        PROVE  DownsIn(mailbox'[y], r) = DownsIn(mailbox[y], r)
    <3>1. CASE UNCHANGED mailbox
      BY Zenon, <3>1
    <3>2. CASE Push(x, Exit(current))
      <4>1. Exit(current) \in Message
        BY <2>1 DEF Message
      <4>2. Exit(current).tag # "DOWN"
        BY Zenon DEF Exit
      <4>3. mailbox'[y] = (IF y = x THEN Append(mailbox[y], Exit(current)) ELSE mailbox[y])
        BY Zenon, <1>0, <3>2 DEF Push
      <4>4. mailbox[y] \in Seq(Message)
        BY Zenon, <1>0
      <4>5. DownsIn(Append(mailbox[y], Exit(current)), r) = DownsIn(mailbox[y], r)
        BY Zenon, <4>1, <4>2, <4>4, AppendDowns
      <4> QED BY Zenon, <4>3, <4>5
    <3> QED BY Zenon, <1>8, <3>1, <3>2 DEF SignalLink
  <2> QED BY Zenon, <2>1, <2>2, <2>3, <2>4, MonitorsStay
<1>9. CASE PropagatedSignals
  BY Zenon, <1>9, PropagatedKeeps
<1>10. CASE UNCHANGED allVars
  <2>1. UNCHANGED <<status, run_queues, current, at, monitored, monitors, next_reference, flushed, mailbox, to_notify>>
    BY Zenon, <1>10 DEF allVars, vars, signals, tables
  <2>2. \A p, q \in Process, r \in Reference : Fired(p, q, r)' <=> Fired(p, q, r)
    BY Zenon, <2>1 DEF Fired, Upgrades, Queued
  <2>3. Notifying'
    BY Zenon, <1>0, <2>1 DEF Notifying
  <2> QED BY Zenon, <2>1, <2>2, <2>3, MonitorsStay
<1>11. CASE /\ \/ \E p \in Process : TimerWakes(p) \/ Wake(p)
               \/ TimeoutReturns
               \/ Dequeue \/ DequeueDelayed \/ DequeueWaiting \/ DequeueNone
               \/ Reduced \/ Wait \/ ExitNormal
               \/ Stopped
            /\ UNCHANGED signals
  <2>1. at # "propagate" /\ at' # "propagate"
    BY Zenon, <1>11 DEF TimerWakes, Wake, TimeoutReturns, Dequeue, DequeueDelayed, DequeueWaiting,
       DequeueNone, Reduced, Wait, ExitNormal, Return, Stopped, vars
  <2> QED BY Zenon, <1>1, <1>11, <2>1 DEF signals, tables
<1> QED
  BY Zenon, <1>2, <1>3, <1>4, <1>5, <1>6, <1>7, <1>8, <1>9, <1>10, <1>11
  DEF SignalsNext, Demonitor, DemonitorMissing

LEMMA MonitoringSafe == MonitorSelf = FALSE => (SignalsSpec => [](SInv /\ Monitoring))
<1> SUFFICES ASSUME MonitorSelf = FALSE PROVE SignalsSpec => [](SInv /\ Monitoring)
  BY Zenon
<1>1. SignalsInit => Monitoring
  <2> SUFFICES ASSUME SignalsInit PROVE Monitoring
    BY Zenon
  <2>1. /\ \A p \in Process : monitored[p] = {} /\ monitors[p] = {} /\ mailbox[p] = << >>
        /\ flushed = {} /\ at = "timeout"
    BY Zenon DEF SignalsInit, Init
  <2>2. \A p \in Process : \A r : DownsIn(mailbox[p], r) = {}
    BY <2>1 DEF DownsIn
  <2> QED BY Zenon, <2>1, <2>2 DEF Monitoring, Numbered, Paired, Spawned, Notifying, Gone, OneDown
<1>2. SInv /\ Monitoring /\ [SignalsNext]_allVars => Monitoring'
  BY Zenon, MonitoringKept
<1> QED BY <1>1, <1>2, SignalsSafe, PTL DEF SignalsSpec

(* The sizes of the sets of DOWN messages that there are.                       *)
LEMMA SmallSets ==
    ASSUME NEW x
    PROVE  Cardinality({}) = 0 /\ Cardinality({x}) = 1
<1> DEFINE Counts(f) == f = [T \in SUBSET {x} |-> IF T = {} THEN 0 ELSE 1 + f[T \ {CHOOSE y : y \in T}]]
           g == [T \in SUBSET {x} |-> IF T = {} THEN 0 ELSE 1]
           c == CHOOSE f : Counts(f)
<1>1. Cardinality({}) = 0
  BY Zenon DEF Cardinality
<1>2. ASSUME NEW T \in SUBSET {x}, T # {} PROVE T = {x} /\ T \ {CHOOSE y : y \in T} = {}
  BY Zenon, <1>2
<1>3. Counts(g)
  BY <1>2
<1>4. Cardinality({x}) = c[{x}]
  BY Zenon DEF Cardinality
<1> HIDE DEF g
<1>5. Counts(c)
  BY Zenon, <1>3
<1> HIDE DEF c
<1>6. c[{x}] = 1 + c[{x} \ {CHOOSE y : y \in {x}}] /\ c[{}] = 0
  BY Zenon, <1>5
<1> QED BY <1>1, <1>2, <1>4, <1>6

(* A monitor fires exactly once: its DOWN message comes with the exit of the    *)
(* process, and never before or again.                                          *)
THEOREM MonitorsFireOnce == MonitorSelf = FALSE => (SignalsSpec => []OneDownForEachMonitor)
<1> SUFFICES ASSUME MonitorSelf = FALSE PROVE SignalsSpec => []OneDownForEachMonitor
  BY Zenon
<1>1. SInv /\ Monitoring => OneDownForEachMonitor
  <2> SUFFICES ASSUME Monitoring, NEW p \in Process, NEW q \in Process, NEW r \in Reference,
                      <<r, q>> \in monitored[p]
               PROVE  Downs(p, r) = IF Fired(p, q, r) THEN 1 ELSE 0
    BY Zenon DEF OneDownForEachMonitor, Fired
  <2>1. IF Fired(p, q, r) THEN One(DownsIn(mailbox[p], r)) ELSE DownsIn(mailbox[p], r) = {}
    BY Zenon DEF Monitoring, OneDown
  <2>2. Downs(p, r) = Cardinality(DownsIn(mailbox[p], r))
    BY Zenon DEF Downs, DownsIn
  <2>3. One(DownsIn(mailbox[p], r)) => Cardinality(DownsIn(mailbox[p], r)) = 1
    BY Zenon, SmallSets DEF One
  <2> QED BY Zenon, <2>1, <2>2, <2>3, SmallSets
<1> QED BY <1>1, MonitoringSafe, PTL

(* demonitor with flush leaves no DOWN message of the monitor, and none comes    *)
(* later.                                                                        *)
THEOREM FlushIsFinal == MonitorSelf = FALSE => (SignalsSpec => []FlushedIsGone)
<1> SUFFICES ASSUME MonitorSelf = FALSE PROVE SignalsSpec => []FlushedIsGone
  OBVIOUS
<1>1. SInv /\ Monitoring => FlushedIsGone
  <2> SUFFICES ASSUME Monitoring, NEW r \in flushed, NEW p \in Process PROVE Downs(p, r) = 0
    BY Zenon DEF FlushedIsGone
  <2>1. DownsIn(mailbox[p], r) = {}
    BY Zenon DEF Monitoring, Gone
  <2>2. Downs(p, r) = Cardinality(DownsIn(mailbox[p], r))
    BY Zenon DEF Downs, DownsIn
  <2> QED BY Zenon, <2>1, <2>2, SmallSets
<1> QED BY <1>1, MonitoringSafe, PTL

=============================================================================
