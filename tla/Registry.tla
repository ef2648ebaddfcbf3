------------------------------- MODULE Registry ------------------------------
(* Registered names: the table of runtimes/core/src/registry.rs, the name     *)
(* that each process keeps of itself, the functions of the erlang module that  *)
(* change them, and the messages that are sent to a name (runtimes/core        *)
(* send.rs, and timers whose destination is a name), on top of Scheduling.     *)
EXTENDS Scheduling

CONSTANTS
    Name,       \* atoms that are used as names
    Undefined,  \* the atom undefined, which cannot be registered
    NoName      \* registered_name of a process without a name

ASSUME NameAssumption == Undefined \in Name /\ NoName \notin Name

VARIABLES
    registered,         \* REGISTERED_BY_NAME, with NoProcess where there is no entry
    registered_name,    \* Process.registered_name
    call                \* the last call that used the table, and what it returned

registry == <<registered, registered_name, call>>
registryVars == <<vars, registry>>

NoCall == [op |-> "none", name |-> Undefined, result |-> NoProcess]
Op == {"none", "register", "unregister", "send", "timer"}

RegistryInit ==
    /\ Init
    /\ registered = [n \in Name |-> NoProcess]
    /\ registered_name = [p \in Process |-> NoName]
    /\ call = NoCall

(* registry::names: the keys of the table, which the entry of a process that
   is gone is still one of *)
names == {n \in Name : registered[n] # NoProcess}

(* registry::atom_to_process: the table holds a weak reference *)
atom_to_process(n) ==
    IF n \in names /\ Upgrades(registered[n]) THEN registered[n] ELSE NoProcess

-----------------------------------------------------------------------------
(* register/2, of any local pid.  put_atom_to_process wants the name to be free
   in the table, register_in the process to have no name. *)
CanRegisterTakenName(n, p) == n # Undefined /\ Upgrades(p) /\ registered_name[p] = NoName
CanRegisterTwice(n, p) == n # Undefined /\ Upgrades(p) /\ n \notin names
CanRegister(n, p) ==
    /\ n # Undefined
    /\ Upgrades(p)
    /\ n \notin names
    /\ registered_name[p] = NoName

Register(n, p) ==
    /\ at = "running" /\ status[p] # "Unrunnable"
    /\ IF CanRegister(n, p)
       THEN /\ registered' = [registered EXCEPT ![n] = p]
            /\ registered_name' = [registered_name EXCEPT ![p] = n]
            /\ call' = [op |-> "register", name |-> n, result |-> p]
       ELSE /\ call' = [op |-> "register", name |-> n, result |-> NoProcess]
            /\ UNCHANGED <<registered, registered_name>>
    /\ UNCHANGED vars

(* unregister/1: the entry goes in any case, and it is an error when there was
   none, or when its process is gone *)
ForgetNothing(n) == registered_name
ForgetName(n) ==
    IF atom_to_process(n) # NoProcess
    THEN [registered_name EXCEPT ![registered[n]] = NoName]
    ELSE registered_name

Unregister(n) ==
    /\ at = "running"
    /\ registered' = [registered EXCEPT ![n] = NoProcess]
    /\ registered_name' = ForgetName(n)
    /\ call' = [op |-> "unregister", name |-> n, result |-> atom_to_process(n)]
    /\ UNCHANGED vars

(* send_to_name: a process that has the name itself does not look in the table *)
SendToName(n) ==
    /\ at = "running"
    /\ LET p == IF registered_name[current] = n THEN current ELSE atom_to_process(n) IN
        /\ call' = [op |-> "send", name |-> n, result |-> p]
        /\ IF p = NoProcess \/ registered_name[current] = n
           THEN UNCHANGED <<status, run_queues>>
           ELSE StopWaiting(p)
    /\ UNCHANGED <<priority, current, at, panicked, registered, registered_name>>

(* Timer::timeout with Destination::Name: the name is looked up when the timer
   fires, not when it was started *)
TimerSendsToName(n) ==
    /\ at = "timeout"
    /\ LET p == atom_to_process(n) IN
        /\ call' = [op |-> "timer", name |-> n, result |-> p]
        /\ IF p = NoProcess THEN UNCHANGED <<status, run_queues>> ELSE StopWaiting(p)
    /\ UNCHANGED <<priority, current, at, panicked, registered, registered_name>>

-----------------------------------------------------------------------------
RegistryNext ==
    \/ \E n \in Name, p \in Process : Register(n, p)
    \/ \E n \in Name : Unregister(n)
    \/ \E n \in Name : SendToName(n)
    \/ \E n \in Name : TimerSendsToName(n)
    \/ Next /\ UNCHANGED registry

RegistrySpec == RegistryInit /\ [][RegistryNext]_registryVars

-----------------------------------------------------------------------------
RegistryTypeOK ==
    /\ registered \in [Name -> Process \cup {NoProcess}]
    /\ registered_name \in [Process -> Name \cup {NoName}]
    /\ call \in [op : Op, name : Name, result : Process \cup {NoProcess}]

(* The table and the name that a process keeps of itself agree for every
   process that is still there, so that it does not matter that send_to_name
   uses either of them; and no process, not even one that is gone, is in the
   table under two names. *)
NamesAgree ==
    /\ \A p \in Process, n \in Name :
        Upgrades(p) => (registered_name[p] = n <=> registered[n] = p)
    /\ \A m, n \in names : registered[m] = registered[n] => m = n

(* A message that is sent to a name reaches the process that holds the name at
   that time and no other: not one that gave the name up, not one that is gone,
   whichever of send and a timer delivers it. *)
OnlyTheHolderReceives ==
    [][call' # call /\ call'.op \in {"send", "timer"} /\ call'.result # NoProcess =>
        /\ registered[call'.name] = call'.result
        /\ Upgrades(call'.result)]_registryVars

(* A name never passes from one process to another behind the back of its
   holder: only unregister takes it away, not even the exit of the holder and
   a later register do. *)
NamesAreNotTaken ==
    [][\A n \in names : registered[n]' # registered[n] =>
        /\ registered[n]' = NoProcess
        /\ call'.op = "unregister" /\ call'.name = n]_registryVars

(* unregister/1 fails with "name ... was not registered" just when the name was
   not registered (native_implemented/otp/src/erlang/unregister_1.rs:18 and its
   test without_registered_name_errors_badarg), that is, not among the names
   that registered/0 returns. *)
UnregisterErrorIsTrue ==
    [][call' # call /\ call'.op = "unregister" /\ call'.result = NoProcess =>
        call'.name \notin names]_registryVars
=============================================================================
