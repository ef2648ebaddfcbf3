----------------------------- MODULE PidCounter ------------------------------
(* The pids of liblumen_alloc (erts/term/pid.rs): Pid::next counts under the  *)
(* write lock of RW_LOCK_COUNTER, so each call is one step whichever thread    *)
(* spawns, and put_pid_to_process enters the pid into a table that no exit     *)
(* ever removes it from.                                                       *)
EXTENDS Naturals

CONSTANTS
    NUMBER_MAX,     \* 2^15 - 1
    SERIAL_MAX      \* 2^13 - 1

(* What the theorems of ProcessProofs assume  *)
MaxAssumption == NUMBER_MAX \in Nat /\ SERIAL_MAX \in Nat

VARIABLES
    serial, number,     \* Counter
    pid,                \* what Counter::next returned last
    by_pid,             \* the keys of WEAK_PROCESS_CONTROL_BLOCK_BY_PID
    failed              \* which assertion failed, if any

pidVars == <<serial, number, pid, by_pid, failed>>

(* Pid::new_unchecked: the serial is above the bits of the number *)
Encoded(n, s) == s * (NUMBER_MAX + 1) + n
Pid == {Encoded(n, s) : n \in 0..NUMBER_MAX, s \in 0..SERIAL_MAX}

PidInit ==
    /\ serial = 0 /\ number = 0
    /\ pid = 0 /\ by_pid = {}
    /\ failed = "no"

(* registry::put_pid_to_process *)
PutPid(new) ==
    IF new \in by_pid
    THEN failed' = "already registered" /\ UNCHANGED by_pid
    ELSE by_pid' = by_pid \cup {new} /\ UNCHANGED failed

(* Counter::next *)
RollsOver == NUMBER_MAX <= number

NextPid ==
    /\ failed = "no"
    /\ serial' = IF RollsOver THEN serial + 1 ELSE serial
    /\ number' = IF RollsOver THEN 0 ELSE number + 1
    /\ IF RollsOver /\ serial + 1 > SERIAL_MAX
       THEN failed' = "no serial left" /\ UNCHANGED <<pid, by_pid>>
       ELSE pid' = Encoded(number, serial) /\ PutPid(Encoded(number, serial))

Exhausted ==
    /\ failed # "no"
    /\ UNCHANGED pidVars

PidNext == NextPid \/ Exhausted

PidSpec == PidInit /\ [][PidNext]_pidVars

-----------------------------------------------------------------------------
PidTypeOK ==
    /\ serial \in 0..(SERIAL_MAX + 1) /\ number \in 0..(NUMBER_MAX + 1)
    /\ pid \in Nat /\ by_pid \subseteq Nat
    /\ failed \in {"no", "already registered", "no serial left"}

(* Every pid that was handed out is below the next one, which is what keeps
   the counter from meeting one of them again. *)
Below == \A p \in by_pid : p < Encoded(number, serial)

(* The pids in use fit the 15 bits of the number and the 13 of the serial, and
   put_pid_to_process never finds its pid in the table, although nothing ever
   leaves the table: the counter stops with its assertion instead. *)
PidsFit ==
    /\ pid \in Pid /\ by_pid \subseteq Pid
    /\ failed # "already registered"

(* Pids are not reused for the lifetime of the VM: the counter is a source of
   unique identifiers. *)
Unique == INSTANCE UniqueIds WITH Id <- Pid, used <- by_pid, id <- pid
PidsAreNotReused == Unique!Spec
=============================================================================
