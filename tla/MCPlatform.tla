----------------------------- MODULE MCPlatform -----------------------------
(* CriticalSection, Devices, AtaPio, RtcClock and Panic for TLC.  They      *)
(* share no state; part, chosen at the start, says which of them moves.     *)
EXTENDS CriticalSection, AtaPio, TLC

CONSTANTS NULL, t1, t2, t3, t4, APs

VARIABLES part,
          boot, capable, dev, interrupts, aps, current, init_cpu_count,
          init_seq_end, first_sched,
          cmos, shown, clock,
          mode, lock, ipi_lock, nmi_panic_code, targets, pending, screens

ThreeCPUs == t1 :> 0 @@ t2 :> 0 @@ t3 :> 1 @@ t4 :> 2

Hours == 0 .. 23
Sixties == {0, 59}
Dates == {[day |-> 31, month |-> 12, year |-> 99], [day |-> 1, month |-> 1, year |-> 0]}

D == INSTANCE Devices
C == INSTANCE RtcClock
P == INSTANCE Panic WITH None <- NULL

ASSUME DiskConstants == AtaAssumption

bootVars == <<boot, capable, dev, interrupts, aps, current, init_cpu_count,
              init_seq_end, first_sched>>
cmosVars == <<cmos, shown, clock>>
panicVars == <<mode, lock, ipi_lock, nmi_panic_code, targets, pending, screens>>
mcVars == <<part, vars, bootVars, ataVars, cmosVars, panicVars>>

MCInit ==
    /\ part \in {"lock", "boot", "disk", "clock", "panic"}
    /\ Init /\ D!Init /\ AtaInit /\ C!ClockInit /\ P!PanicInit
    \* a part that does not move starts in one state
    /\ part # "lock" => booted = 1 /\ running = (0 :> t1 @@ 1 :> t3 @@ 2 :> t4)
    /\ part # "boot" => capable
    /\ part # "disk" => shared /\ present = Drives
    /\ part # "clock" =>
           /\ shown = [time |-> [hour |-> 0, minute |-> 0, second |-> 0],
                       date |-> [day |-> 1, month |-> 1, year |-> 0]]
           /\ cmos.binary /\ cmos.full

LockStep == part = "lock" /\ Next /\ UNCHANGED <<part, bootVars, ataVars, cmosVars, panicVars>>
BootPart == part = "boot" /\ D!DevicesNext /\ UNCHANGED <<part, vars, ataVars, cmosVars, panicVars>>
DiskPart == part = "disk" /\ AtaNext /\ UNCHANGED <<part, vars, bootVars, cmosVars, panicVars>>
ClockPart == part = "clock" /\ C!ClockNext /\ UNCHANGED <<part, vars, bootVars, ataVars, panicVars>>
PanicPart == part = "panic" /\ P!PanicNext /\ UNCHANGED <<part, vars, bootVars, ataVars, cmosVars>>

MCNext == LockStep \/ BootPart \/ DiskPart \/ ClockPart \/ PanicPart

\* the CPUs execute the boot code, and the timers tick
BootFairness ==
    /\ WF_bootVars(part = "boot" /\ D!BootStep)
    /\ WF_bootVars(part = "boot" /\ D!ApStep)
    /\ WF_bootVars(part = "boot" /\ D!Raise(0))
    /\ WF_bootVars(part = "boot" /\ D!LapicTick)

\* Fairness of CriticalSection, when it moves
LockFairness == \A t \in Threads : WF_vars(part = "lock" /\ Progress(t))

\* every CPU goes on executing until it halts
PanicFairness == \A c \in CPUs : WF_panicVars(part = "panic" /\ P!PanicProgress(c))

MCSpec == MCInit /\ [][MCNext]_mcVars /\ BootFairness /\ LockFairness /\ PanicFairness
-----------------------------------------------------------------------------
\* While drivers replace handlers, every open line has one, and no interrupt
\* or call of the boot fails: see Devices.
InterruptsHandled == D!DevicesTypeOK /\ D!InterruptsHandled

\* Every interrupt taken, spurious ones included, is ended in the controller
\* before the next one: see Devices.
NothingLeftInService == D!NothingLeftInService

\* The mask of a timer's line is open iff its disabled_nesting is 0, and the
\* cascade iff a line of the slave is: see Devices.
MasksFollow == D!MasksFollow

\* The APs come up one at a time, each on the stack kinit.S picks by the
\* counter, and schedule after the main CPU: see Devices.
ApsInTurn == D!ApsInTurn

\* rtc_update_time reads what the CMOS clock shows: see RtcClock.
ClockRead == C!ClockRead

\* The boot sequence ends with every CPU scheduling: see Devices.
BootCompletes == part = "boot" => D!BootCompletes

\* A panic stops every CPU and is shown by at least one: see Panic.
PanicStopsAll == part = "panic" => P!PanicStopsAll
=============================================================================
