------------------------------- MODULE Panic --------------------------------
(***************************************************************************)
(* How a panic stops the machine: panic of                                 *)
(* src/Kernel/Sources/arch/cpu/i386/panic.c with lapic_send_ipi, among     *)
(* CPUs that go on working.  A CPU works in and out of sections of some    *)
(* spinlock; it takes an interrupt only while interrupts are on, that is   *)
(* outside of sections and of the loop that waits for the lock, and an     *)
(* exception (or a call of kernel_panic) anywhere but in that loop.        *)
(* Handlers start with interrupts off (interrupt gates).                   *)
(***************************************************************************)
EXTENDS Naturals, FiniteSets

CONSTANTS CPUs, None

VARIABLES mode,            \* CPU -> what it does
          lock,            \* the CPU in a section of the spinlock, or None
          ipi_lock,        \* the CPU in a section of ipi_lock, or None
          nmi_panic_code,  \* it is PANIC_NMI_CODE
          targets,         \* CPU -> the ones its loop has still to stop
          pending,         \* CPUs with PANIC_INT_LINE raised
          screens          \* CPUs that have printed the panic screen

panicVars == <<mode, lock, ipi_lock, nmi_panic_code, targets, pending, screens>>

PanicInit ==
    /\ mode = [c \in CPUs |-> "work"]
    /\ lock = None /\ ipi_lock = None
    /\ nmi_panic_code = FALSE
    /\ targets = [c \in CPUs |-> {}]
    /\ pending = {} /\ screens = {}

Go(c, m) == mode' = [mode EXCEPT ![c] = m]

\* Interrupts are on, and none is waiting: a pending one comes first
Undisturbed(c) == mode[c] = "work" /\ c \notin pending

\* ENTER_CRITICAL: interrupts off, then the loop on the lock word
Enter(c) ==
    /\ Undisturbed(c)
    /\ Go(c, "spin")
    /\ UNCHANGED <<lock, ipi_lock, nmi_panic_code, targets, pending, screens>>

Acquire(c) ==
    /\ mode[c] = "spin" /\ lock = None
    /\ lock' = c
    /\ Go(c, "section")
    /\ UNCHANGED <<ipi_lock, nmi_panic_code, targets, pending, screens>>

Exit(c) ==
    /\ mode[c] = "section"
    /\ lock' = None
    /\ Go(c, "work")
    /\ UNCHANGED <<ipi_lock, nmi_panic_code, targets, pending, screens>>

\* an exception, or the int instruction of kernel_panic
Fault(c) ==
    /\ Undisturbed(c) \/ mode[c] = "section"
    /\ Go(c, "panic")
    /\ UNCHANGED <<lock, ipi_lock, nmi_panic_code, targets, pending, screens>>

\* PANIC_INT_LINE arrives; kernel_interrupt_handler calls panic
Interrupted(c) ==
    /\ mode[c] = "work" /\ c \in pending
    /\ pending' = pending \ {c}
    /\ Go(c, "panic")
    /\ UNCHANGED <<lock, ipi_lock, nmi_panic_code, targets, screens>>
-----------------------------------------------------------------------------
\* panic: a CPU that finds the code set halts without a word ...
Test(c) ==
    /\ mode[c] = "panic"
    /\ Go(c, IF nmi_panic_code THEN "halted" ELSE "first")
    /\ UNCHANGED <<lock, ipi_lock, nmi_panic_code, targets, pending, screens>>

\* Mutant: the CPU with the last id is left out
AllButLast(c) ==
    LET last == CHOOSE d \in CPUs : TRUE IN CPUs \ {c, last}

Others(c) == CPUs \ {c}

\* ... the others set it (two may do so at once) ...
SetCode(c) ==
    /\ mode[c] = "first"
    /\ nmi_panic_code' = TRUE
    /\ targets' = [targets EXCEPT ![c] = Others(c)]
    /\ Go(c, "stop")
    /\ UNCHANGED <<lock, ipi_lock, pending, screens>>

\* ... stop every other CPU, in sections of ipi_lock ...
EnterIpi(c) ==
    /\ mode[c] = "stop" /\ targets[c] # {} /\ ipi_lock = None
    /\ ipi_lock' = c
    /\ Go(c, "send")
    /\ UNCHANGED <<lock, nmi_panic_code, targets, pending, screens>>

lapic_send_ipi(c) ==
    /\ mode[c] = "send"
    /\ \E d \in targets[c] :
           /\ pending' = pending \cup {d}
           /\ targets' = [targets EXCEPT ![c] = @ \ {d}]
    /\ ipi_lock' = None
    /\ Go(c, "stop")
    /\ UNCHANGED <<lock, nmi_panic_code, screens>>

\* ... print and halt
PrintAndHalt(c) ==
    /\ mode[c] = "stop" /\ targets[c] = {}
    /\ screens' = screens \cup {c}
    /\ Go(c, "halted")
    /\ UNCHANGED <<lock, ipi_lock, nmi_panic_code, targets, pending>>

\* what a CPU does by itself, once it has begun
PanicProgress(c) ==
    \/ Acquire(c) \/ Exit(c) \/ Interrupted(c) \/ Test(c) \/ SetCode(c)
    \/ EnterIpi(c) \/ lapic_send_ipi(c) \/ PrintAndHalt(c)

PanicNext == \E c \in CPUs : Enter(c) \/ Fault(c) \/ PanicProgress(c)
-----------------------------------------------------------------------------
\* A CPU that waits, interrupts off, for a lock whose holder has halted
Wedged(c) == mode[c] = "spin" /\ lock # None /\ mode[lock] = "halted"

\* Once one CPU has panicked, in a section or outside, and although others may
\* panic at the same time, every CPU stops, and at least one prints the panic
\* screen: no CPU that found the code set halts before a screen is certain
\* (panic.c 100-326).
PanicStopsAll ==
    (\E c \in CPUs : mode[c] = "panic") ~>
        [](/\ screens # {}
           /\ \A c \in CPUs : mode[c] = "halted" \/ Wedged(c))
=============================================================================
