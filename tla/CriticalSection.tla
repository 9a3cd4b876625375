-------------------------- MODULE CriticalSection --------------------------
(***************************************************************************)
(* ENTER_CRITICAL and EXIT_CRITICAL of src/Kernel/Includes/sync/critical.h *)
(* (MAX_CPU_COUNT > 1) on one spinlock, one memory access per step, with   *)
(* __pause_spinlock of cpu_sync.S.  Threads run on the CPU they are bound  *)
(* to; the scheduler switches between the threads of a CPU.  A section     *)
(* runs with the CPU's interrupts off, so a thread inside one cannot be    *)
(* preempted.                                                              *)
(*                                                                         *)
(* CPUs come up while the others use the lock: the macros read the number  *)
(* of booted CPUs at each end of a section.                                *)
(*                                                                         *)
(* Spec is the discipline most of the kernel follows: sections of one lock *)
(* are not nested, nobody calls the scheduler inside one, and the second   *)
(* CPU does not come up inside one.  NestedSpec adds what pit.c does, a    *)
(* section inside one of the same lock, and StartupSpec what lapic.c does, *)
(* a section that starts the second CPU.                                   *)
(***************************************************************************)
EXTENDS Integers, FiniteSets

CONSTANTS NumCPUs,   \* CPU ids are 0 .. NumCPUs - 1
          Threads,
          Affinity,  \* the CPU each thread is bound to
          MaxDepth,  \* how deep a thread nests sections of the lock
          Words      \* number of values of the uint32_t nesting

CPUs == 0 .. NumCPUs - 1

ASSUME ConstantsAssumption ==
    /\ NumCPUs \in Nat \ {0}
    /\ Affinity \in [Threads -> CPUs]
    /\ MaxDepth \in Nat \ {0}
    /\ Words \in Nat /\ Words > 1

\* every CPU has its idle thread
ASSUME IdleAssumption == \A c \in CPUs : \E t \in Threads : Affinity[t] = c

VARIABLES value, current_tid, nesting,  \* struct spinlock
          booted,   \* init_cpu_count of cpu.c
          running,  \* CPU -> the thread it executes
          pc,       \* thread -> where it is in the two macros
          depth     \* thread -> number of sections it is inside

lockVars == <<value, current_tid, nesting>>
vars == <<value, current_tid, nesting, booted, running, pc, depth>>

\* INIT_SPINLOCK; every CPU of the machine may or may not have come up
Init ==
    /\ value = 0
    /\ current_tid = -1
    /\ nesting = 0
    /\ booted \in 1 .. NumCPUs
    /\ running \in [CPUs -> Threads]
    /\ \A c \in CPUs : Affinity[running[c]] = c
    /\ pc = [t \in Threads |-> "out"]
    /\ depth = [t \in Threads |-> 0]

\* thread t is the one its CPU executes, at label l
At(t, l) ==
    /\ Affinity[t] < booted
    /\ running[Affinity[t]] = t
    /\ pc[t] = l

Goto(t, l) == pc' = [pc EXCEPT ![t] = l]
-----------------------------------------------------------------------------
\* ENTER_CRITICAL: interrupts off, and the lock is used only on a machine
\* with more than one CPU up
EnterFrom(t, l) ==
    /\ At(t, l)
    /\ IF booted > 1
       THEN Goto(t, "check") /\ UNCHANGED depth
       ELSE Goto(t, "in") /\ depth' = [depth EXCEPT ![t] = @ + 1]
    /\ UNCHANGED <<lockVars, booted, running>>

ENTER_CRITICAL(t) == EnterFrom(t, "out")

\* if((lock)->current_tid != cpu_id)
CheckOwner(t) ==
    /\ At(t, "check")
    /\ Goto(t, IF current_tid # Affinity[t] THEN "spin" ELSE "own")
    /\ UNCHANGED <<lockVars, booted, running, depth>>

\* Mutant: test, then set, instead of the locked bts
SpinOnStaleTest(t) ==
    /\ At(t, "spin")
    /\ Goto(t, "own")
    /\ value' = 1
    /\ UNCHANGED <<current_tid, nesting, booted, running, depth>>

\* Mutant: leaves the pause loop when the bit is clear, without taking it
SpinAgain(t) ==
    /\ At(t, "spin")
    /\ value = 0
    /\ Goto(t, "check")
    /\ UNCHANGED <<lockVars, booted, running, depth>>

\* __pause_spinlock: lock bts until the bit was clear
__pause_spinlock(t) ==
    /\ At(t, "spin")
    /\ value = 0
    /\ value' = 1
    /\ Goto(t, "own")
    /\ UNCHANGED <<current_tid, nesting, booted, running, depth>>

SetOwner(t) ==
    /\ At(t, "own")
    /\ current_tid' = Affinity[t]
    /\ Goto(t, "count")
    /\ UNCHANGED <<value, nesting, booted, running, depth>>

Inc(n) == IF n = Words - 1 THEN 0 ELSE n + 1
Dec(n) == IF n = 0 THEN Words - 1 ELSE n - 1

CountIn(t) ==
    /\ At(t, "count")
    /\ nesting' = Inc(nesting)
    /\ depth' = [depth EXCEPT ![t] = @ + 1]
    /\ Goto(t, "in")
    /\ UNCHANGED <<value, current_tid, booted, running>>
-----------------------------------------------------------------------------
Outside(t) == IF depth'[t] = 0 THEN "out" ELSE "in"

\* EXIT_CRITICAL
EXIT_CRITICAL(t) ==
    /\ At(t, "in")
    /\ IF booted > 1
       THEN /\ nesting' = Dec(nesting)
            /\ Goto(t, "zero")
            /\ UNCHANGED depth
       ELSE /\ depth' = [depth EXCEPT ![t] = @ - 1]
            /\ Goto(t, Outside(t))
            /\ UNCHANGED nesting
    /\ UNCHANGED <<value, current_tid, booted, running>>

\* Mutant: the owner stays after the last section
KeepOwner(t) ==
    /\ At(t, "zero")
    /\ Goto(t, "release")
    /\ UNCHANGED <<lockVars, booted, running, depth>>

ClearOwner(t) ==
    /\ At(t, "zero")
    /\ current_tid' = IF nesting = 0 THEN -1 ELSE current_tid
    /\ Goto(t, "release")
    /\ UNCHANGED <<value, nesting, booted, running, depth>>

\* value = 0, whatever the nesting; then the interrupts are restored
ReleaseLock(t) ==
    /\ At(t, "release")
    /\ value' = 0
    /\ depth' = [depth EXCEPT ![t] = @ - 1]
    /\ Goto(t, Outside(t))
    /\ UNCHANGED <<current_tid, nesting, booted, running>>

\* The scheduler gives CPU Affinity[u] to thread u; with interrupts on, outside
\* of any section
Switch(u) ==
    /\ Affinity[u] < booted
    /\ running[Affinity[u]] # u
    /\ pc[running[Affinity[u]]] = "out"
    /\ running' = [running EXCEPT ![Affinity[u]] = u]
    /\ UNCHANGED <<lockVars, booted, pc, depth>>

\* An AP counts itself, ++init_cpu_count of cpu_ap_core_init; cond is the
\* moment of the main CPU at which it does
CountedWhen(cond) ==
    /\ booted < NumCPUs
    /\ cond
    /\ booted' = booted + 1
    /\ UNCHANGED <<lockVars, running, pc, depth>>

cpu_ap_core_init == CountedWhen(booted > 1 \/ \A t \in Threads : pc[t] = "out")

\* What thread t does once it has begun ENTER_CRITICAL
Progress(t) ==
    \/ CheckOwner(t) \/ __pause_spinlock(t) \/ SetOwner(t) \/ CountIn(t)
    \/ EXIT_CRITICAL(t) \/ ClearOwner(t) \/ ReleaseLock(t)

Next ==
    \/ \E t \in Threads : ENTER_CRITICAL(t) \/ Progress(t) \/ Switch(t)
    \/ cpu_ap_core_init

Spec == Init /\ [][Next]_vars

\* A CPU does not stop between two instructions of a section.  Nothing is
\* assumed about threads that are outside, nor about who wins the spinlock.
Fairness == \A t \in Threads : WF_vars(Progress(t))
FairSpec == Spec /\ Fairness
-----------------------------------------------------------------------------
\* pit_set_frequency and pit_set_handler call pit_disable, which enters a
\* section of the same lock, inside their own
EnterNested(t) == depth[t] < MaxDepth /\ EnterFrom(t, "in")
NestedSpec == Init /\ [][Next \/ \E t \in Threads : EnterNested(t)]_vars

\* lapic_send_ipi_startup waits inside a section of ipi_lock for the IPI to be
\* delivered, and the AP it starts may count itself before the section ends
StartupSpec == Init /\ [][Next \/ CountedWhen(TRUE)]_vars
-----------------------------------------------------------------------------
Labels == {"out", "check", "spin", "own", "count", "in", "zero", "release"}

\* Types of the fields of struct spinlock and of the model's control state.
TypeOK ==
    /\ value \in {0, 1}
    /\ current_tid \in CPUs \cup {-1}
    /\ nesting \in 0 .. Words - 1
    /\ booted \in 1 .. NumCPUs
    /\ running \in [CPUs -> Threads]
    /\ pc \in [Threads -> Labels]
    /\ depth \in [Threads -> Nat]

\* Two threads are never inside sections of the same spinlock at once, on the
\* same CPU or on two (what every ENTER_CRITICAL of the kernel is for).
MutualExclusion ==
    \A t, u \in Threads : t # u => depth[t] = 0 \/ depth[u] = 0

Holds(t) == pc[t] \in {"own", "count", "in", "zero", "release"}

\* The owner field never lies: while current_tid names a CPU, the thread that
\* CPU executes holds the lock word.  ENTER_CRITICAL skips the spinlock on the
\* strength of that field alone.
OwnerHolds ==
    current_tid # -1 =>
        \E t \in Threads : Affinity[t] = current_tid /\ Holds(t) /\ value = 1

\* When a CPU spins on the lock word, some thread gets in: the word is never
\* left set with nobody to clear it.
SomeoneGetsIn ==
    (\E t \in Threads : pc[t] = "spin") ~> (\E t \in Threads : pc[t] = "in")
=============================================================================
