-------------------------------- MODULE Sse --------------------------------
(***************************************************************************)
(* Lazy switching of the SSE registers on one CPU: cpu_restore_context     *)
(* sets CR0.TS at every context switch, the next SSE instruction traps to  *)
(* sse_use_exception_handler of src/Kernel/Sources/arch/cpu/i386/cpu.c.    *)
(* The registers hold one value, written by the threads.                   *)
(***************************************************************************)
EXTENDS Naturals

CONSTANTS Threads, NULL,
          MaxValue   \* bound on the values threads write

VARIABLES running,          \* the thread of the CPU
          ts,               \* CR0.TS
          registers,        \* the SSE registers
          thread_storage,   \* thread -> the fxsave area in its kernel_thread_t
          sse_save_region,  \* the thread whose area the CPU uses, or NULL
          expected          \* thread -> what it wrote last, or NULL

vars == <<running, ts, registers, thread_storage, sse_save_region, expected>>

Init ==
    /\ running \in Threads
    /\ ts = TRUE
    /\ registers = 0
    /\ thread_storage = [t \in Threads |-> 0]
    /\ sse_save_region = NULL
    /\ expected = [t \in Threads |-> NULL]

\* schedule_int with cpu_restore_context
cpu_restore_context(t) ==
    /\ t # running
    /\ running' = t
    /\ ts' = TRUE
    /\ UNCHANGED <<registers, thread_storage, sse_save_region, expected>>

\* both branches store the registers in the area of the current thread
sse_use_exception_handler ==
    /\ ts
    /\ ts' = FALSE
    /\ IF sse_save_region # running
       THEN /\ thread_storage' = [thread_storage EXCEPT ![running] = registers]
            /\ sse_save_region' = running
       ELSE UNCHANGED <<thread_storage, sse_save_region>>
    /\ UNCHANGED <<running, registers, expected>>

\* a thread computes in the registers
Write ==
    /\ ~ts
    /\ registers' \in 1 .. MaxValue
    /\ expected' = [expected EXCEPT ![running] = registers']
    /\ UNCHANGED <<running, ts, thread_storage, sse_save_region>>

Next ==
    \/ \E t \in Threads : cpu_restore_context(t)
    \/ sse_use_exception_handler
    \/ Write

Spec == Init /\ [][Next]_vars
-----------------------------------------------------------------------------
\* "Restore the current SSE context" (cpu.c 142): once the trap has been
\* handled, the thread that runs finds in the registers what it left there.
ContextRestored ==
    ~ts /\ expected[running] # NULL => registers = expected[running]
=============================================================================
