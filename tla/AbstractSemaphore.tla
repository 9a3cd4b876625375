------------------------- MODULE AbstractSemaphore -------------------------
(***************************************************************************)
(* What a semaphore of the kernel promises its users: a level that a pend  *)
(* decrements when it is positive and waits for otherwise, that a post     *)
(* increments, and a destruction that sends everybody back with an error.  *)
(***************************************************************************)
EXTENDS Integers

CONSTANTS Threads, Levels

VARIABLES init,     \* whether the semaphore is initialized
          level,    \* sem_level
          pending   \* the threads inside sem_pend

vars == <<init, level, pending>>

Init == init = FALSE /\ level = 0 /\ pending = {}

Initialize(l) ==
    /\ ~init /\ pending = {}
    /\ init' = TRUE /\ level' = l
    /\ UNCHANGED pending

\* a thread takes one at once, or begins to wait for one
Take(t) ==
    /\ init /\ level > 0
    /\ level' = level - 1
    /\ pending' = pending \ {t}
    /\ UNCHANGED init

Wait(t) ==
    /\ init /\ level < 1
    /\ pending' = pending \cup {t}
    /\ UNCHANGED <<init, level>>

Post ==
    /\ init
    /\ level' = level + 1
    /\ UNCHANGED <<init, pending>>

Destroy ==
    /\ init
    /\ init' = FALSE
    /\ UNCHANGED <<level, pending>>

\* OS_ERR_SEM_UNINITIALIZED, at once or out of the wait
Fail(t) ==
    /\ ~init
    /\ pending' = pending \ {t}
    /\ UNCHANGED <<init, level>>

Next ==
    \/ \E l \in Levels : Initialize(l)
    \/ \E t \in Threads : Take(t) \/ Wait(t) \/ Fail(t)
    \/ Post \/ Destroy

Spec == Init /\ [][Next]_vars
=============================================================================
