----------------------------- MODULE Semaphore -----------------------------
(***************************************************************************)
(* A semaphore of src/Kernel/Sources/sync/semaphore.c and the threads that *)
(* use it.  A step is one critical section on sem->lock (module            *)
(* CriticalSection), or one call of the scheduler outside it: sem_post     *)
(* leaves the section before it unlocks the thread it popped, and sem_pend *)
(* leaves it before the thread stops running, so other threads act between *)
(* the two.  The scheduler is reduced to the state of a thread: WAITING    *)
(* after sched_lock_thread, READY after sched_unlock_thread, and a thread  *)
(* that is READY goes on at some later moment.                             *)
(*                                                                         *)
(* Calls on an uninitialized semaphore return an error and change nothing: *)
(* they are stuttering steps.                                              *)
(***************************************************************************)
EXTENDS Integers, Sequences, FiniteSets

CONSTANTS Threads,
          Levels,     \* values of init_level the program uses
          MaxLevel,   \* bound of the model on sem_level
          NULL

ASSUME ThreadsAssumption == IsFiniteSet(Threads) /\ NULL \notin Threads
ASSUME LevelsAssumption == Levels \subseteq Int /\ MaxLevel \in Int

VARIABLES init,             \* sem->init = 1
          sem_level,
          waiting_threads,  \* oldest first: pushed last, popped first
          state,            \* thread -> RUNNING, READY or WAITING
          pc,               \* thread -> user, blocked (in the loop of
                            \* sem_pend), unlock, schedule (in sem_post)
          node,             \* thread -> the thread its sem_post popped
          masked            \* the threads whose last sem_post was made with
                            \* interrupts off
vars == <<init, sem_level, waiting_threads, state, pc, node, masked>>

InQueue(t) == \E i \in 1 .. Len(waiting_threads) : waiting_threads[i] = t

\* threads that left the waiting queue and are still inside sem_pend
Woken == {t \in Threads : pc[t] = "blocked" /\ ~InQueue(t)}

Init ==
    /\ init = FALSE /\ sem_level = 0 /\ waiting_threads = <<>>
    /\ state = [t \in Threads |-> "RUNNING"]
    /\ pc = [t \in Threads |-> "user"]
    /\ node = [t \in Threads |-> NULL]
    /\ masked = {}

\* the program initializes the semaphore when nobody is in a call on it
sem_init(l) ==
    /\ ~init
    /\ \A t \in Threads : pc[t] = "user"
    /\ init' = TRUE /\ sem_level' = l /\ waiting_threads' = <<>>
    /\ UNCHANGED <<state, pc, node, masked>>

\* the body of the loop of sem_pend, up to sched_schedule
Block(t) ==
    /\ sem_level < 1
    /\ state' = [state EXCEPT ![t] = "WAITING"]
    /\ waiting_threads' = Append(waiting_threads, t)
    /\ pc' = [pc EXCEPT ![t] = "blocked"]
    /\ UNCHANGED <<init, sem_level, node, masked>>

Acquire(t) ==
    /\ sem_level >= 1
    /\ sem_level' = sem_level - 1
    /\ pc' = [pc EXCEPT ![t] = "user"]
    /\ state' = [state EXCEPT ![t] = "RUNNING"]
    /\ UNCHANGED <<init, waiting_threads, node, masked>>

sem_pend(t) ==
    /\ pc[t] = "user" /\ init
    /\ Block(t) \/ Acquire(t)

\* Mutant: the woken thread goes by what it read before it slept
ResumeFailsSpins(t) ==
    /\ pc[t] = "blocked" /\ state[t] = "READY" /\ ~init
    /\ UNCHANGED vars

\* sched_schedule has returned: the condition of the loop is tested again
Resume(t) ==
    /\ pc[t] = "blocked" /\ state[t] = "READY" /\ init
    /\ Block(t) \/ Acquire(t)

\* ... and the semaphore was destroyed meanwhile: OS_ERR_SEM_UNINITIALIZED
ResumeFails(t) ==
    /\ pc[t] = "blocked" /\ state[t] = "READY" /\ ~init
    /\ pc' = [pc EXCEPT ![t] = "user"]
    /\ state' = [state EXCEPT ![t] = "RUNNING"]
    /\ UNCHANGED <<init, sem_level, waiting_threads, node, masked>>

\* Mutant: the level is not tested
TryPendUnchecked(t) ==
    /\ pc[t] = "user" /\ init
    /\ sem_level' = sem_level - 1
    /\ UNCHANGED <<init, waiting_threads, state, pc, node, masked>>

sem_try_pend(t) ==
    /\ pc[t] = "user" /\ init
    /\ Acquire(t)

\* Mutant: the level is incremented once for the call and once for the thread
PostTwice(t, off) ==
    /\ pc[t] = "user" /\ init /\ sem_level < MaxLevel
    /\ masked' = IF off THEN masked \cup {t} ELSE masked \ {t}
    /\ IF sem_level + 1 > 0 /\ waiting_threads # <<>>
       THEN /\ node' = [node EXCEPT ![t] = Head(waiting_threads)]
            /\ waiting_threads' = Tail(waiting_threads)
            /\ pc' = [pc EXCEPT ![t] = "unlock"]
            /\ sem_level' = sem_level + 2
       ELSE sem_level' = sem_level + 1 /\ UNCHANGED <<node, waiting_threads, pc>>
    /\ UNCHANGED <<init, state>>

\* Mutant: a thread is woken only when the level was zero
PostWakesAtZero(t, off) ==
    /\ pc[t] = "user" /\ init /\ sem_level < MaxLevel
    /\ sem_level' = sem_level + 1
    /\ masked' = IF off THEN masked \cup {t} ELSE masked \ {t}
    /\ IF sem_level = 0 /\ waiting_threads # <<>>
       THEN /\ node' = [node EXCEPT ![t] = Head(waiting_threads)]
            /\ waiting_threads' = Tail(waiting_threads)
            /\ pc' = [pc EXCEPT ![t] = "unlock"]
       ELSE UNCHANGED <<node, waiting_threads, pc>>
    /\ UNCHANGED <<init, state>>

\* off: the caller has interrupts off, in an interrupt handler or in a
\* critical section
sem_post(t, off) ==
    /\ pc[t] = "user" /\ init /\ sem_level < MaxLevel
    /\ sem_level' = sem_level + 1
    /\ masked' = IF off THEN masked \cup {t} ELSE masked \ {t}
    /\ IF sem_level' > 0 /\ waiting_threads # <<>>
       THEN /\ node' = [node EXCEPT ![t] = Head(waiting_threads)]
            /\ waiting_threads' = Tail(waiting_threads)
            /\ pc' = [pc EXCEPT ![t] = "unlock"]
       ELSE UNCHANGED <<node, waiting_threads, pc>>
    /\ UNCHANGED <<init, state>>

\* sched_unlock_thread of the popped thread; do_schedule is 1 when the caller
\* has interrupts off.  It fails, and sem_post panics, when the thread does not
\* wait.
Unlock(t) ==
    /\ pc[t] = "unlock"
    /\ state[node[t]] = "WAITING"
    /\ state' = [state EXCEPT ![node[t]] = "READY"]
    /\ node' = [node EXCEPT ![t] = NULL]
    /\ pc' = [pc EXCEPT ![t] = IF t \in masked THEN "schedule" ELSE "user"]
    /\ UNCHANGED <<init, sem_level, waiting_threads, masked>>

\* the sched_schedule of sched_unlock_thread; the caller runs again later
Schedule(t) ==
    /\ pc[t] = "schedule"
    /\ pc' = [pc EXCEPT ![t] = "user"]
    /\ UNCHANGED <<init, sem_level, waiting_threads, state, node, masked>>

\* Mutant: the waiting threads are unlocked but kept queued
DestroyKeepsQueue(t) ==
    /\ pc[t] = "user" /\ init
    /\ init' = FALSE
    /\ state' = [u \in Threads |-> IF InQueue(u) THEN "READY" ELSE state[u]]
    /\ UNCHANGED <<sem_level, waiting_threads, pc, node, masked>>

sem_destroy(t) ==
    /\ pc[t] = "user" /\ init
    /\ init' = FALSE
    /\ state' = [u \in Threads |-> IF InQueue(u) THEN "READY" ELSE state[u]]
    /\ waiting_threads' = <<>>
    /\ UNCHANGED <<sem_level, pc, node, masked>>

\* what a thread does without being called again
Continue(t) == Resume(t) \/ ResumeFails(t) \/ Unlock(t) \/ Schedule(t)

Next ==
    \/ \E l \in Levels : sem_init(l)
    \/ \E t \in Threads :
           \/ sem_pend(t) \/ sem_try_pend(t) \/ sem_destroy(t)
           \/ \E off \in BOOLEAN : sem_post(t, off)
           \/ Continue(t)

Spec == Init /\ [][Next]_vars

\* A thread that is ready, or on its way through a call, is scheduled again:
\* select_thread takes the threads of one priority in turn.
FairSpec == Spec /\ \A t \in Threads : WF_vars(Continue(t))
-----------------------------------------------------------------------------
AboveFloor == \E l \in Levels \cup {0} : sem_level >= l

\* Types of the fields of struct semaphore and of the threads' control state; a
\* pend never takes the level below zero or, if it is lower, its first value.
TypeOK ==
    /\ init \in BOOLEAN
    /\ sem_level \in Int /\ AboveFloor
    /\ waiting_threads \in Seq(Threads)
    /\ state \in [Threads -> {"RUNNING", "READY", "WAITING"}]
    /\ pc \in [Threads -> {"user", "blocked", "unlock", "schedule"}]
    /\ node \in [Threads -> Threads \cup {NULL}]
    /\ masked \subseteq Threads

\* A thread blocked in sem_pend has exactly one waker ahead or behind it: it is
\* in the waiting queue, once; or one sem_post has popped it and not unlocked
\* it yet; or it was unlocked.  In the first two cases it is WAITING, which is
\* what sched_unlock_thread demands: anything else is a kernel panic.
OneWaker ==
    /\ \A i, j \in 1 .. Len(waiting_threads) :
           waiting_threads[i] = waiting_threads[j] => i = j
    /\ \A t \in Threads : InQueue(t) =>
           /\ pc[t] = "blocked" /\ state[t] = "WAITING"
           /\ \A u \in Threads : node[u] # t
    /\ \A t \in Threads : pc[t] = "unlock" =>
           /\ node[t] \in Threads
           /\ pc[node[t]] = "blocked" /\ state[node[t]] = "WAITING"
           /\ \A u \in Threads : node[u] = node[t] => u = t
    /\ \A t \in Threads : pc[t] # "unlock" => node[t] = NULL

\* No wake-up is lost: while threads wait for a semaphore that has a positive
\* level, at least as many others as the level were woken and have still to
\* test it again.  Woken threads race with new callers of sem_pend, and a loser
\* goes back to the queue, so the level alone does not tell.
NoLostWakeup ==
    init /\ waiting_threads # <<>> => sem_level <= Cardinality(Woken)

\* A semaphore that is available does not stay so with threads queued on it.
LevelServed ==
    (init /\ sem_level > 0 /\ waiting_threads # <<>>)
        ~> (~init \/ sem_level < 1 \/ waiting_threads = <<>>)

\* sem_destroy lets every thread out of sem_pend (semaphore.h:88, "Also unlock
\* all the threads locked on this semaphore").
DestroyReleases ==
    \A t \in Threads : (~init /\ pc[t] = "blocked") ~> pc[t] = "user"

Abstract == INSTANCE AbstractSemaphore
    WITH level <- sem_level,
         pending <- {t \in Threads : pc[t] = "blocked"}

\* The semaphore is the counting semaphore of AbstractSemaphore: posts add one,
\* an acquisition takes one only from a positive level, and destroying ends it,
\* although sem_post and sem_pend take several steps.
ImplementsAbstract == Abstract!Spec
=============================================================================
