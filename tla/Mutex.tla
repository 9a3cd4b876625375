------------------------------- MODULE Mutex -------------------------------
(***************************************************************************)
(* A mutex of src/Kernel/Sources/sync/mutex.c and the threads that use it, *)
(* with its two options: recursive, and a priority that the thread that    *)
(* acquires it takes over.  As in module Semaphore a step is one critical  *)
(* section on mutex->lock or one call of the scheduler outside it.         *)
(*                                                                         *)
(* The program only posts a mutex it holds, waits for one it holds already *)
(* only if the mutex is recursive, and makes the calls Calls; the code     *)
(* checks none of this.  Calls on an uninitialized mutex change nothing.   *)
(***************************************************************************)
EXTENDS Integers, Sequences, FiniteSets

CONSTANTS Callers,     \* the threads that use the mutex
          Base,        \* thread -> the priority it runs at by itself
          Lowest,      \* KERNEL_LOWEST_PRIORITY
          Recursive,   \* MUTEX_FLAG_RECURSIVE is set
          Elevations,  \* the priorities given to mutex_init
          NONE,        \* MUTEX_PRIORITY_ELEVATION_NONE, and no thread
          Calls,       \* the calls the program makes
          MaxHeld      \* bound of the model on recursive acquisitions

\* what is assumed of the constants
MutexAssumption ==
    /\ IsFiniteSet(Callers) /\ NONE \notin Callers
    /\ Lowest \in Nat /\ Base \in [Callers -> 0 .. Lowest]
    /\ Recursive \in BOOLEAN
    /\ Elevations \subseteq 0 .. Lowest \cup {NONE} /\ NONE \notin Int
    /\ MaxHeld \in Nat \ {0}

VARIABLES m_init,             \* mutex->init = 1
          free,               \* mutex->state = 1
          elevation,          \* mutex->flags >> 8
          locker_tid, acquired_thread_priority,
          m_waiting_threads,  \* oldest first: pushed last, popped first
          m_state, priority,  \* thread -> what the scheduler keeps of it
          m_pc, m_node,       \* thread -> where it is; the thread it popped
          held,               \* thread -> successful acquisitions it has not
                              \* posted yet (history)
          before              \* thread -> its priority when mutex_pend acquired
                              \* what it holds, else NONE (history)
queue == <<m_waiting_threads, m_state, m_node>>
mutexVars == <<m_init, free, elevation, locker_tid, acquired_thread_priority,
               m_waiting_threads, m_state, priority, m_pc, m_node, held, before>>

MutexInQueue(t) == \E i \in 1 .. Len(m_waiting_threads) : m_waiting_threads[i] = t
MutexWoken == {t \in Callers : m_pc[t] = "blocked" /\ ~MutexInQueue(t)}

\* t's program makes a call
Call(t, call) == m_pc[t] = "user" /\ m_init /\ call \in Calls

Goto(t, l) == m_pc' = [m_pc EXCEPT ![t] = l]

\* sched_set_priority by t
SetPriority(t, p) == priority' = [priority EXCEPT ![t] = p]

MutexInit ==
    /\ m_init = FALSE /\ free = TRUE /\ elevation = NONE
    /\ locker_tid = NONE /\ acquired_thread_priority = 0
    /\ m_waiting_threads = <<>>
    /\ m_state = [t \in Callers |-> "RUNNING"] /\ priority = Base
    /\ m_pc = [t \in Callers |-> "user"] /\ m_node = [t \in Callers |-> NONE]
    /\ held = [t \in Callers |-> 0]
    /\ before = [t \in Callers |-> NONE]

\* locker_tid is 0, the id of the idle thread, until somebody acquires
mutex_init(prio) ==
    /\ ~m_init
    /\ \A t \in Callers : m_pc[t] = "user"
    /\ m_init' = TRUE /\ free' = TRUE /\ elevation' = prio
    /\ locker_tid' = NONE /\ acquired_thread_priority' = 0
    /\ m_waiting_threads' = <<>>
    /\ UNCHANGED <<m_state, priority, m_pc, m_node, held, before>>

\* the body of the loop of mutex_pend, up to sched_schedule
MutexBlock(t) ==
    /\ ~free /\ ~(Recursive /\ locker_tid = t)
    /\ m_state' = [m_state EXCEPT ![t] = "WAITING"]
    /\ m_waiting_threads' = Append(m_waiting_threads, t)
    /\ Goto(t, "blocked")
    /\ UNCHANGED <<m_init, free, elevation, locker_tid, acquired_thread_priority,
                   priority, m_node, held, before>>

\* the rest of mutex_pend; the priority is shifted by 8 bits a second time
MutexAcquire(t) ==
    /\ free' = FALSE /\ locker_tid' = t
    /\ IF elevation = NONE
       THEN UNCHANGED <<acquired_thread_priority, priority>>
       ELSE /\ acquired_thread_priority' = priority[t]
            /\ SetPriority(t, elevation \div 256)
    /\ held' = [held EXCEPT ![t] = @ + 1]
    /\ before' = [before EXCEPT ![t] = priority[t]]
    /\ m_state' = [m_state EXCEPT ![t] = "RUNNING"]
    /\ Goto(t, "user")
    /\ UNCHANGED <<m_init, elevation, m_waiting_threads, m_node>>

Enter(t) ==
    \/ MutexBlock(t)
    \/ (free \/ (Recursive /\ locker_tid = t)) /\ MutexAcquire(t)

mutex_pend(t) ==
    /\ Call(t, "pend")
    /\ held[t] < IF Recursive THEN MaxHeld ELSE 1
    /\ Enter(t)

\* Mutant: the state is not tested again
ResumeAcquires(t) ==
    /\ m_pc[t] = "blocked" /\ m_state[t] = "READY" /\ m_init
    /\ MutexAcquire(t)

\* sched_schedule has returned: the condition of the loop is tested again
MutexResume(t) ==
    /\ m_pc[t] = "blocked" /\ m_state[t] = "READY" /\ m_init
    /\ Enter(t)

\* ... and the mutex was destroyed meanwhile: OS_ERR_MUTEX_UNINITIALIZED
MutexResumeFails(t) ==
    /\ m_pc[t] = "blocked" /\ m_state[t] = "READY" /\ ~m_init
    /\ m_state' = [m_state EXCEPT ![t] = "RUNNING"]
    /\ Goto(t, "user")
    /\ UNCHANGED <<m_init, free, elevation, locker_tid, acquired_thread_priority,
                   m_waiting_threads, priority, m_node, held, before>>

\* mutex_try_pend of a free mutex; of a taken one it changes nothing
mutex_try_pend(t) ==
    /\ Call(t, "try") /\ free
    /\ free' = FALSE
    /\ held' = [held EXCEPT ![t] = @ + 1]
    /\ before' = [before EXCEPT ![t] = NONE]
    /\ UNCHANGED <<m_init, elevation, locker_tid, acquired_thread_priority,
                   priority, m_pc, queue>>

\* Mutant: nobody is woken
PopNobody(t) ==
    /\ UNCHANGED <<m_node, m_waiting_threads>>
    /\ Goto(t, "user")

\* mutex_post up to the end of its critical section
Pop(t) ==
    IF m_waiting_threads # <<>>
    THEN /\ m_node' = [m_node EXCEPT ![t] = Head(m_waiting_threads)]
         /\ m_waiting_threads' = Tail(m_waiting_threads)
         /\ Goto(t, "unlock")
    ELSE /\ UNCHANGED <<m_node, m_waiting_threads>>
         /\ Goto(t, IF elevation = NONE THEN "user" ELSE "schedule")

\* Mutant: the priority is not given back
KeepPriority(t) == UNCHANGED <<acquired_thread_priority, priority>>

RestorePriority(t) ==
    IF elevation = NONE
    THEN UNCHANGED <<acquired_thread_priority, priority>>
    ELSE /\ SetPriority(t, acquired_thread_priority)
         /\ acquired_thread_priority' = Lowest

mutex_post(t) ==
    /\ Call(t, "post") /\ held[t] > 0
    /\ free' = TRUE
    /\ RestorePriority(t)
    /\ Pop(t)
    /\ held' = [held EXCEPT ![t] = @ - 1]
    /\ before' = [before EXCEPT ![t] = NONE]
    /\ UNCHANGED <<m_init, elevation, locker_tid, m_state>>

\* sched_unlock_thread of the popped thread; mutex_post panics if it fails
MutexUnlock(t) ==
    /\ m_pc[t] = "unlock"
    /\ m_state[m_node[t]] = "WAITING"
    /\ m_state' = [m_state EXCEPT ![m_node[t]] = "READY"]
    /\ m_node' = [m_node EXCEPT ![t] = NONE]
    /\ Goto(t, "schedule")
    /\ UNCHANGED <<m_init, free, elevation, locker_tid, acquired_thread_priority,
                   m_waiting_threads, priority, held, before>>

MutexSchedule(t) ==
    /\ m_pc[t] = "schedule"
    /\ Goto(t, "user")
    /\ UNCHANGED <<m_init, free, elevation, locker_tid, acquired_thread_priority,
                   priority, queue, held, before>>

\* nobody holds a mutex any more that is destroyed
mutex_destroy(t) ==
    /\ Call(t, "destroy")
    /\ m_init' = FALSE
    /\ m_state' = [u \in Callers |-> IF MutexInQueue(u) THEN "READY" ELSE m_state[u]]
    /\ m_waiting_threads' = <<>>
    /\ held' = [u \in Callers |-> 0]
    /\ before' = [u \in Callers |-> NONE]
    /\ UNCHANGED <<free, elevation, locker_tid, acquired_thread_priority,
                   priority, m_pc, m_node>>

MutexContinue(t) == MutexResume(t) \/ MutexResumeFails(t) \/ MutexUnlock(t) \/ MutexSchedule(t)

MutexNext ==
    \/ \E prio \in Elevations : mutex_init(prio)
    \/ \E t \in Callers :
           \/ mutex_pend(t) \/ mutex_try_pend(t) \/ mutex_post(t)
           \/ mutex_destroy(t)
           \/ MutexContinue(t)

MutexSpec == MutexInit /\ [][MutexNext]_mutexVars

\* A thread that is ready is scheduled again, as for the semaphore.
MutexFairSpec == MutexSpec /\ \A t \in Callers : WF_mutexVars(MutexContinue(t))
-----------------------------------------------------------------------------
\* Types of the fields of struct mutex and of the threads' state.
MutexTypeOK ==
    /\ m_init \in BOOLEAN /\ free \in BOOLEAN
    /\ locker_tid \in Callers \cup {NONE}
    /\ acquired_thread_priority \in 0 .. Lowest
    /\ m_waiting_threads \in Seq(Callers)
    /\ m_state \in [Callers -> {"RUNNING", "READY", "WAITING"}]
    /\ priority \in [Callers -> 0 .. Lowest]
    /\ m_pc \in [Callers -> {"user", "blocked", "unlock", "schedule"}]
    /\ m_node \in [Callers -> Callers \cup {NONE}]
    /\ held \in [Callers -> 0 .. MaxHeld]
    /\ before \in [Callers -> 0 .. Lowest \cup {NONE}]
    /\ elevation \in Elevations \cup {NONE}

\* At most one thread is between a successful pend, or try_pend, and its last
\* post, and the mutex is locked then.
Exclusion ==
    /\ \A t, u \in Callers : held[t] > 0 /\ held[u] > 0 => t = u
    /\ m_init /\ (\E t \in Callers : held[t] > 0) => ~free

\* A blocked thread has exactly one waker: its place in the queue, or the one
\* thread that popped it and has not unlocked it yet.  It is WAITING until then,
\* or mutex_post and mutex_destroy panic.
MutexOneWaker ==
    /\ \A i, j \in 1 .. Len(m_waiting_threads) :
           m_waiting_threads[i] = m_waiting_threads[j] => i = j
    /\ \A t \in Callers : MutexInQueue(t) =>
           /\ m_pc[t] = "blocked" /\ m_state[t] = "WAITING"
           /\ \A u \in Callers : m_node[u] # t
    /\ \A t \in Callers : m_pc[t] = "unlock" =>
           /\ m_node[t] \in Callers
           /\ m_pc[m_node[t]] = "blocked" /\ m_state[m_node[t]] = "WAITING"
           /\ \A u \in Callers : m_node[u] = m_node[t] => u = t
    /\ \A t \in Callers : m_pc[t] # "unlock" => m_node[t] = NONE

\* A free mutex on which threads wait has a woken thread that will test it: the
\* wake-up is not lost when another thread takes the mutex first.
MutexNoLostWakeup == m_init /\ free /\ m_waiting_threads # <<>> => MutexWoken # {}

\* The mutex does not stay free while threads wait for it.
FreeIsTaken ==
    (m_init /\ free /\ m_waiting_threads # <<>>)
        ~> (~m_init \/ ~free \/ m_waiting_threads = <<>>)

\* mutex_post gives a thread back the priority at which mutex_pend found it,
\* whatever threads waited, tried or overtook in between.
PostRestores ==
    [][\A t \in Callers : m_init' /\ held[t] > held'[t] /\ before[t] # NONE =>
           priority'[t] = before[t]]_mutexVars

\* Every thread that waits for the mutex has its one waker, and a free mutex
\* has a thread on the way to it.
WakersKept == MutexOneWaker /\ MutexNoLostWakeup
=============================================================================
