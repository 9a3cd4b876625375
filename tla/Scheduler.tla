----------------------------- MODULE Scheduler -----------------------------
(***************************************************************************)
(* The scheduler of src/Kernel/Sources/core/scheduler.c: threads, their    *)
(* states and tables, the choice of the next thread on each CPU, and the   *)
(* calls a thread makes (create, sleep, wait, exit, lock, unlock, set      *)
(* priority).                                                              *)
(*                                                                         *)
(* A step is what one CPU does between two points where something else can *)
(* happen that matters: while interrupts are on the timer can take the CPU *)
(* away anywhere, so every statement of a call that another thread can     *)
(* observe is a step of its own there; between ENTER_CRITICAL and          *)
(* EXIT_CRITICAL(cpu_locks) only the other CPUs interleave.                *)
(*                                                                         *)
(* A table is a sequence of threads, from the head, where                  *)
(* kernel_queue_push inserts, to the tail, where kernel_queue_pop takes    *)
(* (module AbstractQueue).  A thread has one node that moves between the   *)
(* tables; its nodes in global_threads_table and in its parent's children  *)
(* list are others.  global_threads_table holds the threads whose state is *)
(* neither NONE nor FREED.                                                 *)
(***************************************************************************)
EXTENDS Integers, FiniteSets, Sequences, FiniteSetsExt

CONSTANTS CPUs,      \* the CPUs that came up, 0 .. n
          MaxCPUs,   \* MAX_CPU_COUNT
          Workers,   \* the threads user code creates
          main,      \* the one of them that runs main()
          init,      \* the INIT thread, on CPU 0
          idle,      \* CPU -> its IDLE thread
          Creator, Affinity, Prio,  \* of each worker: who creates it, where
                                    \* it runs, its first priority
          Joins,     \* pairs <<j, t>>: worker j may wait for thread t
          Lowest,    \* KERNEL_LOWEST_PRIORITY
          Calls,     \* the calls the program makes
          Orphans,   \* whether a thread may exit before its children
          Sleeps,    \* arguments of sched_sleep, in ms
          Slice,     \* 1000 / KERNEL_MAIN_TIMER_FREQ, in ms
          MaxTime,   \* bound of the model on a CPU's uptime
          Word32, Word64,  \* number of values of uint32_t and uint64_t
          NULL

Idles == {idle[c] : c \in CPUs}
Threads == Workers \cup {init} \cup Idles
Prios == 0 .. Lowest

ASSUME SchedulerAssumption ==
    /\ IsFiniteSet(CPUs) /\ 0 \in CPUs /\ CPUs = 0 .. Cardinality(CPUs) - 1
    /\ MaxCPUs \in Nat /\ Cardinality(CPUs) <= MaxCPUs
    /\ IsFiniteSet(Workers) /\ main \in Workers /\ init \notin Workers
    /\ idle \in [CPUs -> Idles]
    /\ \A c, d \in CPUs : idle[c] = idle[d] => c = d
    /\ Idles \cap (Workers \cup {init}) = {}
    /\ Creator \in [Workers -> Workers \cup {init}] /\ Creator[main] = init
    /\ Lowest \in Nat
    /\ Affinity \in [Workers -> CPUs] /\ Prio \in [Workers -> Prios]
    \* a thread is waited for by the one that created it, or by INIT
    /\ Joins \subseteq Workers \X Workers
    /\ \A j \in Joins : Creator[j[2]] = j[1]
    /\ Orphans \in BOOLEAN
    /\ Word32 \in Nat \ {0} /\ Word64 \in Nat \ {0}
    /\ Slice \in Nat \ {0} /\ Slice <= Word64 /\ MaxTime \in Nat /\ Sleeps \subseteq Nat
    /\ NULL \notin Threads

VARIABLES state, priority, wakeup_time, ptid, children, joining_thread,
          active,        \* active_thread
          ready,         \* active_threads_table
          sleeping,      \* sleeping_threads_table
          zombies,       \* zombie_threads_table
          thread_count,
          uptime,        \* CPU -> time_get_current_uptime()
          pc, target,    \* thread -> where it is, the thread it waits for
          asleep,        \* thread -> the uptime and argument of its last
                         \* sched_sleep (history)
          system         \* RUNNING, HALTED (system_state), or PANIC

tables == <<active, ready, sleeping>>
family == <<ptid, children, joining_thread, zombies, thread_count>>
vars == <<state, priority, wakeup_time, ptid, children, joining_thread,
          active, ready, sleeping, zombies, thread_count, uptime, pc, target,
          asleep, system>>

\* where a thread runs
Home(t) == IF t \in Workers THEN Affinity[t]
           ELSE IF t = init THEN 0
           ELSE CHOOSE c \in CPUs : idle[c] = t

\* sched_init and sched_init_ap: each CPU runs its IDLE thread, INIT is ready
Init ==
    /\ state = [t \in Threads |-> CASE t \in Workers -> "NONE"
                                    [] t = init -> "READY"
                                    [] OTHER -> "RUNNING"]
    /\ priority = [t \in Threads |-> CASE t \in Workers -> Prio[t]
                                       [] t = init -> 0
                                       [] OTHER -> Lowest]
    /\ wakeup_time = [t \in Threads |-> 0]
    /\ ptid = [t \in Threads |-> IF t = init THEN idle[0] ELSE NULL]
    /\ children = [t \in Threads |-> IF t = idle[0] THEN <<init>> ELSE <<>>]
    /\ joining_thread = [t \in Threads |-> NULL]
    /\ active = idle
    /\ ready = [c \in CPUs |-> [p \in Prios |->
                    IF c = 0 /\ p = 0 THEN <<init>> ELSE <<>>]]
    /\ sleeping = [c \in CPUs |-> <<>>]
    /\ zombies = <<>>
    /\ thread_count = Cardinality(CPUs) + 1
    /\ uptime = [c \in CPUs |-> 0]
    /\ pc = [t \in Threads |-> IF t = init THEN "start" ELSE "run"]
    /\ target = [t \in Threads |-> NULL]
    /\ asleep = [t \in Threads |-> <<0, 0>>]
    /\ system = "RUNNING"
-----------------------------------------------------------------------------
\* kernel_queue_pop: the thread it takes and the table without it
Oldest(s) == s[Len(s)]
Popped(s) == SubSeq(s, 1, Len(s) - 1)

\* kernel_queue_find and kernel_queue_remove: the table without the node of t
Removed(s, t) ==
    LET i == CHOOSE i \in 1 .. Len(s) : s[i] = t
    IN IF t \in Range(s) THEN SubSeq(s, 1, i - 1) \o SubSeq(s, i + 1, Len(s)) ELSE s

\* the priority argument of push_prio is 32 bits wide, wakeup_time 64
Key(t) == wakeup_time[t] % Word32

\* kernel_queue_push_prio: before the first thread whose key is not larger
InsertAt(s, i, t) == SubSeq(s, 1, i - 1) \o <<t>> \o SubSeq(s, i, Len(s))
PushSleeping(s, t) ==
    LET smaller == {i \in 1 .. Len(s) : Key(s[i]) <= Key(t)}
    IN InsertAt(s, Min(smaller \cup {Len(s) + 1}), t)

\* Mutant: one thread is woken per pass
WakeOne(s, now) ==
    IF s # <<>> /\ wakeup_time[Oldest(s)] < now THEN Len(s) - 1 ELSE Len(s)

\* select_thread pops the sleeping table s from the tail until it meets a
\* thread that is not due: its position, 0 when all are due
LastAsleep(s, now) == Max({0} \cup {i \in 1 .. Len(s) : wakeup_time[s[i]] >= now})

\* the sleeping table when the loop ends: the first thread that is not due has
\* been popped and pushed again
StillAsleep(s, now) ==
    LET rest == SubSeq(s, 1, LastAsleep(s, now))
    IN IF rest = <<>> THEN rest ELSE PushSleeping(Popped(rest), Oldest(rest))

\* the elements of s at the positions in I, in their order
SubSeqAt(s, I) ==
    [k \in 1 .. Cardinality(I) |->
        s[CHOOSE i \in I : Cardinality({j \in I : j <= i}) = k]]

\* the ready tables of CPU c once the thread that leaves it is queued again
Requeue(c) ==
    LET t == active[c]
    IN IF state[t] = "RUNNING"
       THEN [ready[c] EXCEPT ![priority[t]] = <<t>> \o @]
       ELSE ready[c]

\* select_thread, and schedule_int around it, on CPU c at time now
Select(c, now) ==
    LET prev == active[c]
        slept == IF state[prev] = "SLEEPING"
                 THEN PushSleeping(sleeping[c], prev) ELSE sleeping[c]
        due == SubSeq(slept, LastAsleep(slept, now) + 1, Len(slept))
        queue == [p \in Prios |->
                     SubSeqAt(due, {i \in DOMAIN due : priority[due[i]] = p})
                         \o Requeue(c)[p]]
        p == CHOOSE p \in Prios :
                 queue[p] # <<>> /\ \A q \in 0 .. p - 1 : queue[q] = <<>>
        chosen == Oldest(queue[p])
    IN IF \A q \in Prios : queue[q] = <<>>
       THEN system' = "PANIC" /\ UNCHANGED <<tables, state>>
       ELSE /\ sleeping' = [sleeping EXCEPT ![c] = StillAsleep(slept, now)]
            /\ ready' = [ready EXCEPT ![c] = [queue EXCEPT ![p] = Popped(@)]]
            /\ active' = [active EXCEPT ![c] = chosen]
            /\ state' = [t \in Threads |->
                            CASE t = chosen -> "RUNNING"
                              [] t # chosen /\ (\/ t \in Range(due)
                                                \/ t = prev /\ state[t] = "RUNNING")
                                     -> "READY"
                              [] OTHER -> state[t]]
            /\ UNCHANGED system

\* thread t is executing and stands at label l
At(t, l) ==
    /\ system # "PANIC"
    /\ active[Home(t)] = t
    /\ pc[t] = l

Goto(t, l) == pc' = [pc EXCEPT ![t] = l]

\* labels inside a critical section, with the CPU's interrupts off
Masked == {"exit2", "exit3", "unlock", "reap", "next"}

\* The timer interrupt of CPU c: time passes and the scheduler runs
Tick(c) ==
    /\ system # "PANIC"
    /\ pc[active[c]] \notin Masked
    /\ LET now == IF uptime[c] + Slice <= MaxTime THEN uptime[c] + Slice
                  ELSE uptime[c]
       IN /\ uptime' = [uptime EXCEPT ![c] = now]
          /\ Select(c, now)
    /\ UNCHANGED <<priority, wakeup_time, family, pc, target, asleep>>

\* sched_schedule at the end of a call; where the thread goes on from
Return == [sched |-> "run", wait3 |-> "clean", exit4 |-> "gone"]

sched_schedule(t) ==
    /\ \E l \in DOMAIN Return : At(t, l) /\ Goto(t, Return[l])
    /\ Select(Home(t), uptime[Home(t)])
    /\ UNCHANGED <<priority, wakeup_time, family, uptime, target, asleep>>
-----------------------------------------------------------------------------
\* t's user code makes a call; the idle threads make none
Call(t, call) == call \in Calls /\ t \in Workers /\ At(t, "run")

\* what sched_create_kernel_thread does with the tables; when the heap is
\* exhausted it undoes its allocations and nothing changes
Spawn(t, u) ==
    /\ state[u] = "NONE" /\ Creator[u] = t
    /\ state' = [state EXCEPT ![u] = "READY"]
    /\ ptid' = [ptid EXCEPT ![u] = t]
    /\ children' = [children EXCEPT ![t] = <<u>> \o @]
    /\ ready' = [ready EXCEPT ![Affinity[u]][Prio[u]] = <<u>> \o @]
    /\ thread_count' = thread_count + 1
    /\ UNCHANGED <<priority, wakeup_time, joining_thread, active, sleeping,
                   zombies, uptime, asleep, system>>

sched_create_kernel_thread(t, u) ==
    /\ Call(t, "create")
    /\ Spawn(t, u)
    /\ UNCHANGED <<pc, target>>

sched_sleep(t, ms) ==
    /\ Call(t, "sleep")
    /\ LET now == uptime[Home(t)]
       IN /\ wakeup_time' = [wakeup_time EXCEPT
                                 ![t] = (now + ms + Word64 - Slice) % Word64]
          /\ asleep' = [asleep EXCEPT ![t] = <<now, ms>>]
    /\ state' = [state EXCEPT ![t] = "SLEEPING"]
    /\ Goto(t, "sched")
    /\ UNCHANGED <<priority, family, tables, uptime, target, system>>

sched_set_priority(t, p) ==
    /\ Call(t, "priority")
    /\ priority' = [priority EXCEPT ![t] = p]
    /\ UNCHANGED <<state, wakeup_time, family, tables, uptime, pc, target,
                   asleep, system>>

\* sched_lock_thread, as the semaphore and the mutex call it; they call
\* sched_schedule next, with interrupts on again
sched_lock_thread(t) ==
    /\ Call(t, "lock")
    /\ state' = [state EXCEPT ![t] = "WAITING"]
    /\ Goto(t, "sched")
    /\ UNCHANGED <<priority, wakeup_time, family, tables, uptime, target,
                   asleep, system>>

\* Mutant: a thread that does not wait is unlocked as well
UnlockAny(t, u) ==
    /\ Call(t, "lock")
    /\ state[u] \in {"WAITING", "READY"}
    /\ state' = [state EXCEPT ![u] = "READY"]
    /\ target' = [target EXCEPT ![t] = u]
    /\ Goto(t, "unlock")
    /\ UNCHANGED <<priority, wakeup_time, family, tables, uptime, asleep,
                   system>>

\* sched_unlock_thread: the state first ...
sched_unlock_thread(t, u) ==
    /\ Call(t, "lock")
    /\ state[u] = "WAITING"
    /\ state' = [state EXCEPT ![u] = "READY"]
    /\ target' = [target EXCEPT ![t] = u]
    /\ Goto(t, "unlock")
    /\ UNCHANGED <<priority, wakeup_time, family, tables, uptime, asleep,
                   system>>

\* Mutant: on the table of the CPU that unlocks
UnlockPushHere(t) ==
    /\ At(t, "unlock")
    /\ LET u == target[t]
       IN ready' = [ready EXCEPT ![Home(t)][priority[u]] = <<u>> \o @]
    /\ target' = [target EXCEPT ![t] = NULL]
    /\ \E l \in {"run", "sched"} : Goto(t, l)
    /\ UNCHANGED <<state, priority, wakeup_time, family, active, sleeping,
                   uptime, asleep, system>>

\* ... then the table of the CPU the thread is bound to
UnlockPush(t) ==
    /\ At(t, "unlock")
    /\ LET u == target[t]
       IN ready' = [ready EXCEPT ![Home(u)][priority[u]] = <<u>> \o @]
    /\ target' = [target EXCEPT ![t] = NULL]
    /\ \E l \in {"run", "sched"} : Goto(t, l)    \* do_schedule
    /\ UNCHANGED <<state, priority, wakeup_time, family, active, sleeping,
                   uptime, asleep, system>>
-----------------------------------------------------------------------------
\* sched_wait_thread up to the test of the state of the thread
StartWait(t, u) ==
    /\ target' = [target EXCEPT ![t] = u]
    /\ IF state[u] = "ZOMBIE"
       THEN Goto(t, "clean") /\ state' = [state EXCEPT ![u] = "DEAD"]
       ELSE Goto(t, "wait1") /\ UNCHANGED state
    /\ UNCHANGED <<priority, wakeup_time, tables, uptime, asleep, system>>

\* user code waits for a thread it has the handle of, and no other thread does
sched_wait_thread(t, u) ==
    /\ Call(t, "wait")
    /\ <<t, u>> \in Joins
    /\ state[u] \notin {"NONE", "DEAD", "FREED"}
    /\ \A v \in Threads : target[v] # u
    /\ StartWait(t, u)
    /\ UNCHANGED family

SetJoining(t) ==
    /\ At(t, "wait1")
    /\ state' = [state EXCEPT ![t] = "JOINING"]
    /\ Goto(t, "wait2")
    /\ UNCHANGED <<priority, wakeup_time, family, tables, uptime, target,
                   asleep, system>>

RegisterJoiner(t) ==
    /\ At(t, "wait2")
    /\ joining_thread' = [joining_thread EXCEPT ![target[t]] = t]
    /\ Goto(t, "wait3")
    /\ UNCHANGED <<state, priority, wakeup_time, ptid, children, zombies,
                   thread_count, tables, uptime, target, asleep, system>>

\* what sched_clean_joined_thread does but for the zombie table and the count
Clean(t) ==
    /\ At(t, "clean")
    /\ children' = [children EXCEPT ![t] = Removed(@, target[t])]
    /\ state' = [state EXCEPT ![target[t]] = "FREED"]
    /\ target' = [target EXCEPT ![t] = NULL]
    /\ Goto(t, CASE t # init -> "run"
                 [] target[t] = main -> "reap"
                 [] OTHER -> "next")
    /\ UNCHANGED <<priority, wakeup_time, ptid, joining_thread, tables, uptime,
                   asleep, system>>

\* Mutant: the zombie table keeps its node
CleanNotZombie(t) ==
    Clean(t) /\ thread_count' = thread_count - 1 /\ UNCHANGED zombies

sched_clean_joined_thread(t) ==
    /\ Clean(t)
    /\ zombies' = Removed(zombies, target[t])
    /\ thread_count' = thread_count - 1
-----------------------------------------------------------------------------
\* thread_exit, from the end of the thread's function or from
\* sched_terminate_thread: the state changes before the critical section
ExitState(t) ==
    /\ state' = [state EXCEPT ![t] = "ZOMBIE"]
    /\ UNCHANGED <<priority, wakeup_time, family, tables, uptime, target,
                   asleep>>

thread_exit(t) ==
    /\ Call(t, "exit")
    /\ Orphans \/ children[t] = <<>>
    /\ Goto(t, "exit1")
    /\ ExitState(t)
    /\ UNCHANGED system

\* Mutant: the children keep their parent's id
InheritNothing(t) == ptid

\* the parent of the children of t becomes INIT
Inherit(t) ==
    [u \in Threads |-> IF u \in Range(children[t]) THEN init ELSE ptid[u]]

\* the zombie table, and the children go to INIT.  The loop reads
\* thread->joining_thread->data of a child without a joiner through a null
\* pointer: it faults, or it reads what is mapped there and goes on.
ExitTables(t) ==
    /\ At(t, "exit1")
    /\ zombies' = <<t>> \o zombies
    /\ children' = [children EXCEPT ![t] = <<>>,
                                    ![init] = children[t] \o @]
    /\ ptid' = Inherit(t)
    /\ \/ UNCHANGED system
       \/ /\ \E u \in Range(children[t]) : joining_thread[u] = NULL
          /\ system' = "PANIC"
    /\ Goto(t, "exit2")
    /\ UNCHANGED <<state, priority, wakeup_time, joining_thread, thread_count,
                   tables, uptime, target, asleep>>

\* the thread that joins this one, if it is blocked: its state, then its table
ExitWake(t) ==
    LET j == joining_thread[t]
    IN /\ At(t, "exit2")
       /\ IF j # NULL /\ state[j] = "JOINING"
          THEN state' = [state EXCEPT ![j] = "READY"] /\ Goto(t, "exit3")
          ELSE UNCHANGED state /\ Goto(t, "exit4")
       /\ UNCHANGED <<priority, wakeup_time, family, tables, uptime, target,
                      asleep, system>>

\* Mutant: on the table of the exiting thread's priority
ExitPushOwnPriority(t) ==
    LET j == joining_thread[t]
    IN /\ At(t, "exit3")
       /\ ready' = [ready EXCEPT ![Home(j)][priority[t]] = <<j>> \o @]
       /\ Goto(t, "exit4")
       /\ UNCHANGED <<state, priority, wakeup_time, family, active, sleeping,
                      uptime, target, asleep, system>>

ExitPush(t) ==
    LET j == joining_thread[t]
    IN /\ At(t, "exit3")
       /\ ready' = [ready EXCEPT ![Home(j)][priority[j]] = <<j>> \o @]
       /\ Goto(t, "exit4")
       /\ UNCHANGED <<state, priority, wakeup_time, family, active, sleeping,
                      uptime, target, asleep, system>>
-----------------------------------------------------------------------------
\* init_func (without the test mode): create main and wait for it ...
InitStart ==
    /\ At(init, "start")
    /\ Spawn(init, main)
    /\ Goto(init, "main")
    /\ UNCHANGED target

InitWait ==
    /\ At(init, "main")
    /\ StartWait(init, main)
    /\ UNCHANGED family

\* ... wait for every thread that became its child, as long as there is one
\* ("next") and then while other threads live ("reap"), and halt.  With no
\* child left and other threads alive, the loop spins with interrupts off.
InitReap ==
    /\ \/ At(init, "next")
       \/ At(init, "reap") /\ thread_count > 1 + MaxCPUs
    /\ children[init] # <<>>
    /\ children' = [children EXCEPT ![init] = Popped(@)]
    /\ StartWait(init, Oldest(children[init]))
    /\ UNCHANGED <<ptid, joining_thread, zombies, thread_count>>

InitHalt ==
    /\ \/ At(init, "reap")
       \/ At(init, "next") /\ children[init] = <<>>
    /\ thread_count <= 1 + MaxCPUs
    /\ system' = "HALTED"
    /\ Goto(init, "exit4")
    /\ ExitState(init)

Step(t) ==
    \/ sched_schedule(t)
    \/ UnlockPush(t)
    \/ SetJoining(t) \/ RegisterJoiner(t) \/ sched_clean_joined_thread(t)
    \/ ExitTables(t) \/ ExitWake(t) \/ ExitPush(t)

Next ==
    \/ \E c \in CPUs : Tick(c)
    \/ \E t \in Threads : Step(t)
    \/ \E t, u \in Workers : \/ sched_create_kernel_thread(t, u)
                             \/ sched_unlock_thread(t, u)
                             \/ sched_wait_thread(t, u)
    \/ \E t \in Workers, ms \in Sleeps : sched_sleep(t, ms)
    \/ \E t \in Workers, p \in Prios : sched_set_priority(t, p)
    \/ \E t \in Workers : sched_lock_thread(t) \/ thread_exit(t)
    \/ InitStart \/ InitWait \/ InitReap \/ InitHalt

Spec == Init /\ [][Next]_vars
-----------------------------------------------------------------------------
States == {"NONE", "READY", "RUNNING", "SLEEPING", "WAITING", "JOINING",
           "ZOMBIE", "DEAD", "FREED"}
Labels == {"run", "sched", "unlock", "wait1", "wait2", "wait3", "clean",
           "exit1", "exit2", "exit3", "exit4", "gone", "start", "main", "reap",
           "next"}
MaybeThread == Threads \cup {NULL}

\* Types of the fields of struct kernel_thread and of the scheduler's globals.
TypeOK ==
    /\ state \in [Threads -> States]
    /\ priority \in [Threads -> Prios]
    /\ wakeup_time \in [Threads -> 0 .. Word64 - 1]
    /\ ptid \in [Threads -> MaybeThread]
    /\ children \in [Threads -> Seq(Threads)]
    /\ joining_thread \in [Threads -> MaybeThread]
    /\ active \in [CPUs -> Threads]
    /\ ready \in [CPUs -> [Prios -> Seq(Threads)]]
    /\ sleeping \in [CPUs -> Seq(Threads)]
    /\ zombies \in Seq(Threads)
    /\ thread_count \in 0 .. Cardinality(Threads)
    /\ uptime \in [CPUs -> 0 .. MaxTime]
    /\ pc \in [Threads -> Labels]
    /\ target \in [Threads -> MaybeThread]
    /\ system \in {"RUNNING", "HALTED", "PANIC"}

\* how many times the node of t is linked in a table
Links(t) ==
    Cardinality({x \in CPUs \X Prios \X (1 .. Cardinality(Threads)) :
                    /\ x[3] <= Len(ready[x[1]][x[2]])
                    /\ ready[x[1]][x[2]][x[3]] = t})
    + Cardinality({x \in CPUs \X (1 .. Cardinality(Threads)) :
                    x[2] <= Len(sleeping[x[1]]) /\ sleeping[x[1]][x[2]] = t})
    + Cardinality({i \in DOMAIN zombies : zombies[i] = t})

\* The node of a thread is never linked twice (kernel_queue.h:96, "A node
\* should be only used in one queue at most"; kernel_queue_push does not look).
NodeInOneTable == \A t \in Threads : Links(t) <= 1

\* a waker has set the state of t and is about to push its node
BeingWoken(t) ==
    \E u \in Threads :
        \/ pc[u] = "unlock" /\ target[u] = t
        \/ pc[u] = "exit3" /\ joining_thread[u] = t

\* No thread is lost, and none runs where it should not: a thread that can run
\* is in the ready table of its own CPU and priority, except while its waker
\* stands between the two steps; a thread that sleeps is in the sleeping table
\* of its CPU or has not left it yet; a thread that runs does so on its CPU
\* only; the ready tables hold nothing else.
NoThreadLost ==
    \A t \in Threads :
        /\ state[t] = "READY" =>
               BeingWoken(t) \/ t \in Range(ready[Home(t)][priority[t]])
        /\ state[t] = "SLEEPING" =>
               active[Home(t)] = t \/ t \in Range(sleeping[Home(t)])
        /\ state[t] = "RUNNING" => active[Home(t)] = t
        /\ \A c \in CPUs :
               /\ active[c] = t => Home(t) = c
               /\ \A p \in Prios :
                      t \in Range(ready[c][p]) => state[t] = "READY"

\* The idle thread of a CPU is running or ready (scheduler.c:570, "This thread
\* should always be ready"), so that select_thread finds a thread to run.
IdleReady ==
    \A c \in CPUs : active[c] = idle[c] \/ idle[c] \in Range(ready[c][Lowest])

\* Memory of a thread is freed when nothing needs it any more: a freed thread
\* is not the active thread of a CPU (whose context select_thread and
\* cpu_save_context still touch) and is in no table.  It is freed once:
\* thread_count, by which INIT decides to halt, counts the threads there are.
NoUseAfterFree ==
    /\ thread_count = Cardinality({t \in Threads : state[t] \notin {"NONE", "FREED"}})
    /\ \A t \in Threads : state[t] = "FREED" =>
           /\ \A c \in CPUs : active[c] # t
           /\ Links(t) = 0

\* Every live thread is the child of its parent and of nobody else, from its
\* creation, through its inheritance by INIT, until somebody waits for it.
FamilyTree ==
    \A t \in Workers : state[t] \notin {"NONE", "FREED"} =>
        /\ \A u \in Threads : t \in Range(children[u]) => u = ptid[t]
        /\ t \in Range(children[ptid[t]]) \/ target[init] = t

\* sched_sleep returns no sooner than asked, by the uptime of the CPU
\* (scheduler.h:161, "Puts the calling thread to sleep for at least time_ms"),
\* when the time is a number of slices.  Any other is rounded down: the thread
\* may be back up to a slice too soon.
SleepsAtLeast ==
    [][\A t \in Threads :
          state[t] = "SLEEPING" /\ state'[t] # "SLEEPING" =>
              \/ uptime'[Home(t)] >= asleep[t][1] + asleep[t][2]
              \/ /\ asleep[t][2] % Slice # 0
                 /\ uptime'[Home(t)] + Slice > asleep[t][1] + asleep[t][2]]_vars

\* Each pass of select_thread leaves no thread asleep that is due, so a sleeper
\* is late by the load of its CPU and not by the threads behind it.
NobodyOversleeps ==
    [][\A c \in CPUs : active'[c] # active[c] =>
          \A t \in Range(sleeping'[c]) : wakeup_time[t] >= uptime'[c]]_vars

\* scheduler.c:103-104 on the thread tables: "Sorted by priority: -
\* sleeping_threads: thread wakeup time".
SleepingSorted ==
    \A c \in CPUs : \A i, j \in DOMAIN sleeping[c] :
        i < j => wakeup_time[sleeping[c][i]] >= wakeup_time[sleeping[c][j]]

\* scheduler.c:136-140 on thread_exit: "If an other thread is already joining
\* the active thread, then the joining thread will switch from blocked to
\* ready state".  Stated once the exiting thread has left its CPU for good.
ExitWakesJoiner ==
    \A t \in Threads :
        /\ state[t] = "ZOMBIE" /\ active[Home(t)] # t
        /\ joining_thread[t] # NULL
        => state[joining_thread[t]] # "JOINING"

\* The tables are sound while CPUs move threads between them: they hold threads,
\* a node is in one table at most, the idle threads are where select_thread finds
\* them, and the sleeping tables are sorted.
TablesSound == TypeOK /\ NodeInOneTable /\ IdleReady /\ SleepingSorted

\* A thread in sched_sleep wakes no sooner than it asked for and no later than
\* the first pass of select_thread that finds it due.
SleepersWake == SleepsAtLeast /\ NobodyOversleeps
=============================================================================
