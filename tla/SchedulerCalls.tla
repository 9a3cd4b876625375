--------------------------- MODULE SchedulerCalls ---------------------------
(*****************************************************************************)
(* The calls of a thread that change no family preserve the invariant of     *)
(* SchedulerInvariant: sched_sleep, sched_lock_thread, sched_set_priority,   *)
(* the unlocks, the exits up to the wake of the joining thread, and the      *)
(* joining thread up to its sleep.                                           *)
(*****************************************************************************)
EXTENDS SchedulerInvariant
-----------------------------------------------------------------------------
(* A thread blocks, changes its priority or exits *)

\* sched_sleep and sched_lock_thread: the thread blocks itself
Blocks(t, s) ==
    /\ At(t, "run")
    /\ state' = [state EXCEPT ![t] = s]
    /\ Goto(t, "sched")
    /\ wakeup_time' \in [Threads -> 0 .. Word64 - 1]
    /\ asleep' \in [Threads -> Nat \X Nat]
    /\ UNCHANGED <<priority, family, tables, uptime, target, system>>

\* A thread that blocks preserves the invariant.
LEMMA BlockStep ==
    ASSUME Inv, NEW t \in Workers, NEW s \in {"SLEEPING", "WAITING"}, Blocks(t, s)
    PROVE  Inv'
  <1>1. /\ t \in Threads /\ pc[t] = "run" /\ Running(t) /\ state[t] = "RUNNING"
        /\ state \in [Threads -> States] /\ pc \in [Threads -> Labels]
        /\ state' = [state EXCEPT ![t] = s] /\ pc' = [pc EXCEPT ![t] = "sched"]
    BY Zenon, ThreadSets DEF Blocks, At, Goto, Inv, Types, Stands, Running
  <1>2. \A x \in Threads : IF x = t THEN state'[x] = s /\ pc'[x] = "sched"
                            ELSE state'[x] = state[x] /\ pc'[x] = pc[x]
    BY Zenon, <1>1
  <1>3. /\ active' = active /\ priority' = priority /\ target' = target
        /\ joining_thread' = joining_thread /\ ptid' = ptid /\ children' = children
        /\ zombies' = zombies /\ thread_count' = thread_count
    BY Zenon DEF Blocks, family, tables
  <1>4. Types'
    <2>1. state' \in [Threads -> States] /\ pc' \in [Threads -> Labels]
      BY Zenon, <1>1 DEF States, Labels
    <2> QED  BY Zenon, <2>1 DEF Blocks, Inv, Types, family, tables
  <1>5. Tables'
    BY Zenon, <1>1, <1>2, <1>3, TablesKept DEF Blocks
  <1>6. \A u, x \in Threads : Wakes(u, x)' <=> Wakes(u, x)
    BY Zenon, <1>1, <1>2, <1>3 DEF Wakes
  <1>7. \A x \in Threads : Placed(x)'
    BY Zenon, <1>1, <1>2, <1>3, <1>6, PlacedKept DEF Blocks
  <1>8. \A u, x \in Threads : Waker(u, x)'
    BY Zenon, <1>1, <1>2, <1>3, <1>6, WakersKept DEF Blocks
  <1>9. ASSUME NEW x \in Threads  PROVE Stands(x)' /\ Roles(x)'
    <2>1. Stands(x) /\ Roles(x)
      BY Zenon DEF Inv
    <2> QED  BY <1>1, <1>2, <1>3, <2>1, ThreadSets
             DEF Stands, Roles, Running, Masked, ExitLabels
  <1>10. \A x \in Threads : Live(x)' <=> Live(x)
    BY Zenon, <1>1, <1>2 DEF Live
  <1>11. \A x \in Threads : Joiner(x)' /\ Joined(x)'
    BY Zenon, <1>1, <1>2, <1>3, <1>10, JoinsKept DEF WaitLabels, LastExit
  <1>12. /\ \A x \in Threads : Parent(x)'
         /\ \A u \in Workers : Child(u)'
         /\ MainLives'
    BY Zenon, <1>1, <1>2, <1>3, <1>10, FamilyKept, ThreadSets DEF WaitLabels, LateExit
  <1>13. Count' /\ \A x \in Threads : Freed(x)'
    BY Zenon, <1>1, <1>2, <1>3, <1>10, CountKept, FreedKept
  <1>14. ZombieTable'
    BY Zenon, <1>1, <1>2, <1>3, ZombiesKept DEF LateExit
  <1> QED  BY Zenon, <1>4, <1>5, <1>7, <1>8, <1>9, <1>11, <1>12, <1>13, <1>14 DEF Inv

LEMMA SleepStep ==
    ASSUME Inv, NEW t \in Workers, NEW ms \in Sleeps, sched_sleep(t, ms)
    PROVE  Inv'
  <1> DEFINE now == uptime[Home(t)]
             wake == (now + ms + Word64 - Slice) % Word64
  <1>1. t \in Threads /\ now \in 0 .. MaxTime /\ ms \in Nat
    BY Zenon, ThreadSets, SchedulerAssumption DEF Inv, Types
  <1>2. wake \in 0 .. Word64 - 1
    <2>1. now + ms + Word64 - Slice \in Int /\ Word64 \in Nat \ {0}
      BY <1>1, SchedulerAssumption
    <2> QED  BY <2>1
  <1>3. wakeup_time' = [wakeup_time EXCEPT ![t] = wake] /\ asleep' = [asleep EXCEPT ![t] = <<now, ms>>]
    BY Zenon DEF sched_sleep
  <1> HIDE DEF wake
  <1>4. wakeup_time' \in [Threads -> 0 .. Word64 - 1]
    BY Zenon, <1>2, <1>3 DEF Inv, Types
  <1>5. asleep' \in [Threads -> Nat \X Nat]
    <2>1. <<now, ms>> \in Nat \X Nat
      BY <1>1, SchedulerAssumption
    <2> HIDE DEF now
    <2> QED  BY Zenon, <1>3, <2>1 DEF Inv, Types
  <1>6. Blocks(t, "SLEEPING")
    BY Zenon, <1>4, <1>5 DEF Blocks, sched_sleep, Call
  <1> QED  BY Zenon, <1>6, BlockStep

LEMMA LockStep ==
    ASSUME Inv, NEW t \in Workers, sched_lock_thread(t)
    PROVE  Inv'
  <1>1. wakeup_time' \in [Threads -> 0 .. Word64 - 1] /\ asleep' \in [Threads -> Nat \X Nat]
    BY Zenon DEF sched_lock_thread, Inv, Types
  <1>2. Blocks(t, "WAITING")
    BY Zenon, <1>1 DEF Blocks, sched_lock_thread, Call
  <1> QED  BY Zenon, <1>2, BlockStep

LEMMA PriorityStep ==
    ASSUME Inv, NEW t \in Workers, NEW p \in Prios, sched_set_priority(t, p)
    PROVE  Inv'
  <1>1. /\ t \in Threads /\ pc[t] = "run" /\ Running(t) /\ state[t] = "RUNNING"
        /\ priority \in [Threads -> Prios] /\ priority' = [priority EXCEPT ![t] = p]
    BY Zenon, ThreadSets DEF sched_set_priority, Call, At, Inv, Types, Stands, Running
  <1>2. \A x \in Threads : x # t => priority'[x] = priority[x]
    BY Zenon, <1>1
  <1>3. /\ state' = state /\ pc' = pc /\ UNCHANGED tables
        /\ active' = active /\ target' = target
        /\ joining_thread' = joining_thread /\ ptid' = ptid /\ children' = children
        /\ zombies' = zombies /\ thread_count' = thread_count
    BY Zenon DEF sched_set_priority, family, tables
  <1>4. Types'
    BY <1>1 DEF sched_set_priority, Inv, Types, family, tables
  <1>5. Tables'
    BY Zenon, <1>1, <1>2, <1>3, TablesKept
  <1>6. \A u, x \in Threads : Wakes(u, x)' <=> Wakes(u, x)
    BY Zenon, <1>3 DEF Wakes
  <1>7. \A x \in Threads : Placed(x)'
    BY Zenon, <1>1, <1>2, <1>3, <1>6, PlacedKept
  <1>8. \A u, x \in Threads : Waker(u, x)'
    BY Zenon, <1>1, <1>2, <1>3, <1>6, WakersKept
  <1>9. ASSUME NEW x \in Threads  PROVE Stands(x)' /\ Roles(x)'
    <2>1. Stands(x) /\ Roles(x)
      BY Zenon DEF Inv
    <2>2. Stands(x)'
      BY Zenon, <1>1, <1>2, <1>3, <2>1 DEF Stands, Running
    <2>3. x \in Idles => x # t
      BY Zenon, ThreadSets
    <2> QED  BY Zenon, <1>2, <1>3, <2>1, <2>2, <2>3 DEF Roles
  <1>10. \A x \in Threads : Live(x)' <=> Live(x)
    BY Zenon, <1>3 DEF Live
  <1>11. \A x \in Threads : Joiner(x)' /\ Joined(x)'
    BY Zenon, <1>3, <1>10, JoinsKept
  <1>12. /\ \A x \in Threads : Parent(x)'
         /\ \A u \in Workers : Child(u)'
         /\ MainLives'
    BY Zenon, <1>3, <1>10, FamilyKept
  <1>13. Count' /\ \A x \in Threads : Freed(x)'
    BY Zenon, <1>3, <1>10, CountKept, FreedKept
  <1>14. ZombieTable'
    BY Zenon, <1>3, ZombiesKept
  <1> QED  BY Zenon, <1>4, <1>5, <1>7, <1>8, <1>9, <1>11, <1>12, <1>13, <1>14 DEF Inv

\* thread_exit up to its critical section, and INIT when it halts the system.
LEMMA DieStep ==
    ASSUME Inv, NEW t \in Threads, Running(t), pc[t] \in {"run", "reap", "next"},
           NEW l, \/ l = "exit1" /\ t \in Workers
                  \/ l = "exit4" /\ t = init,
           ExitState(t), Goto(t, l), system' \in {"RUNNING", "HALTED", "PANIC"}
    PROVE  Inv'
  <1>1. /\ state[t] = "RUNNING" /\ t \notin Idles
        /\ state \in [Threads -> States] /\ pc \in [Threads -> Labels]
        /\ state' = [state EXCEPT ![t] = "ZOMBIE"] /\ pc' = [pc EXCEPT ![t] = l]
    <2>1. t \notin Idles
      BY Zenon, ThreadSets
    <2>2. state[t] = "RUNNING"
      BY Zenon DEF Inv, Stands
    <2> QED  BY Zenon, <2>1, <2>2 DEF ExitState, Goto, Inv, Types
  <1>2. \A x \in Threads : IF x = t THEN state'[x] = "ZOMBIE" /\ pc'[x] = l
                            ELSE state'[x] = state[x] /\ pc'[x] = pc[x]
    BY Zenon, <1>1
  <1>3. /\ UNCHANGED tables /\ active' = active /\ priority' = priority /\ target' = target
        /\ joining_thread' = joining_thread /\ ptid' = ptid /\ children' = children
        /\ zombies' = zombies /\ thread_count' = thread_count
    BY Zenon DEF ExitState, family, tables
  <1>4. Types'
    <2>1. state' \in [Threads -> States] /\ pc' \in [Threads -> Labels]
      BY Zenon, <1>1 DEF States, Labels
    <2> QED  BY Zenon, <2>1 DEF ExitState, Inv, Types, family, tables
  <1>5. Tables'
    BY Zenon, <1>1, <1>2, <1>3, TablesKept
  <1>6. \A u, x \in Threads : Wakes(u, x)' <=> Wakes(u, x)
    BY Zenon, <1>1, <1>2, <1>3 DEF Wakes
  <1>7. \A x \in Threads : Placed(x)'
    BY Zenon, <1>1, <1>2, <1>3, <1>6, PlacedKept
  <1>8. \A u, x \in Threads : Waker(u, x)'
    BY Zenon, <1>1, <1>2, <1>3, <1>6, WakersKept
  <1>9. ASSUME NEW x \in Threads  PROVE Stands(x)' /\ Roles(x)'
    <2>1. Stands(x) /\ Roles(x)
      BY Zenon DEF Inv
    <2>2. Stands(x)'
      BY Zenon, <1>1, <1>2, <1>3, <2>1 DEF Stands, Running, Masked, ExitLabels
    <2> QED  BY Zenon, <1>1, <1>2, <1>3, <2>1, <2>2 DEF Roles
  <1>10. \A x \in Threads : Live(x)' <=> Live(x)
    BY Zenon, <1>1, <1>2 DEF Live
  <1>11. \A x \in Threads : Joiner(x)' /\ Joined(x)'
    BY Zenon, <1>1, <1>2, <1>3, <1>10, JoinsKept DEF WaitLabels, LastExit, Live
  <1>12. /\ \A x \in Threads : Parent(x)'
         /\ \A u \in Workers : Child(u)'
         /\ MainLives'
    BY Zenon, <1>1, <1>2, <1>3, <1>10, FamilyKept, ThreadSets DEF WaitLabels, LateExit
  <1>13. Count' /\ \A x \in Threads : Freed(x)'
    BY Zenon, <1>1, <1>2, <1>3, <1>10, CountKept, FreedKept
  <1>14. ZombieTable'
    BY Zenon, <1>1, <1>2, <1>3, ZombiesKept DEF LateExit
  <1> QED  BY Zenon, <1>4, <1>5, <1>7, <1>8, <1>9, <1>11, <1>12, <1>13, <1>14 DEF Inv

LEMMA ExitStep ==
    ASSUME Inv, NEW t \in Workers, thread_exit(t)
    PROVE  Inv'
  <1>1. t \in Threads /\ Running(t) /\ pc[t] = "run"
    BY Zenon, ThreadSets DEF thread_exit, Call, At, Running
  <1>2. system' \in {"RUNNING", "HALTED", "PANIC"}
    BY Zenon DEF thread_exit, Inv, Types
  <1> QED  BY Zenon, <1>1, <1>2, DieStep DEF thread_exit

LEMMA HaltStep ==
    ASSUME Inv, InitHalt
    PROVE  Inv'
  <1>1. init \in Threads /\ Running(init) /\ pc[init] \in {"reap", "next"}
    BY Zenon, ThreadSets DEF InitHalt, At, Running
  <1> QED  BY Zenon, <1>1, DieStep DEF InitHalt
-----------------------------------------------------------------------------
(* A thread wakes another one *)

\* A blocked thread becomes ready; t is about to push its node.
LEMMA WakeTables ==
    ASSUME Inv, NEW t \in Threads, NEW u \in Workers \cup {init},
           state[u] \in {"WAITING", "JOINING"}, state' = [state EXCEPT ![u] = "READY"],
           UNCHANGED <<tables, priority>>,
           \A v, x \in Threads : Wakes(v, x)' <=> (Wakes(v, x) \/ (v = t /\ x = u))
    PROVE  /\ Tables'
           /\ \A x \in Threads : Placed(x)'
           /\ \A v, x \in Threads : Waker(v, x)'
  <1>1. u \in Threads /\ state \in [Threads -> States] /\ UNCHANGED tables
    BY Zenon, ThreadSets DEF Inv, Types
  <1>2. \A x \in Threads : state'[x] = IF x = u THEN "READY" ELSE state[x]
    BY Zenon, <1>1
  <1>3. Tables'
    BY Zenon, <1>1, <1>2, TablesKept
  <1>4. \A x \in Threads : Placed(x)'
    BY Zenon, <1>1, <1>2, PlacedKept
  <1>5. \A v \in Threads : ~ Wakes(v, u)
    BY Zenon, <1>1 DEF Inv, Waker
  <1>6. u \notin Range(ready[Home(u)][priority[u]])
    <2>1. Home(u) \in CPUs /\ priority[u] \in Prios
      BY Zenon, <1>1, ThreadSets DEF Inv, Types
    <2> QED  BY Zenon, <2>1 DEF Inv, Tables, ReadyTable
  <1>7. ASSUME NEW v \in Threads, NEW x \in Threads  PROVE Waker(v, x)'
    <2>1. Waker(v, x) /\ ready' = ready /\ priority' = priority
      BY Zenon DEF Inv, tables
    <2>2. CASE x # u
      BY Zenon, <1>2, <2>1, <2>2 DEF Waker
    <2>3. CASE x = u
      BY Zenon, <1>2, <1>5, <1>6, <2>1, <2>3 DEF Waker
    <2> QED  BY Zenon, <2>2, <2>3
  <1> QED  BY Zenon, <1>3, <1>4, <1>7

LEMMA UnlockStep ==
    ASSUME Inv, NEW t \in Workers, NEW u \in Workers, sched_unlock_thread(t, u)
    PROVE  Inv'
  <1>1. /\ t \in Threads /\ u \in Threads /\ u # t /\ pc[t] = "run" /\ Running(t)
        /\ state[t] = "RUNNING" /\ state[u] = "WAITING" /\ t # init
        /\ state \in [Threads -> States] /\ pc \in [Threads -> Labels]
        /\ target \in [Threads -> MaybeThread]
        /\ state' = [state EXCEPT ![u] = "READY"] /\ pc' = [pc EXCEPT ![t] = "unlock"]
        /\ target' = [target EXCEPT ![t] = u]
    <2>1. t \in Threads /\ u \in Threads /\ t # init
      BY Zenon, ThreadSets
    <2>2. pc[t] = "run" /\ Running(t) /\ state[u] = "WAITING"
      BY Zenon DEF sched_unlock_thread, Call, At, Running
    <2>3. state[t] = "RUNNING"
      BY Zenon, <2>1, <2>2 DEF Inv, Stands
    <2> QED  BY Zenon, <2>1, <2>2, <2>3 DEF sched_unlock_thread, Goto, Inv, Types
  <1>2. \A x \in Threads :
            /\ state'[x] = IF x = u THEN "READY" ELSE state[x]
            /\ pc'[x] = IF x = t THEN "unlock" ELSE pc[x]
            /\ target'[x] = IF x = t THEN u ELSE target[x]
    BY Zenon, <1>1
  <1>3. /\ UNCHANGED <<tables, priority>> /\ active' = active
        /\ joining_thread' = joining_thread /\ ptid' = ptid /\ children' = children
        /\ zombies' = zombies /\ thread_count' = thread_count
    BY Zenon DEF sched_unlock_thread, family, tables
  <1>4. Types'
    <2>1. /\ state' \in [Threads -> States] /\ pc' \in [Threads -> Labels]
          /\ target' \in [Threads -> MaybeThread]
      BY Zenon, <1>1 DEF States, Labels, MaybeThread
    <2> QED  BY Zenon, <2>1 DEF sched_unlock_thread, Inv, Types, family, tables
  <1>5. \A v, x \in Threads : Wakes(v, x)' <=> (Wakes(v, x) \/ (v = t /\ x = u))
    BY Zenon, <1>1, <1>2, <1>3 DEF Wakes
  <1>6. /\ Tables' /\ \A x \in Threads : Placed(x)'
        /\ \A v, x \in Threads : Waker(v, x)'
    BY Zenon, <1>1, <1>3, <1>5, WakeTables
  <1>7. ASSUME NEW x \in Threads  PROVE Stands(x)' /\ Roles(x)'
    <2>1. Stands(x) /\ Roles(x) /\ priority' = priority
      BY Zenon, <1>3 DEF Inv
    <2>2. Stands(x)'
      BY Zenon, <1>1, <1>2, <1>3, <2>1 DEF Stands, Running, Masked, ExitLabels
    <2>3. x \in Idles => x # t /\ x # u
      BY Zenon, ThreadSets
    <2> QED  BY Zenon, <1>1, <1>2, <1>3, <2>1, <2>2, <2>3 DEF Roles
  <1>8. \A x \in Threads : Live(x)' <=> Live(x)
    BY Zenon, <1>1, <1>2 DEF Live
  <1>9. pc[u] \notin WaitLabels
    BY Zenon, <1>1 DEF Inv, Stands, WaitLabels
  <1>10. \A x \in Threads : Joiner(x)' /\ Joined(x)'
    BY Zenon, <1>1, <1>2, <1>3, <1>8, <1>9, JoinsKept DEF WaitLabels, LastExit
  <1>11. /\ \A x \in Threads : Parent(x)'
         /\ \A x \in Workers : Child(x)'
         /\ MainLives'
    BY <1>1, <1>2, <1>3, <1>8, FamilyKept, ThreadSets DEF WaitLabels, LateExit
  <1>12. Count' /\ \A x \in Threads : Freed(x)'
    BY Zenon, <1>1, <1>2, <1>3, <1>8, CountKept, FreedKept
  <1>13. ZombieTable'
    BY Zenon, <1>1, <1>2, <1>3, ZombiesKept DEF LateExit
  <1> QED  BY Zenon, <1>4, <1>6, <1>7, <1>10, <1>11, <1>12, <1>13 DEF Inv

LEMMA ExitWakeStep ==
    ASSUME Inv, NEW t \in Threads, ExitWake(t)
    PROVE  Inv'
  <1> DEFINE j == joining_thread[t]
  <1>1. /\ pc[t] = "exit2" /\ Running(t) /\ t \in Workers /\ Joined(t)
        /\ state \in [Threads -> States] /\ pc \in [Threads -> Labels]
        /\ state[t] \in {"ZOMBIE", "DEAD", "FREED"}
    <2>1. pc[t] = "exit2" /\ Running(t)
      BY Zenon DEF ExitWake, At, Running
    <2> QED  BY Zenon, <2>1 DEF Inv, Types, Stands, Roles, ExitLabels
  <1>2. /\ UNCHANGED <<tables, priority>> /\ active' = active
        /\ joining_thread' = joining_thread /\ ptid' = ptid /\ children' = children
        /\ zombies' = zombies /\ thread_count' = thread_count /\ target' = target
    BY Zenon DEF ExitWake, family, tables
  <1>3. CASE j # NULL /\ state[j] = "JOINING"
    <2>1. PICK u \in Workers \cup {init} : u = j
      <3>1. j \in Threads
        BY Zenon, <1>3 DEF Inv, Types, MaybeThread
      <3>2. pc[j] \in {"wait3", "clean"}
        BY Zenon, <1>1, <1>3 DEF Joined, LastExit
      <3> QED  BY Zenon, <3>1, <3>2 DEF Inv, Joiner, WaitLabels
    <2>2. /\ pc[u] \in {"wait3", "clean"} /\ target[u] = t /\ u # t /\ state[u] = "JOINING"
          /\ u \in Threads /\ joining_thread[t] = u
          /\ \A v \in Threads : pc[v] \in WaitLabels /\ target[v] = t => v = u
      <3>1. pc[u] \in {"wait3", "clean"} /\ target[u] = t /\ u # t
        BY Zenon, <1>1, <1>3, <2>1 DEF Joined, LastExit
      <3>2. u \in Threads
        BY Zenon, ThreadSets
      <3> QED  BY <1>3, <2>1, <3>1, <3>2 DEF Inv, Joiner, WaitLabels
    <2>3. /\ state' = [state EXCEPT ![u] = "READY"] /\ pc' = [pc EXCEPT ![t] = "exit3"]
      BY Zenon, <1>3, <2>1 DEF ExitWake, Goto
    <2>4. \A x \in Threads :
              /\ state'[x] = IF x = u THEN "READY" ELSE state[x]
              /\ pc'[x] = IF x = t THEN "exit3" ELSE pc[x]
      BY Zenon, <1>1, <2>3
    <2>5. Types'
      <3>1. state' \in [Threads -> States] /\ pc' \in [Threads -> Labels]
        BY Zenon, <1>1, <2>3 DEF States, Labels
      <3> QED  BY Zenon, <3>1 DEF ExitWake, Inv, Types, family, tables
    <2>6. \A v, x \in Threads : Wakes(v, x)' <=> (Wakes(v, x) \/ (v = t /\ x = u))
      BY Zenon, <1>1, <1>2, <2>2, <2>4 DEF Wakes
    <2>7. /\ Tables' /\ \A x \in Threads : Placed(x)'
          /\ \A v, x \in Threads : Waker(v, x)'
      <3>1. state[u] \in {"WAITING", "JOINING"}
        BY Zenon, <2>2
      <3> QED  BY Zenon, <1>2, <2>3, <2>6, <3>1, WakeTables
    <2>8. ASSUME NEW x \in Threads  PROVE Stands(x)' /\ Roles(x)'
      <3>1. Stands(x) /\ Roles(x) /\ priority' = priority
        BY Zenon, <1>2 DEF Inv
      <3>2. Stands(x)'
        BY Zenon, <1>1, <1>2, <2>2, <2>4, <3>1 DEF Stands, Running, Masked, ExitLabels
      <3>3. x \in Idles => x # t /\ x # u
        BY Zenon, <1>1, <2>2, ThreadSets
      <3>4. joining_thread'[t] # NULL
        BY Zenon, <1>2, <1>3
      <3> QED  BY Zenon, <1>1, <1>2, <2>2, <2>4, <3>1, <3>2, <3>3, <3>4 DEF Roles
    <2>9. \A x \in Threads : Live(x)' <=> Live(x)
      BY Zenon, <2>2, <2>4 DEF Live
    <2>10. ASSUME NEW x \in Threads  PROVE Joiner(x)'
      <3> SUFFICES ASSUME pc'[x] \in WaitLabels  PROVE Joiner(x)'
        BY Zenon DEF Joiner
      <3>1. pc[x] \in WaitLabels /\ pc'[x] = pc[x] /\ Joiner(x)
        BY Zenon, <1>1, <2>4 DEF WaitLabels, Inv
      <3>2. PICK v \in Workers : v = target[x]
        BY Zenon, <3>1 DEF Joiner
      <3>3. v \in Threads /\ (Live(v)' <=> Live(v))
        BY Zenon, <2>9, ThreadSets
      <3>4. \A y \in Threads : pc'[y] \in WaitLabels => pc[y] \in WaitLabels
        BY Zenon, <2>4 DEF WaitLabels
      <3>5. CASE x = u
        BY Zenon, <1>2, <2>2, <2>4, <3>1, <3>2, <3>3, <3>4, <3>5 DEF Joiner
      <3>6. CASE x # u
        <4>1. v # t
          BY Zenon, <2>2, <3>1, <3>2, <3>6
        <4>2. pc'[v] = pc[v] /\ state'[x] = state[x] /\ (state[v] = "DEAD" => state'[v] = "DEAD")
          BY Zenon, <2>2, <2>4, <3>3, <3>6, <4>1
        <4> QED  BY Zenon, <1>2, <3>1, <3>2, <3>3, <3>4, <4>2 DEF Joiner
      <3> QED  BY Zenon, <3>5, <3>6
    <2>11. ASSUME NEW x \in Threads  PROVE Joined(x)'
      <3>1. Joined(x) /\ (joining_thread[x] # NULL => joining_thread[x] \in Threads)
        BY Zenon DEF Inv, Types, MaybeThread
      <3> QED  BY Zenon, <1>1, <1>2, <2>4, <2>9, <3>1 DEF Joined, LastExit
    <2>12. /\ \A x \in Threads : Parent(x)'
           /\ \A x \in Workers : Child(x)'
           /\ MainLives'
      BY Zenon, <1>1, <1>2, <2>4, <2>9, FamilyKept, ThreadSets DEF WaitLabels, LateExit
    <2>13. Count' /\ \A x \in Threads : Freed(x)'
      BY Zenon, <1>2, <2>2, <2>4, <2>9, CountKept, FreedKept
    <2>14. ZombieTable'
      BY Zenon, <1>2, <2>4, ZombiesKept DEF LateExit
    <2> QED  BY Zenon, <2>5, <2>7, <2>8, <2>10, <2>11, <2>12, <2>13, <2>14 DEF Inv
  <1>4. CASE ~ (j # NULL /\ state[j] = "JOINING")
    <2>1. state' = state /\ pc' = [pc EXCEPT ![t] = "exit4"]
      BY Zenon, <1>4 DEF ExitWake, Goto
    <2>2. \A x \in Threads : pc'[x] = IF x = t THEN "exit4" ELSE pc[x]
      BY Zenon, <1>1, <2>1
    <2>3. Types'
      <3>1. state' \in [Threads -> States] /\ pc' \in [Threads -> Labels]
        BY Zenon, <1>1, <2>1 DEF Labels
      <3> QED  BY Zenon, <3>1 DEF ExitWake, Inv, Types, family, tables
    <2>4. \A v, x \in Threads : Wakes(v, x)' <=> Wakes(v, x)
      BY Zenon, <1>1, <1>2, <2>2 DEF Wakes
    <2>5. Tables' /\ (\A x \in Threads : Placed(x)') /\ \A v, x \in Threads : Waker(v, x)'
      BY Zenon, <1>2, <2>1, <2>4, TablesKept, PlacedKept, WakersKept
    <2>6. ASSUME NEW x \in Threads  PROVE Stands(x)' /\ Roles(x)'
      <3>1. Stands(x) /\ Roles(x) /\ priority' = priority
        BY Zenon, <1>2 DEF Inv
      <3>2. Stands(x)'
        BY Zenon, <1>1, <1>2, <2>1, <2>2, <3>1 DEF Stands, Running, Masked, ExitLabels
      <3>3. x \in Idles => x # t
        BY Zenon, <1>1, ThreadSets
      <3> QED  BY Zenon, <1>1, <1>2, <2>1, <2>2, <3>1, <3>2, <3>3 DEF Roles
    <2>7. \A x \in Threads : Live(x)' <=> Live(x)
      BY Zenon, <2>1 DEF Live
    <2>8. \A x \in Threads : Joiner(x)' /\ Joined(x)'
      BY Zenon, <1>1, <1>2, <2>1, <2>2, <2>7, JoinsKept DEF WaitLabels, LastExit
    <2>9. /\ \A x \in Threads : Parent(x)'
          /\ \A x \in Workers : Child(x)'
          /\ MainLives'
      BY Zenon, <1>1, <1>2, <2>2, <2>7, FamilyKept, ThreadSets DEF WaitLabels, LateExit
    <2>10. Count' /\ \A x \in Threads : Freed(x)'
      BY Zenon, <1>2, <2>1, <2>7, CountKept, FreedKept
    <2>11. ZombieTable'
      BY Zenon, <1>2, <2>2, ZombiesKept DEF LateExit
    <2> QED  BY Zenon, <2>3, <2>5, <2>6, <2>8, <2>9, <2>10, <2>11 DEF Inv
  <1> QED  BY Zenon, <1>3, <1>4

\* the waker t of u pushes its node and goes on at l: the second step of
\* sched_unlock_thread and of the end of thread_exit
Pushes(t, u, l) ==
    /\ ready' = [ready EXCEPT ![Home(u)][priority[u]] = <<u>> \o @]
    /\ Goto(t, l)
    /\ \/ pc[t] = "unlock" /\ l \in {"run", "sched"} /\ target' = [target EXCEPT ![t] = NULL]
       \/ pc[t] = "exit3" /\ l = "exit4" /\ target' = target
    /\ UNCHANGED <<state, priority, wakeup_time, family, active, sleeping,
                   uptime, asleep, system>>

\* The push preserves the invariant.
LEMMA PushStep ==
    ASSUME Inv, NEW t \in Threads, NEW u \in Threads, Wakes(t, u), Running(t),
           NEW l, Pushes(t, u, l)
    PROVE  Inv'
  <1>0. \/ pc[t] = "unlock" /\ l \in {"run", "sched"} /\ target' = [target EXCEPT ![t] = NULL]
        \/ pc[t] = "exit3" /\ l = "exit4" /\ target' = target
    BY Zenon DEF Pushes
  <1>1. /\ state[u] = "READY" /\ u \notin Range(ready[Home(u)][priority[u]])
        /\ t \in Workers /\ Stands(t) /\ t # init
        /\ pc \in [Threads -> Labels] /\ target \in [Threads -> MaybeThread]
        /\ pc' = [pc EXCEPT ![t] = l]
    <2>1. Roles(t) /\ Stands(t) /\ Waker(t, u)
      BY Zenon DEF Inv
    <2>2. t \in Workers /\ t # init
      BY Zenon, <1>0, <2>1, ThreadSets DEF Roles
    <2> QED  BY Zenon, <2>1, <2>2 DEF Waker, Pushes, Goto, Inv, Types
  <1>2. \A x \in Threads :
            /\ pc'[x] = IF x = t THEN l ELSE pc[x]
            /\ x # t => target'[x] = target[x]
    BY Zenon, <1>0, <1>1
  <1>3. /\ state' = state /\ priority' = priority /\ active' = active /\ sleeping' = sleeping
        /\ joining_thread' = joining_thread /\ ptid' = ptid /\ children' = children
        /\ zombies' = zombies /\ thread_count' = thread_count
    BY Zenon DEF Pushes, family
  <1>4. /\ ready' \in [CPUs -> [Prios -> Seq(Threads)]]
        /\ Tables'
        /\ u \in Range(ready'[Home(u)][priority[u]])
        /\ \A x \in Threads : x # u =>
               (x \in Range(ready'[Home(x)][priority[x]]) <=>
                x \in Range(ready[Home(x)][priority[x]]))
    <2>1. BecomesReady(u)
      BY Zenon, <1>1, <1>3 DEF Pushes, BecomesReady
    <2> QED  BY Zenon, <1>3, <2>1, ReadyPush
  <1>5. Types'
    <2>1. pc' \in [Threads -> Labels] /\ target' \in [Threads -> MaybeThread]
      BY Zenon, <1>0, <1>1 DEF Labels, MaybeThread
    <2> QED  BY Zenon, <1>4, <2>1 DEF Pushes, Inv, Types, family
  <1>6. \A v, x \in Threads : Wakes(v, x)' <=> (Wakes(v, x) /\ v # t)
    BY Zenon, <1>0, <1>1, <1>2, <1>3 DEF Wakes
  <1>7. \A x \in Threads : Wakes(t, x) => x = u
    BY Zenon, <1>0 DEF Wakes
  <1>8. ASSUME NEW x \in Threads  PROVE Placed(x)'
    <2>1. Placed(x)
      BY Zenon DEF Inv
    <2>2. CASE x = u
      BY Zenon, <1>1, <1>3, <1>4, <2>2 DEF Placed
    <2>3. CASE x # u
      BY Zenon, <1>3, <1>4, <1>6, <1>7, <2>1, <2>3 DEF Placed, Running
    <2> QED  BY Zenon, <2>2, <2>3
  <1>9. ASSUME NEW v \in Threads, NEW x \in Threads  PROVE Waker(v, x)'
    <2> SUFFICES ASSUME Wakes(v, x), v # t  PROVE Waker(v, x)'
      BY Zenon, <1>6 DEF Waker
    <2>1. Waker(v, x) /\ Waker(t, u)
      BY Zenon DEF Inv
    <2>2. x # u
      BY Zenon, <2>1 DEF Waker
    <2> QED  BY Zenon, <1>3, <1>4, <1>6, <2>1, <2>2 DEF Waker
  <1>10. ASSUME NEW x \in Threads  PROVE Stands(x)' /\ Roles(x)'
    <2>1. Stands(x) /\ Roles(x)
      BY Zenon DEF Inv
    <2>2. Stands(x)'
      BY Zenon, <1>0, <1>1, <1>2, <1>3, <2>1 DEF Stands, Running, Masked, ExitLabels
    <2>3. x \in Idles => x # t
      BY Zenon, <1>1, ThreadSets
    <2> QED  BY Zenon, <1>0, <1>1, <1>2, <1>3, <2>1, <2>2, <2>3 DEF Roles
  <1>11. \A x \in Threads : Live(x)' <=> Live(x)
    BY Zenon, <1>3 DEF Live
  <1>12. \A x \in Threads : Joiner(x)' /\ Joined(x)'
    BY Zenon, <1>0, <1>1, <1>2, <1>3, <1>11, JoinsKept DEF WaitLabels, LastExit
  <1>13. /\ \A x \in Threads : Parent(x)'
         /\ \A x \in Workers : Child(x)'
         /\ MainLives'
    BY Zenon, <1>0, <1>1, <1>2, <1>3, <1>11, FamilyKept, ThreadSets DEF WaitLabels, LateExit
  <1>14. Count' /\ \A x \in Threads : Freed(x)'
    BY Zenon, <1>3, <1>11, CountKept, FreedKept
  <1>15. ZombieTable'
    BY Zenon, <1>0, <1>2, <1>3, ZombiesKept DEF LateExit
  <1> QED  BY Zenon, <1>4, <1>5, <1>8, <1>9, <1>10, <1>12, <1>13, <1>14, <1>15 DEF Inv

LEMMA UnlockPushStep ==
    ASSUME Inv, NEW t \in Threads, UnlockPush(t)
    PROVE  Inv'
  <1>1. pc[t] = "unlock" /\ Running(t)
    BY Zenon DEF UnlockPush, At, Running
  <1>2. PICK u \in Threads : u = target[t]
    BY Zenon, <1>1, ThreadSets DEF Inv, Roles
  <1>3. Wakes(t, u)
    BY Zenon, <1>1, <1>2 DEF Wakes
  <1>4. PICK l \in {"run", "sched"} : Goto(t, l)
    BY Zenon DEF UnlockPush
  <1>5. /\ ready' = [ready EXCEPT ![Home(u)][priority[u]] = <<u>> \o @]
        /\ target' = [target EXCEPT ![t] = NULL]
        /\ UNCHANGED <<state, priority, wakeup_time, family, active, sleeping,
                       uptime, asleep, system>>
    BY Zenon, <1>2 DEF UnlockPush
  <1>6. Pushes(t, u, l)
    BY Zenon, <1>1, <1>4, <1>5 DEF Pushes
  <1> QED  BY Zenon, <1>1, <1>3, <1>6, PushStep

LEMMA ExitPushStep ==
    ASSUME Inv, NEW t \in Threads, ExitPush(t)
    PROVE  Inv'
  <1>1. pc[t] = "exit3" /\ Running(t)
    BY Zenon DEF ExitPush, At, Running
  <1>2. PICK u \in Threads : u = joining_thread[t]
    BY Zenon, <1>1 DEF Inv, Roles, Types, MaybeThread
  <1>3. Wakes(t, u)
    BY Zenon, <1>1, <1>2 DEF Wakes
  <1>4. /\ ready' = [ready EXCEPT ![Home(u)][priority[u]] = <<u>> \o @]
        /\ target' = target /\ Goto(t, "exit4")
        /\ UNCHANGED <<state, priority, wakeup_time, family, active, sleeping,
                       uptime, asleep, system>>
    BY Zenon, <1>2 DEF ExitPush
  <1>5. Pushes(t, u, "exit4")
    BY Zenon, <1>1, <1>4 DEF Pushes
  <1> QED  BY Zenon, <1>1, <1>3, <1>5, PushStep
-----------------------------------------------------------------------------
(* A thread joins another one *)

LEMMA SetJoiningStep ==
    ASSUME Inv, NEW t \in Threads, SetJoining(t)
    PROVE  Inv'
  <1>1. /\ pc[t] = "wait1" /\ Running(t) /\ state[t] = "RUNNING" /\ t \notin Idles
        /\ state \in [Threads -> States] /\ pc \in [Threads -> Labels]
        /\ state' = [state EXCEPT ![t] = "JOINING"] /\ pc' = [pc EXCEPT ![t] = "wait2"]
    <2>1. pc[t] = "wait1" /\ Running(t)
      BY Zenon DEF SetJoining, At, Running
    <2>2. state[t] = "RUNNING" /\ t \notin Idles
      BY Zenon, <2>1 DEF Inv, Stands, Roles
    <2> QED  BY Zenon, <2>1, <2>2 DEF SetJoining, Goto, Inv, Types
  <1>2. \A x \in Threads :
            IF x = t THEN state'[x] = "JOINING" /\ pc'[x] = "wait2"
            ELSE state'[x] = state[x] /\ pc'[x] = pc[x]
    BY Zenon, <1>1
  <1>3. /\ UNCHANGED tables /\ active' = active /\ priority' = priority /\ target' = target
        /\ joining_thread' = joining_thread /\ ptid' = ptid /\ children' = children
        /\ zombies' = zombies /\ thread_count' = thread_count
    BY Zenon DEF SetJoining, family, tables
  <1>4. Types'
    <2>1. state' \in [Threads -> States] /\ pc' \in [Threads -> Labels]
      BY Zenon, <1>1 DEF States, Labels
    <2> QED  BY Zenon, <2>1 DEF SetJoining, Inv, Types, family, tables
  <1>5. \A u, x \in Threads : Wakes(u, x)' <=> Wakes(u, x)
    BY Zenon, <1>1, <1>2, <1>3 DEF Wakes
  <1>6. Tables'
    BY Zenon, <1>1, <1>2, <1>3, TablesKept
  <1>7. \A x \in Threads : Placed(x)'
    BY Zenon, <1>1, <1>2, <1>3, <1>5, PlacedKept
  <1>8. \A u, x \in Threads : Waker(u, x)'
    BY Zenon, <1>1, <1>2, <1>3, <1>5, WakersKept
  <1>9. ASSUME NEW x \in Threads  PROVE Stands(x)' /\ Roles(x)'
    <2>1. Stands(x) /\ Roles(x)
      BY Zenon DEF Inv
    <2>2. Stands(x)'
      BY Zenon, <1>1, <1>2, <1>3, <2>1 DEF Stands, Running, Masked, ExitLabels
    <2> QED  BY Zenon, <1>1, <1>2, <1>3, <2>1, <2>2 DEF Roles
  <1>10. \A x \in Threads : Live(x)' <=> Live(x)
    BY Zenon, <1>1, <1>2 DEF Live
  <1>11. ASSUME NEW x \in Threads  PROVE Joiner(x)'
    <2> SUFFICES ASSUME pc'[x] \in WaitLabels  PROVE Joiner(x)'
      BY Zenon DEF Joiner
    <2>1. pc[x] \in WaitLabels /\ Joiner(x)
      BY Zenon, <1>1, <1>2 DEF Inv, WaitLabels
    <2>2. PICK v \in Workers : v = target[x]
      BY Zenon, <2>1 DEF Joiner
    <2>3. /\ v \in Threads /\ (Live(v)' <=> Live(v)) /\ (state[v] = "DEAD" => state'[v] = "DEAD")
          /\ pc[v] \in {"exit3", "exit4", "gone"} => pc'[v] = pc[v]
      BY Zenon, <1>1, <1>2, <1>10, ThreadSets
    <2>4. \A y \in Threads : pc'[y] \in WaitLabels => pc[y] \in WaitLabels
      BY Zenon, <1>1, <1>2 DEF WaitLabels
    <2>5. CASE x = t
      BY Zenon, <1>2, <1>3, <2>1, <2>2, <2>3, <2>4, <2>5 DEF Joiner
    <2>6. CASE x # t
      BY Zenon, <1>2, <1>3, <2>1, <2>2, <2>3, <2>4, <2>6 DEF Joiner, LastExit
    <2> QED  BY Zenon, <2>5, <2>6
  <1>12. ASSUME NEW x \in Threads  PROVE Joined(x)'
    <2>1. Joined(x) /\ (joining_thread[x] # NULL => joining_thread[x] \in Threads)
      BY Zenon DEF Inv, Types, MaybeThread
    <2> QED  BY Zenon, <1>1, <1>2, <1>3, <1>10, <2>1 DEF Joined, LastExit
  <1>13. /\ \A x \in Threads : Parent(x)'
         /\ \A u \in Workers : Child(u)'
         /\ MainLives'
    BY Zenon, <1>1, <1>2, <1>3, <1>10, FamilyKept, ThreadSets DEF WaitLabels, LateExit
  <1>14. Count' /\ \A x \in Threads : Freed(x)'
    BY Zenon, <1>1, <1>2, <1>3, <1>10, CountKept, FreedKept
  <1>15. ZombieTable'
    BY Zenon, <1>1, <1>2, <1>3, ZombiesKept DEF LateExit
  <1> QED  BY <1>4, <1>6, <1>7, <1>8, <1>9, <1>11, <1>12, <1>13, <1>14, <1>15 DEF Inv

LEMMA RegisterJoinerStep ==
    ASSUME Inv, NEW t \in Threads, RegisterJoiner(t)
    PROVE  Inv'
  <1>1. pc[t] = "wait2" /\ Running(t) /\ state[t] = "JOINING" /\ t \notin Idles /\ Joiner(t)
    <2>1. pc[t] = "wait2" /\ Running(t)
      BY Zenon DEF RegisterJoiner, At, Running
    <2> QED  BY Zenon, <2>1 DEF Inv, Stands, Roles
  <1>2. PICK u \in Workers : u = target[t]
    BY Zenon, <1>1 DEF Joiner, WaitLabels
  <1>3. /\ u \in Threads /\ u # t /\ Live(u) /\ ptid[u] = t
        /\ \A v \in Threads : pc[v] \in WaitLabels /\ target[v] = u => v = t
    <2>1. Live(u) /\ ptid[u] = t
          /\ \A v \in Threads : pc[v] \in WaitLabels /\ target[v] = u => v = t
      BY Zenon, <1>1, <1>2 DEF Joiner, WaitLabels
    <2>2. Child(u) /\ u \in Threads
      BY Zenon, ThreadSets DEF Inv
    <2> QED  BY Zenon, <2>1, <2>2 DEF Child
  <1>4. pc[u] # "exit3"
    <2> SUFFICES ASSUME pc[u] = "exit3"  PROVE FALSE
      BY Zenon
    <2>1. Joined(u) /\ joining_thread[u] # NULL /\ joining_thread[u] \in MaybeThread
      BY Zenon, <1>3 DEF Inv, Roles, Types
    <2>2. pc[joining_thread[u]] \in {"wait3", "clean"} /\ target[joining_thread[u]] = u
      BY Zenon, <1>3, <2>1 DEF Joined
    <2>3. joining_thread[u] = t
      BY Zenon, <1>3, <2>1, <2>2 DEF MaybeThread, WaitLabels
    <2> QED  BY Zenon, <1>1, <2>2, <2>3
  <1>5. /\ pc \in [Threads -> Labels] /\ joining_thread \in [Threads -> MaybeThread]
        /\ joining_thread' = [joining_thread EXCEPT ![u] = t] /\ pc' = [pc EXCEPT ![t] = "wait3"]
    BY Zenon, <1>2 DEF RegisterJoiner, Goto, Inv, Types
  <1>6. \A x \in Threads :
            /\ pc'[x] = IF x = t THEN "wait3" ELSE pc[x]
            /\ joining_thread'[x] = IF x = u THEN t ELSE joining_thread[x]
    BY Zenon, <1>3, <1>5
  <1>7. /\ UNCHANGED tables /\ active' = active /\ priority' = priority /\ target' = target
        /\ state' = state /\ ptid' = ptid /\ children' = children
        /\ zombies' = zombies /\ thread_count' = thread_count
    BY Zenon DEF RegisterJoiner, tables
  <1>8. Types'
    <2>1. pc' \in [Threads -> Labels] /\ joining_thread' \in [Threads -> MaybeThread]
      BY Zenon, <1>3, <1>5 DEF Labels, MaybeThread
    <2> QED  BY Zenon, <2>1 DEF RegisterJoiner, Inv, Types, tables
  <1>9. \A v, x \in Threads : Wakes(v, x)' <=> Wakes(v, x)
    BY Zenon, <1>1, <1>4, <1>6, <1>7 DEF Wakes
  <1>10. Tables' /\ (\A x \in Threads : Placed(x)') /\ \A v, x \in Threads : Waker(v, x)'
    BY Zenon, <1>7, <1>9, TablesKept, PlacedKept, WakersKept
  <1>11. ASSUME NEW x \in Threads  PROVE Stands(x)' /\ Roles(x)'
    <2>1. Stands(x) /\ Roles(x)
      BY Zenon DEF Inv
    <2>2. Stands(x)'
      BY Zenon, <1>1, <1>6, <1>7, <2>1 DEF Stands, Running, Masked, ExitLabels
    <2> QED  BY Zenon, <1>1, <1>4, <1>6, <1>7, <2>1, <2>2 DEF Roles
  <1>12. \A x \in Threads : Live(x)' <=> Live(x)
    BY Zenon, <1>7 DEF Live
  <1>13. ASSUME NEW x \in Threads  PROVE Joiner(x)'
    <2> SUFFICES ASSUME pc'[x] \in WaitLabels  PROVE Joiner(x)'
      BY Zenon DEF Joiner
    <2>1. pc[x] \in WaitLabels /\ Joiner(x)
      BY Zenon, <1>1, <1>6 DEF Inv, WaitLabels
    <2>2. PICK v \in Workers : v = target[x]
      BY Zenon, <2>1 DEF Joiner
    <2>3. /\ v \in Threads /\ (Live(v)' <=> Live(v))
          /\ pc[v] \in {"exit3", "exit4", "gone"} => pc'[v] = pc[v]
      BY Zenon, <1>1, <1>6, <1>12, ThreadSets
    <2>4. \A y \in Threads : pc'[y] \in WaitLabels => pc[y] \in WaitLabels
      BY Zenon, <1>1, <1>6 DEF WaitLabels
    <2>5. CASE x = t
      BY Zenon, <1>1, <1>2, <1>6, <1>7, <2>1, <2>2, <2>3, <2>4, <2>5 DEF Joiner
    <2>6. CASE x # t
      <3>1. v # u
        BY Zenon, <1>3, <2>1, <2>2, <2>6
      <3>2. joining_thread'[v] = joining_thread[v] /\ pc'[x] = pc[x]
        BY Zenon, <1>6, <2>3, <2>6, <3>1
      <3> QED  BY Zenon, <1>7, <2>1, <2>2, <2>3, <2>4, <3>2 DEF Joiner, LastExit
    <2> QED  BY Zenon, <2>5, <2>6
  <1>14. ASSUME NEW x \in Threads  PROVE Joined(x)'
    <2>1. Joined(x) /\ (joining_thread[x] # NULL => joining_thread[x] \in Threads)
      BY Zenon DEF Inv, Types, MaybeThread
    <2>2. CASE x = u
      BY Zenon, <1>2, <1>3, <1>6, <1>7, <2>2 DEF Joined
    <2>3. CASE x # u
      BY Zenon, <1>1, <1>6, <1>7, <1>12, <2>1, <2>3 DEF Joined, LastExit
    <2> QED  BY Zenon, <2>2, <2>3
  <1>15. /\ \A x \in Threads : Parent(x)'
         /\ \A x \in Workers : Child(x)'
         /\ MainLives'
    BY Zenon, <1>1, <1>6, <1>7, <1>12, FamilyKept, ThreadSets DEF WaitLabels, LateExit
  <1>16. Count' /\ \A x \in Threads : Freed(x)'
    BY Zenon, <1>7, <1>12, CountKept, FreedKept
  <1>17. ZombieTable'
    BY Zenon, <1>1, <1>6, <1>7, ZombiesKept DEF LateExit
  <1> QED  BY Zenon, <1>8, <1>10, <1>11, <1>13, <1>14, <1>15, <1>16, <1>17 DEF Inv
-----------------------------------------------------------------------------
\* What does nothing keeps it.
LEMMA StutterInv ==
    ASSUME Inv, UNCHANGED vars
    PROVE  Inv'
  <1>1. /\ UNCHANGED tables /\ state' = state /\ priority' = priority /\ pc' = pc /\ target' = target
        /\ joining_thread' = joining_thread /\ UNCHANGED <<ptid, children>> /\ active' = active
        /\ zombies' = zombies /\ thread_count' = thread_count
        /\ UNCHANGED <<wakeup_time, uptime, asleep, system>>
    BY Zenon DEF vars, tables
  <1>2. \A u, t \in Threads : Wakes(u, t)' <=> Wakes(u, t)
    BY Zenon, <1>1 DEF Wakes
  <1>3. \A t \in Threads : Live(t)' <=> Live(t)
    BY Zenon, <1>1 DEF Live
  <1>4. Types'
    BY Zenon, <1>1 DEF Inv, Types, tables
  <1>5. Tables' /\ (\A t \in Threads : Placed(t)') /\ \A u, t \in Threads : Waker(u, t)'
    BY Zenon, <1>1, <1>2, TablesKept, PlacedKept, WakersKept
  <1>6. \A t \in Threads : Stands(t)' /\ Roles(t)'
    BY <1>1 DEF Inv, Stands, Roles, Running
  <1>7. \A t \in Threads : Joiner(t)' /\ Joined(t)'
    BY Zenon, <1>1, <1>3, JoinsKept
  <1>8. (\A t \in Threads : Parent(t)') /\ (\A u \in Workers : Child(u)') /\ MainLives'
    BY Zenon, <1>1, <1>3, FamilyKept
  <1>9. Count' /\ (\A t \in Threads : Freed(t)') /\ ZombieTable'
    BY Zenon, <1>1, <1>3, CountKept, FreedKept, ZombiesKept
  <1> QED  BY Zenon, <1>4, <1>5, <1>6, <1>7, <1>8, <1>9 DEF Inv
=============================================================================
