-------------------------- MODULE SchedulerFamily ---------------------------
(*****************************************************************************)
(* The steps that change the families preserve the invariant of              *)
(* SchedulerInvariant: the starts of the waits, sched_clean_joined_thread,   *)
(* the exit that hands its children to INIT, and the creation of a thread.   *)
(*****************************************************************************)
EXTENDS SchedulerInvariant
-----------------------------------------------------------------------------
(* The start of a wait *)

\* the beginning of sched_wait_thread, by user code or by INIT, which takes the
\* thread it waits for out of its list of children
Waits(t, u) ==
    /\ Running(t) /\ pc[t] \in {"run", "main", "reap", "next"}
    /\ t \in Workers \/ t = init
    /\ Live(u) /\ ptid[u] = t
    /\ t # init => Creator[u] = t /\ u \in Range(children[t])
    /\ \A v \in Threads : ~ (pc[v] \in WaitLabels /\ target[v] = u)
    /\ StartWait(t, u)
    /\ UNCHANGED <<ptid, joining_thread, zombies, thread_count>>
    /\ children' \in [Threads -> Seq(Threads)]
    /\ \A x \in Threads :
           \/ children'[x] = children[x]
           \/ /\ x = init /\ t = init /\ Distinct(children'[x])
              /\ Range(children'[x]) = Range(children[x]) \ {u}

\* The beginning of a wait preserves the invariant.
LEMMA WaitStep ==
    ASSUME Inv, NEW t \in Threads, NEW u \in Workers, Waits(t, u)
    PROVE  Inv'
  <1>a. /\ Running(t) /\ pc[t] \in {"run", "main", "reap", "next"} /\ (t \in Workers \/ t = init)
        /\ Live(u) /\ ptid[u] = t
    BY Zenon DEF Waits
  <1>b. t # init => Creator[u] = t /\ u \in Range(children[t])
    BY Zenon DEF Waits
  <1>c. \A v \in Threads : ~ (pc[v] \in WaitLabels /\ target[v] = u)
    BY Zenon DEF Waits
  <1>d. \A x \in Threads :
            \/ children'[x] = children[x]
            \/ /\ x = init /\ t = init /\ Distinct(children'[x])
               /\ Range(children'[x]) = Range(children[x]) \ {u}
    BY Zenon DEF Waits
  <1>1. /\ u \in Threads /\ u # t /\ state[t] = "RUNNING"
        /\ state \in [Threads -> States] /\ pc \in [Threads -> Labels]
        /\ target \in [Threads -> MaybeThread] /\ joining_thread[u] # t
        /\ pc[t] \notin WaitLabels
    <2>1. u \in Threads
      BY Zenon, ThreadSets
    <2>2. Child(u) /\ Stands(t) /\ Joined(u)
      BY Zenon, <2>1 DEF Inv
    <2>3. joining_thread[u] # t
      BY Zenon, <1>a, <1>c, <2>2, ThreadSets DEF Joined
    <2>4. u # t /\ state[t] = "RUNNING" /\ pc[t] \notin WaitLabels
      BY Zenon, <1>a, <2>2 DEF Child, Stands, WaitLabels
    <2> QED  BY Zenon, <2>1, <2>3, <2>4 DEF Inv, Types
  <1>3. /\ target' = [target EXCEPT ![t] = u]
        /\ \/ /\ state[u] = "ZOMBIE" /\ pc' = [pc EXCEPT ![t] = "clean"]
              /\ state' = [state EXCEPT ![u] = "DEAD"]
           \/ /\ pc' = [pc EXCEPT ![t] = "wait1"] /\ state' = state
    BY Zenon DEF Waits, StartWait, Goto
  <1>4. \A x \in Threads :
            /\ x # t => pc'[x] = pc[x] /\ target'[x] = target[x]
            /\ x # u => state'[x] = state[x]
    BY Zenon, <1>1, <1>3
  <1>5. /\ target'[t] = u
        /\ \/ pc'[t] = "clean" /\ state[u] = "ZOMBIE" /\ state'[u] = "DEAD"
           \/ pc'[t] = "wait1" /\ state'[u] = state[u]
    BY Zenon, <1>1, <1>3
  <1>6. /\ UNCHANGED <<tables, priority>> /\ active' = active /\ UNCHANGED tables
        /\ joining_thread' = joining_thread /\ ptid' = ptid /\ priority' = priority
        /\ zombies' = zombies /\ thread_count' = thread_count
    BY Zenon DEF Waits, StartWait, tables
  <1>7. Types'
    <2>1. /\ state' \in [Threads -> States] /\ pc' \in [Threads -> Labels]
          /\ target' \in [Threads -> MaybeThread]
      BY Zenon, <1>1, <1>3 DEF States, Labels, MaybeThread
    <2> QED  BY Zenon, <2>1 DEF Waits, StartWait, Inv, Types, tables
  <1>8. Tables'
    BY Zenon, <1>4, <1>5, <1>6, TablesKept
  <1>9. \A v, x \in Threads : Wakes(v, x)' <=> Wakes(v, x)
    BY Zenon, <1>a, <1>1, <1>4, <1>5, <1>6 DEF Wakes
  <1>10. \A x \in Threads : Placed(x)'
    BY Zenon, <1>4, <1>5, <1>6, <1>9, PlacedKept
  <1>11. \A v, x \in Threads : Waker(v, x)'
    BY Zenon, <1>4, <1>5, <1>6, <1>9, WakersKept
  <1>12. ASSUME NEW x \in Threads  PROVE Stands(x)' /\ Roles(x)'
    <2>1. Stands(x) /\ Roles(x)
      BY Zenon DEF Inv
    <2>2. Stands(x)'
      BY <1>a, <1>1, <1>4, <1>5, <1>6, <2>1 DEF Stands, Running, Masked, ExitLabels
    <2>3. x \in Idles => x # t /\ x # u
      BY Zenon, <1>a, ThreadSets
    <2> QED  BY Zenon, <1>a, <1>1, <1>4, <1>5, <1>6, <2>1, <2>2, <2>3 DEF Roles
  <1>13. \A x \in Threads : Live(x)' <=> Live(x)
    BY Zenon, <1>4, <1>5 DEF Live
  <1>14. ASSUME NEW x \in Threads  PROVE Joiner(x)'
    <2> SUFFICES ASSUME pc'[x] \in WaitLabels  PROVE Joiner(x)'
      BY Zenon DEF Joiner
    <2>1. CASE x = t
      <3>1. \A v \in Threads : pc'[v] \in WaitLabels /\ target'[v] = u => v = t
        BY Zenon, <1>c, <1>4
      <3>2. t # init => u \in Range(children'[t]) /\ Creator[u] = t
        BY Zenon, <1>b, <1>d
      <3> QED  BY Zenon, <1>a, <1>1, <1>5, <1>6, <1>13, <2>1, <3>1, <3>2 DEF Joiner
    <2>2. CASE x # t
      <3>1. pc[x] \in WaitLabels /\ pc'[x] = pc[x] /\ target'[x] = target[x] /\ Joiner(x)
        BY Zenon, <1>4, <2>2 DEF Inv
      <3>2. PICK v \in Workers : v = target[x]
        BY Zenon, <3>1 DEF Joiner
      <3>3. v \in Threads /\ v # u
        BY Zenon, <1>c, <3>1, <3>2, ThreadSets
      <3>4. state'[x] = state[x]
        <4>1. x = u => state[u] # "ZOMBIE"
          BY Zenon, <3>1 DEF Inv, Stands, WaitLabels, ExitLabels
        <4> QED  BY Zenon, <1>4, <1>5, <4>1
      <3>5. /\ state'[v] = state[v] /\ (Live(v)' <=> Live(v))
            /\ pc[v] \in {"exit3", "exit4", "gone"} => pc'[v] = pc[v]
        BY Zenon, <1>a, <1>4, <1>13, <3>3
      <3>6. \A y \in Threads : pc'[y] \in WaitLabels /\ target'[y] = v => y = x
        BY Zenon, <1>4, <1>5, <3>1, <3>2, <3>3 DEF Joiner
      <3>7. x # init => children'[x] = children[x]
        BY Zenon, <1>d
      <3> QED  BY Zenon, <1>6, <3>1, <3>2, <3>4, <3>5, <3>6, <3>7 DEF Joiner, LastExit
    <2> QED  BY Zenon, <2>1, <2>2
  <1>15. ASSUME NEW x \in Threads  PROVE Joined(x)'
    <2>1. Joined(x) /\ (joining_thread[x] # NULL => joining_thread[x] \in Threads)
      BY Zenon DEF Inv, Types, MaybeThread
    <2>2. Live(x)' \/ pc'[x] \notin LastExit => Live(x) \/ pc[x] \notin LastExit
      BY Zenon, <1>a, <1>4, <1>13 DEF LastExit
    <2> QED  BY Zenon, <1>a, <1>1, <1>4, <1>6, <2>1, <2>2 DEF Joined, WaitLabels
  <1>16. ASSUME NEW x \in Threads  PROVE Parent(x)'
    <2>1. Parent(x)
      BY Zenon DEF Inv
    <2>2. Distinct(children'[x]) /\ Range(children'[x]) \subseteq Range(children[x])
      BY Zenon, <1>d, <2>1 DEF Parent
    <2>3. \A y \in Workers : Live(y) => Live(y)'
      BY Zenon, <1>13, ThreadSets
    <2> QED  BY Zenon, <1>6, <2>1, <2>2, <2>3 DEF Parent
  <1>17. ASSUME NEW x \in Workers  PROVE Child(x)'
    <2>1. Child(x) /\ x \in Threads /\ Creator[x] \in Threads /\ (Live(x)' <=> Live(x))
      BY Zenon, <1>13, ThreadSets, Creators DEF Inv
    <2>2. pc[Creator[x]] \in LateExit => pc'[Creator[x]] \in LateExit
      BY Zenon, <1>a, <1>4, <2>1 DEF LateExit
    <2>3. ASSUME Live(x)
          PROVE  \/ x \in Range(children'[ptid[x]])
                 \/ pc'[init] \in WaitLabels /\ target'[init] = x
      <3>1. ptid[x] \in Threads
        BY Zenon, <2>1, <2>3 DEF Child
      <3>2. CASE t = init
        BY Zenon, <1>d, <1>1, <1>5, <2>1, <2>3, <3>1, <3>2 DEF Child, WaitLabels
      <3>3. CASE t # init
        BY Zenon, <1>a, <1>d, <1>4, <2>1, <2>3, <3>1, <3>3, ThreadSets DEF Child
      <3> QED  BY Zenon, <3>2, <3>3
    <2> QED  BY Zenon, <1>6, <2>1, <2>2, <2>3 DEF Child
  <1>18. MainLives'
    BY Zenon, <1>4, <1>5, <1>13, ThreadSets, Creators DEF Inv, MainLives
  <1>19. Count' /\ \A x \in Threads : Freed(x)'
    BY Zenon, <1>4, <1>5, <1>6, <1>13, CountKept, FreedKept
  <1>20. ZombieTable'
    BY Zenon, <1>a, <1>4, <1>6, ZombiesKept DEF LateExit
  <1> QED  BY Zenon, <1>7, <1>8, <1>10, <1>11, <1>12, <1>14, <1>15, <1>16, <1>17, <1>18,
              <1>19, <1>20 DEF Inv

LEMMA CallWaitStep ==
    ASSUME Inv, NEW t \in Workers, NEW u \in Workers, sched_wait_thread(t, u)
    PROVE  Inv'
  <1>1. /\ t \in Threads /\ u \in Threads /\ t # init /\ Running(t) /\ pc[t] = "run"
        /\ Live(u) /\ Creator[u] = t /\ StartWait(t, u)
        /\ \A v \in Threads : target[v] # u
    <2>1. <<t, u>> \in Joins
      BY Zenon DEF sched_wait_thread
    <2>2. Creator[u] = t
      <3>1. Creator[<<t, u>>[2]] = <<t, u>>[1]
        BY Zenon, <2>1, SchedulerAssumption
      <3> QED  BY Zenon, <3>1
    <2> QED  BY Zenon, <2>2, ThreadSets DEF sched_wait_thread, Call, At, Running, Live
  <1>2. ptid[u] = t /\ u \in Range(children[t])
    <2>1. Child(u) /\ init \in Threads
      BY Zenon, ThreadSets DEF Inv
    <2> QED  BY Zenon, <1>1, <2>1 DEF Child, LateExit
  <1>3. /\ UNCHANGED <<ptid, joining_thread, zombies, thread_count>> /\ children' = children
        /\ children' \in [Threads -> Seq(Threads)]
    BY Zenon DEF sched_wait_thread, family, Inv, Types
  <1>4. Waits(t, u)
    BY Zenon, <1>1, <1>2, <1>3 DEF Waits
  <1> QED  BY Zenon, <1>1, <1>4, WaitStep

LEMMA InitWaitStep ==
    ASSUME Inv, InitWait
    PROVE  Inv'
  <1>1. /\ init \in Threads /\ main \in Workers /\ main \in Threads /\ Running(init)
        /\ pc[init] = "main" /\ StartWait(init, main) /\ Creator[main] = init
    BY Zenon, ThreadSets, SchedulerAssumption DEF InitWait, At, Running
  <1>2. Live(main)
    BY Zenon, <1>1 DEF Inv, MainLives
  <1>3. ptid[main] = init
    <2>1. Child(main)
      BY Zenon, <1>1 DEF Inv
    <2> QED  BY Zenon, <1>1, <1>2, <2>1 DEF Child, LateExit
  <1>4. ASSUME NEW v \in Threads, pc[v] \in WaitLabels, target[v] = main  PROVE FALSE
    <2>1. Joiner(v) /\ init \notin Workers
      BY Zenon, ThreadSets DEF Inv
    <2> QED  BY Zenon, <1>1, <1>4, <2>1 DEF Joiner, WaitLabels
  <1>5. /\ UNCHANGED <<ptid, joining_thread, zombies, thread_count>> /\ children' = children
        /\ children' \in [Threads -> Seq(Threads)]
    BY Zenon DEF InitWait, family, Inv, Types
  <1>6. Waits(init, main)
    BY Zenon, <1>1, <1>2, <1>3, <1>4, <1>5 DEF Waits
  <1> QED  BY Zenon, <1>1, <1>6, WaitStep

LEMMA InitReapStep ==
    ASSUME Inv, InitReap
    PROVE  Inv'
  <1>1. /\ init \in Threads /\ Running(init) /\ pc[init] \in {"reap", "next"}
        /\ children[init] # <<>> /\ children[init] \in Seq(Threads)
        /\ children \in [Threads -> Seq(Threads)]
        /\ Parent(init) /\ init # idle[0]
    <2>1. idle[0] \in Idles /\ init \notin Idles /\ init \in Threads
      BY Zenon, ThreadSets
    <2> QED  BY Zenon, <2>1 DEF InitReap, At, Running, Inv, Types
  <1>2. PICK f : f = Popped(children[init])
    BY Zenon
  <1>3. PICK u \in Threads : u = Oldest(children[init])
    BY Zenon, <1>1, PopTable
  <1>4. /\ f \in Seq(Threads) /\ u \in Range(children[init]) /\ Distinct(f)
        /\ Range(f) = Range(children[init]) \ {u}
    <2>1. /\ f \in Seq(Threads) /\ u \in Range(children[init])
          /\ Range(children[init]) = Range(f) \cup {u}
          /\ Distinct(children[init]) => Distinct(f) /\ u \notin Range(f)
      BY Zenon, <1>1, <1>2, <1>3, PopTable
    <2> QED  BY Zenon, <1>1, <2>1 DEF Parent
  <1>5. u \in Workers /\ ptid[u] = init /\ Live(u)
    BY Zenon, <1>1, <1>4 DEF Parent
  <1>6. ASSUME NEW v \in Threads, pc[v] \in WaitLabels, target[v] = u  PROVE FALSE
    <2>1. Joiner(v)
      BY Zenon DEF Inv
    <2> QED  BY Zenon, <1>1, <1>5, <1>6, <2>1 DEF Joiner, WaitLabels
  <1>7. /\ children' = [children EXCEPT ![init] = f] /\ StartWait(init, u)
        /\ UNCHANGED <<ptid, joining_thread, zombies, thread_count>>
    BY Zenon, <1>2, <1>3 DEF InitReap
  <1>8. /\ children' \in [Threads -> Seq(Threads)]
        /\ \A x \in Threads :
               \/ children'[x] = children[x]
               \/ /\ x = init /\ Distinct(children'[x])
                  /\ Range(children'[x]) = Range(children[x]) \ {u}
    BY Zenon, <1>1, <1>4, <1>7
  <1>9. Waits(init, u)
    BY Zenon, <1>1, <1>5, <1>6, <1>7, <1>8 DEF Waits
  <1> QED  BY Zenon, <1>1, <1>5, <1>9, WaitStep
-----------------------------------------------------------------------------
(* The end of a wait *)

\* The thread that is freed: t waits for it, it is done with t, and it is the
\* child of t alone.
LEMMA CleanTarget ==
    ASSUME Inv, NEW t \in Threads, Running(t), pc[t] = "clean"
    PROVE  /\ state[t] = "RUNNING" /\ t \notin Idles
           /\ \E u \in Workers :
                  /\ u = target[t] /\ u \in Threads /\ u # t /\ Live(u) /\ ptid[u] = t
                  /\ state[u] \in {"ZOMBIE", "DEAD"} /\ pc[u] \in ExitLabels
                  /\ t # init => u # main
                  /\ \A v \in Threads : pc[v] \in WaitLabels /\ target[v] = u => v = t
                  /\ joining_thread[u] # NULL => joining_thread[u] = t /\ pc[u] \in LastExit
                  /\ \A v \in Threads : u \in Range(children[v]) => v = t
  <1>1. state[t] = "RUNNING" /\ t \notin Idles /\ Joiner(t)
    BY Zenon DEF Inv, Stands, Roles
  <1>2. PICK u \in Workers : u = target[t]
    BY Zenon, <1>1 DEF Joiner, WaitLabels
  <1>3. /\ Live(u) /\ ptid[u] = t /\ (t # init => Creator[u] = t)
        /\ \A v \in Threads : pc[v] \in WaitLabels /\ target[v] = u => v = t
        /\ joining_thread[u] # t => state[u] = "DEAD"
        /\ joining_thread[u] = t => pc[u] \in LastExit
    BY Zenon, <1>1, <1>2 DEF Joiner, WaitLabels
  <1>4. /\ u \in Threads /\ Child(u) /\ Stands(u) /\ Joined(u)
        /\ joining_thread[u] \in MaybeThread
    BY Zenon, ThreadSets DEF Inv, Types
  <1>5. u # t /\ (t # init => u # main)
    BY Zenon, <1>3, <1>4, SchedulerAssumption DEF Child
  <1>6. state[u] \in {"ZOMBIE", "DEAD"} /\ pc[u] \in ExitLabels
    BY Zenon, <1>3, <1>4 DEF Stands, Live, LastExit, ExitLabels
  <1>7. joining_thread[u] # NULL => joining_thread[u] = t /\ pc[u] \in LastExit
    BY Zenon, <1>3, <1>4 DEF Joined, MaybeThread, WaitLabels
  <1>8. \A v \in Threads : u \in Range(children[v]) => v = t
    BY Zenon, <1>3 DEF Inv, Parent
  <1> QED  BY Zenon, <1>1, <1>2, <1>3, <1>4, <1>5, <1>6, <1>7, <1>8

LEMMA CleanStep ==
    ASSUME Inv, Counted(Threads), NEW t \in Threads, sched_clean_joined_thread(t)
    PROVE  Inv'
  <1>1. pc[t] = "clean" /\ Running(t)
    BY Zenon DEF sched_clean_joined_thread, Clean, At, Running
  <1>2. PICK u \in Workers :
            /\ u = target[t] /\ u \in Threads /\ u # t /\ Live(u) /\ ptid[u] = t
            /\ state[u] \in {"ZOMBIE", "DEAD"} /\ pc[u] \in ExitLabels
            /\ t # init => u # main
            /\ \A v \in Threads : pc[v] \in WaitLabels /\ target[v] = u => v = t
            /\ joining_thread[u] # NULL => joining_thread[u] = t /\ pc[u] \in LastExit
            /\ \A v \in Threads : u \in Range(children[v]) => v = t
    BY Zenon, <1>1, CleanTarget
  <1>3. state[t] = "RUNNING" /\ t \notin Idles
    BY Zenon, <1>1, CleanTarget
  <1>4. PICK l \in {"run", "reap", "next"} :
            Goto(t, l) /\ (l \in {"reap", "next"} => t = init)
    <2>1. CASE t # init
      <3>1. Goto(t, "run")
        BY Zenon, <1>2, <2>1 DEF sched_clean_joined_thread, Clean
      <3>2. "run" \in {"run", "reap", "next"} /\ "run" \notin {"reap", "next"}
        BY Zenon
      <3> QED  BY Zenon, <3>1, <3>2
    <2>2. CASE t = init /\ target[t] = main
      BY Zenon, <2>2 DEF sched_clean_joined_thread, Clean
    <2>3. CASE t = init /\ target[t] # main
      BY Zenon, <2>3 DEF sched_clean_joined_thread, Clean
    <2> QED  BY Zenon, <2>1, <2>2, <2>3
  <1>5. /\ state' = [state EXCEPT ![u] = "FREED"] /\ target' = [target EXCEPT ![t] = NULL]
        /\ pc' = [pc EXCEPT ![t] = l] /\ zombies' = Removed(zombies, u)
        /\ children' = [children EXCEPT ![t] = Removed(children[t], u)]
        /\ thread_count' = thread_count - 1
        /\ priority' = priority /\ ptid' = ptid /\ joining_thread' = joining_thread
        /\ UNCHANGED <<tables, wakeup_time, uptime, asleep, system>>
    BY Zenon, <1>2, <1>4 DEF sched_clean_joined_thread, Clean, Goto
  <1>6. /\ zombies' \in Seq(Threads) /\ Distinct(zombies') /\ Range(zombies') = Range(zombies) \ {u}
        /\ Removed(children[t], u) \in Seq(Threads) /\ Distinct(Removed(children[t], u))
        /\ Range(Removed(children[t], u)) = Range(children[t]) \ {u}
    <2>1. /\ zombies \in Seq(Threads) /\ Distinct(zombies)
          /\ children[t] \in Seq(Threads) /\ Distinct(children[t])
      BY Zenon DEF Inv, Types, ZombieTable, Parent
    <2> QED  BY Zenon, <1>5, <2>1, RemoveTable
  <1>7. /\ state \in [Threads -> States] /\ pc \in [Threads -> Labels]
        /\ target \in [Threads -> MaybeThread] /\ children \in [Threads -> Seq(Threads)]
    BY Zenon DEF Inv, Types
  <1>8. \A x \in Threads :
            /\ state'[x] = IF x = u THEN "FREED" ELSE state[x]
            /\ pc'[x] = IF x = t THEN l ELSE pc[x]
            /\ target'[x] = IF x = t THEN NULL ELSE target[x]
    BY Zenon, <1>2, <1>5, <1>7
  <1>9. ASSUME NEW x \in Threads
        PROVE  /\ Distinct(children'[x]) /\ (x # t => children'[x] = children[x])
               /\ Range(children'[x]) = Range(children[x]) \ {u}
    <2>1. CASE x = t
      BY Zenon, <1>5, <1>6, <1>7, <2>1
    <2>2. CASE x # t
      <3>1. children'[x] = children[x] /\ Distinct(children[x])
        BY Zenon, <1>5, <1>7, <2>2 DEF Inv, Parent
      <3> QED  BY Zenon, <1>2, <2>2, <3>1
    <2> QED  BY Zenon, <2>1, <2>2
  <1>10. Types'
    <2>1. state' \in [Threads -> States] /\ pc' \in [Threads -> Labels]
      BY Zenon, <1>5, <1>7 DEF States, Labels
    <2>2. target' \in [Threads -> MaybeThread] /\ children' \in [Threads -> Seq(Threads)]
      BY Zenon, <1>5, <1>6, <1>7 DEF MaybeThread
    <2> QED  BY Zenon, <1>5, <1>6, <2>1, <2>2 DEF Inv, Types, tables
  <1>11. \A v, x \in Threads : Wakes(v, x)' <=> Wakes(v, x)
    BY Zenon, <1>1, <1>5, <1>8 DEF Wakes
  <1>12. Tables' /\ (\A x \in Threads : Placed(x)') /\ \A v, x \in Threads : Waker(v, x)'
    <2>1. Tables'
      BY Zenon, <1>2, <1>5, <1>8, TablesKept
    <2>2. \A x \in Threads : Placed(x)'
      BY <1>5, <1>8, <1>11, PlacedKept
    <2>3. \A v, x \in Threads : Waker(v, x)'
      BY Zenon, <1>2, <1>5, <1>8, <1>11, WakersKept
    <2> QED  BY Zenon, <2>1, <2>2, <2>3
  <1>13. ASSUME NEW x \in Threads  PROVE Stands(x)' /\ Roles(x)'
    <2>1. Stands(x) /\ Roles(x) /\ active' = active
      BY Zenon, <1>5 DEF Inv, tables
    <2>2. CASE x = t
      <3>1. Running(x)' /\ state'[x] = "RUNNING" /\ target'[x] = NULL /\ x \notin Idles
        BY Zenon, <1>1, <1>2, <1>3, <1>5, <1>8, <2>1, <2>2 DEF Running
      <3>2. pc'[x] = "run" \/ (pc'[x] \in {"reap", "next"} /\ x = init)
        BY Zenon, <1>4, <1>8, <2>2
      <3>3. Stands(x)'
        BY Zenon, <3>1, <3>2 DEF Stands, Masked, ExitLabels
      <3> QED  BY Zenon, <3>1, <3>2, <3>3 DEF Roles
    <2>3. CASE x = u
      <3>1. state'[x] = "FREED" /\ pc'[x] = pc[x] /\ pc[x] \in ExitLabels /\ x \notin Idles
            /\ target'[x] = target[x]
        BY Zenon, <1>2, <1>8, <2>3, ThreadSets
      <3>2. Stands(x)'
        BY Zenon, <2>1, <3>1 DEF Stands, Running, Masked, ExitLabels
      <3> QED  BY Zenon, <1>5, <2>1, <3>1, <3>2 DEF Roles, ExitLabels
    <2>4. CASE x # t /\ x # u
      <3>1. /\ state'[x] = state[x] /\ pc'[x] = pc[x] /\ target'[x] = target[x]
            /\ (Running(x)' <=> Running(x)) /\ priority' = priority
            /\ joining_thread' = joining_thread
        BY Zenon, <1>5, <1>8, <2>1, <2>4 DEF Running
      <3> QED  BY Zenon, <2>1, <3>1 DEF Stands, Roles
    <2> QED  BY Zenon, <2>2, <2>3, <2>4
  <1>14. \A x \in Threads : Live(x)' <=> (Live(x) /\ x # u)
    BY Zenon, <1>8 DEF Live
  <1>15. ASSUME NEW x \in Threads  PROVE Joiner(x)'
    <2> SUFFICES ASSUME pc'[x] \in WaitLabels  PROVE Joiner(x)'
      BY Zenon DEF Joiner
    <2>1. x # t /\ x # u /\ pc[x] \in WaitLabels /\ Joiner(x)
      BY Zenon, <1>2, <1>4, <1>8 DEF Inv, WaitLabels, ExitLabels
    <2>2. PICK v \in Workers : v = target[x]
      BY Zenon, <2>1 DEF Joiner
    <2>3. /\ v \in Threads /\ v # u /\ (Live(v)' <=> Live(v)) /\ state'[v] = state[v]
          /\ pc[v] \in {"exit3", "exit4", "gone"} => pc'[v] = pc[v]
      BY Zenon, <1>1, <1>2, <1>8, <1>14, <2>1, <2>2, ThreadSets
    <2>4. \A y \in Threads : pc'[y] \in WaitLabels => pc[y] \in WaitLabels /\ target'[y] = target[y]
      BY Zenon, <1>4, <1>8 DEF WaitLabels
    <2>5. children'[x] = children[x] /\ state'[x] = state[x] /\ pc'[x] = pc[x] /\ target'[x] = v
      BY <1>8, <1>9, <2>1, <2>2
    <2> QED  BY Zenon, <1>5, <2>1, <2>2, <2>3, <2>4, <2>5 DEF Joiner, LastExit
  <1>16. ASSUME NEW x \in Threads  PROVE Joined(x)'
    <2>1. Joined(x) /\ (joining_thread[x] # NULL => joining_thread[x] \in Threads)
      BY Zenon DEF Inv, Types, MaybeThread
    <2>2. CASE x = u
      BY Zenon, <1>2, <1>5, <1>8, <1>14, <2>2 DEF Joined
    <2>3. CASE x # u
      <3>1. joining_thread'[x] = joining_thread[x] /\ (Live(x)' <=> Live(x))
        BY Zenon, <1>5, <1>14, <2>3
      <3> QED  BY <1>1, <1>2, <1>4, <1>8, <2>1, <2>3, <3>1 DEF Joined, LastExit
    <2> QED  BY Zenon, <2>2, <2>3
  <1>17. ASSUME NEW x \in Threads  PROVE Parent(x)'
    <2>1. Parent(x)
      BY Zenon DEF Inv
    <2>2. Distinct(children'[x]) /\ Range(children'[x]) = Range(children[x]) \ {u}
      BY Zenon, <1>9
    <2>3. ASSUME NEW v \in Workers, v \in Range(children'[x])  PROVE ptid'[v] = x /\ Live(v)'
      BY Zenon, <1>5, <1>14, <2>1, <2>2, <2>3, ThreadSets DEF Parent
    <2> QED  BY Zenon, <2>1, <2>2, <2>3 DEF Parent
  <1>18. ASSUME NEW x \in Workers  PROVE Child(x)'
    <2> SUFFICES ASSUME Live(x)'  PROVE Child(x)'
      BY Zenon DEF Child
    <2>1. x \in Threads /\ x # u /\ Live(x) /\ Child(x) /\ Creator[x] \in Threads /\ init \in Threads
      BY Zenon, <1>14, ThreadSets, Creators DEF Inv
    <2>2. ptid'[x] \in Threads /\ ptid'[x] # x
          /\ (ptid'[x] = Creator[x] \/ pc'[Creator[x]] \in LateExit)
      BY Zenon, <1>1, <1>5, <1>8, <2>1 DEF Child, LateExit
    <2>3. CASE x \in Range(children[ptid[x]])
      BY Zenon, <1>5, <1>9, <2>1, <2>2, <2>3 DEF Child
    <2>4. CASE pc[init] \in WaitLabels /\ target[init] = x
      BY Zenon, <1>2, <1>8, <2>1, <2>2, <2>4 DEF Child
    <2> QED  BY Zenon, <2>1, <2>3, <2>4 DEF Child
  <1>19. MainLives'
    BY Zenon, <1>2, <1>4, <1>8, <1>14, ThreadSets, Creators DEF Inv, MainLives
  <1>20. Count'
    <2> DEFINE L == {x \in Threads : Live(x)}
    <2>1. {x \in Threads : Live(x)'} = L \ {u} /\ u \in L
      BY Zenon, <1>2, <1>14
    <2>2. L \in SUBSET Threads
      BY Zenon
    <2>3. Cardinality(L \ {u}) = Cardinality(L) - 1
      BY Zenon, <1>2, <2>1, <2>2 DEF Counted
    <2>4. thread_count = Cardinality(L)
      BY Zenon DEF Inv, Count
    <2> HIDE DEF L
    <2> QED  BY Zenon, <1>5, <2>1, <2>3, <2>4 DEF Count
  <1>21. ASSUME NEW x \in Threads  PROVE Freed(x)'
    <2> SUFFICES ASSUME Cardinality(CPUs) = 1, state'[x] = "FREED"
                 PROVE  ~ Running(x)' /\ x \notin Range(zombies')
      BY Zenon DEF Freed
    <2>1. active' = active /\ Freed(x)
      BY Zenon, <1>5 DEF Inv, tables
    <2>2. CASE x = u
      <3>1. CPUs = 0 .. 1 - 1
        BY Zenon, SchedulerAssumption
      <3>2. Home(u) = Home(t)
        <4>1. Home(u) \in CPUs /\ Home(t) \in CPUs
          BY Zenon, <1>2, ThreadSets
        <4> QED  BY <3>1, <4>1
      <3> QED  BY Zenon, <1>1, <1>2, <1>6, <2>1, <2>2, <3>2 DEF Running
    <2>3. CASE x # u
      BY Zenon, <1>6, <1>8, <2>1, <2>3 DEF Freed, Running
    <2> QED  BY Zenon, <2>2, <2>3
  <1>22. ZombieTable'
    <2>0. zombies \in Seq(Threads)
      BY Zenon DEF Inv, Types
    <2>1. \A x \in Range(zombies) : x \in Threads
      BY <2>0 DEF Range
    <2>2. \A x \in Range(zombies) : pc[x] \in LateExit
      BY Zenon DEF Inv, ZombieTable
    <2> QED  BY Zenon, <1>1, <1>6, <1>8, <2>1, <2>2 DEF ZombieTable, LateExit
  <1> QED  BY <1>10, <1>12, <1>13, <1>15, <1>16, <1>17, <1>18, <1>19, <1>20, <1>21, <1>22 DEF Inv
-----------------------------------------------------------------------------
(* An exit *)

\* The children of a thread that exits become those of INIT.
LEMMA ExitTablesStep ==
    ASSUME Inv, NEW t \in Threads, ExitTables(t)
    PROVE  Inv'
  <1>1. /\ pc[t] = "exit1" /\ Running(t) /\ t \in Workers /\ t # init /\ init \in Threads
        /\ t # idle[0] /\ init # idle[0]
    <2>1. pc[t] = "exit1" /\ Running(t) /\ Roles(t)
      BY Zenon DEF ExitTables, At, Running, Inv
    <2> QED  BY Zenon, <2>1, ThreadSets DEF Roles
  <1>2. /\ pc \in [Threads -> Labels] /\ zombies \in Seq(Threads)
        /\ ptid \in [Threads -> MaybeThread] /\ children \in [Threads -> Seq(Threads)]
        /\ pc' = [pc EXCEPT ![t] = "exit2"]
    BY Zenon DEF ExitTables, Goto, Inv, Types
  <1>3. \A x \in Threads : pc'[x] = IF x = t THEN "exit2" ELSE pc[x]
    BY Zenon, <1>2
  <1>4. /\ UNCHANGED tables /\ active' = active /\ priority' = priority /\ target' = target
        /\ state' = state /\ joining_thread' = joining_thread /\ thread_count' = thread_count
    BY Zenon DEF ExitTables, tables
  <1>5. /\ Range(children[t]) \subseteq Workers
        /\ \A u \in Range(children[t]) : ptid[u] = t /\ Live(u)
        /\ \A x \in Threads, u \in Workers : u \in Range(children[x]) => ptid[u] = x
        /\ \A x \in Threads : Distinct(children[x])
    BY Zenon, <1>1 DEF Inv, Parent
  <1>6. \A x \in Threads : ptid'[x] = IF x \in Range(children[t]) THEN init ELSE ptid[x]
    BY Zenon DEF ExitTables, Inherit
  <1>7. /\ children[t] \o children[init] \in Seq(Threads)
        /\ Range(children[t] \o children[init]) = Range(children[t]) \cup Range(children[init])
        /\ Distinct(children[t] \o children[init])
    <2>1. children[t] \in Seq(Threads) /\ children[init] \in Seq(Threads)
      BY Zenon, <1>1, <1>2
    <2>2. Range(children[t]) \cap Range(children[init]) = {}
      BY Zenon, <1>1, <1>5
    <2>3. Distinct(children[t]) /\ Distinct(children[init])
      BY Zenon, <1>1, <1>5
    <2> QED  BY <2>1, <2>2, <2>3, ConcatTable
  <1>8. children' = [children EXCEPT ![t] = <<>>, ![init] = children[t] \o children[init]]
    BY Zenon, <1>1, <1>2 DEF ExitTables
  <1>9. /\ children' \in [Threads -> Seq(Threads)]
        /\ children'[t] = <<>> /\ children'[init] = children[t] \o children[init]
        /\ \A x \in Threads : x # t /\ x # init => children'[x] = children[x]
    <2>1. <<>> \in Seq(Threads)
      OBVIOUS
    <2> HIDE DEF Threads
    <2>2. PICK k : k = children[t] \o children[init]
      BY Zenon
    <2> QED  BY Zenon, <1>1, <1>2, <1>7, <1>8, <2>1, <2>2
  <1>10. zombies' \in Seq(Threads) /\ Range(zombies') = {t} \cup Range(zombies) /\ Distinct(zombies')
    <2>1. zombies' = <<t>> \o zombies /\ Distinct(zombies)
      BY Zenon DEF ExitTables, Inv, ZombieTable
    <2>2. t \notin Range(zombies)
      BY Zenon, <1>1 DEF Inv, ZombieTable, LateExit
    <2> QED  BY Zenon, <1>2, <2>1, <2>2, PushTable
  <1>11. Types'
    <2>1. pc' \in [Threads -> Labels]
      BY Zenon, <1>2 DEF Labels
    <2>2. ptid' \in [Threads -> MaybeThread]
      BY Zenon, <1>1, <1>2 DEF ExitTables, Inherit, MaybeThread
    <2>3. system' \in {"RUNNING", "HALTED", "PANIC"}
      BY Zenon DEF ExitTables, Inv, Types
    <2>4. UNCHANGED <<wakeup_time, uptime, asleep>>
      BY Zenon DEF ExitTables
    <2> QED  BY Zenon, <1>4, <1>9, <1>10, <2>1, <2>2, <2>3, <2>4 DEF Inv, Types, tables
  <1>12. \A v, x \in Threads : Wakes(v, x)' <=> Wakes(v, x)
    BY Zenon, <1>1, <1>3, <1>4 DEF Wakes
  <1>13. Tables' /\ (\A x \in Threads : Placed(x)') /\ \A v, x \in Threads : Waker(v, x)'
    BY Zenon, <1>4, <1>12, TablesKept, PlacedKept, WakersKept
  <1>14. ASSUME NEW x \in Threads  PROVE Stands(x)' /\ Roles(x)'
    <2>1. Stands(x) /\ Roles(x)
      BY Zenon DEF Inv
    <2>2. Stands(x)'
      BY Zenon, <1>1, <1>3, <1>4, <2>1 DEF Stands, Running, Masked, ExitLabels
    <2> QED  BY Zenon, <1>1, <1>3, <1>4, <2>1, <2>2 DEF Roles
  <1>15. \A x \in Threads : Live(x)' <=> Live(x)
    BY Zenon, <1>4 DEF Live
  <1>16. \A x \in Threads : Joiner(x)' /\ Joined(x)'
    <2>1. ASSUME NEW x \in Threads, pc[x] \in WaitLabels \/ pc'[x] \in WaitLabels
          PROVE  /\ pc'[x] = pc[x] /\ x # t /\ ptid'[target[x]] = ptid[target[x]]
                 /\ x # init => children'[x] = children[x]
      <3>1. x # t /\ pc'[x] = pc[x] /\ Joiner(x)
        BY Zenon, <1>1, <1>3, <2>1 DEF WaitLabels, Inv
      <3>2. target[x] \in Workers /\ ptid[target[x]] = x
        BY Zenon, <2>1, <3>1 DEF Joiner
      <3>3. target[x] \notin Range(children[t]) /\ target[x] \in Threads
        BY Zenon, <1>5, <3>1, <3>2, ThreadSets
      <3> QED  BY Zenon, <1>6, <1>9, <3>1, <3>3
    <2>2. \A x \in Threads :
              /\ pc[x] \in {"exit3", "exit4", "gone"} => pc'[x] = pc[x]
              /\ pc'[x] \in LastExit => pc[x] \in LastExit
              /\ pc[x] \in LastExit => pc'[x] \in LastExit
      BY Zenon, <1>1, <1>3 DEF LastExit
    <2> QED  BY Zenon, <1>4, <1>15, <2>1, <2>2, JoinsKept
  <1>17. ASSUME NEW x \in Threads  PROVE Parent(x)'
    <2>1. Parent(x) /\ Parent(t) /\ Parent(init)
      BY Zenon, <1>1 DEF Inv
    <2>2. CASE x = t
      BY <1>9, <2>2 DEF Parent, Distinct, Range
    <2>3. CASE x = init
      <3>1. ASSUME NEW u \in Workers, u \in Range(children'[x])  PROVE ptid'[u] = x /\ Live(u)'
        BY Zenon, <1>5, <1>6, <1>7, <1>9, <1>15, <2>1, <2>3, <3>1, ThreadSets DEF Parent
      <3>2. Range(children'[x]) \subseteq Workers
        BY Zenon, <1>1, <1>5, <1>7, <1>9, <2>1, <2>3 DEF Parent
      <3> QED  BY Zenon, <1>7, <1>9, <2>3, <3>1, <3>2 DEF Parent
    <2>4. CASE x # t /\ x # init
      <3>1. children'[x] = children[x]
        BY Zenon, <1>9, <2>4
      <3>2. ASSUME NEW u \in Workers, u \in Range(children[x])  PROVE ptid'[u] = x /\ Live(u)'
        BY Zenon, <1>5, <1>6, <1>15, <2>1, <2>4, <3>2, ThreadSets DEF Parent
      <3> QED  BY Zenon, <2>1, <3>1, <3>2 DEF Parent
    <2> QED  BY Zenon, <2>2, <2>3, <2>4
  <1>18. ASSUME NEW x \in Workers  PROVE Child(x)'
    <2> SUFFICES ASSUME Live(x)'  PROVE Child(x)'
      BY Zenon DEF Child
    <2>1. /\ x \in Threads /\ Live(x) /\ Child(x) /\ Creator[x] \in Threads /\ x # init
      BY Zenon, <1>15, ThreadSets, Creators DEF Inv
    <2>2. CASE x \in Range(children[t])
      <3>1. ptid'[x] = init /\ ptid[x] = t /\ x \in Range(children'[init])
        BY Zenon, <1>5, <1>6, <1>7, <1>9, <2>1, <2>2
      <3>2. pc'[Creator[x]] \in LateExit
        BY Zenon, <1>3, <2>1, <3>1 DEF Child, LateExit
      <3> QED  BY Zenon, <1>1, <2>1, <3>1, <3>2 DEF Child
    <2>3. CASE x \notin Range(children[t])
      <3>1. ptid'[x] = ptid[x] /\ ptid[x] \in Threads /\ ptid[x] # x
        BY Zenon, <1>6, <2>1, <2>3 DEF Child
      <3>2. ptid[x] = Creator[x] \/ pc'[Creator[x]] \in LateExit
        BY Zenon, <1>1, <1>3, <2>1 DEF Child, LateExit
      <3>3. CASE x \in Range(children[ptid[x]])
        <4>1. ptid[x] # t
          BY Zenon, <2>3, <3>3
        <4>2. x \in Range(children'[ptid[x]])
          BY Zenon, <1>7, <1>9, <3>1, <3>3, <4>1
        <4> QED  BY Zenon, <3>1, <3>2, <4>2 DEF Child
      <3>4. CASE pc[init] \in WaitLabels /\ target[init] = x
        BY Zenon, <1>1, <1>3, <1>4, <3>1, <3>2, <3>4 DEF Child
      <3> QED  BY Zenon, <2>1, <3>3, <3>4 DEF Child
    <2> QED  BY Zenon, <2>2, <2>3
  <1>19. MainLives' /\ Count'
    <2>1. MainLives'
      BY Zenon, <1>1, <1>3, <1>15, ThreadSets, Creators DEF Inv, MainLives
    <2> QED  BY Zenon, <1>4, <1>15, <2>1, CountKept
  <1>20. \A x \in Threads : Freed(x)'
    BY Zenon, <1>1, <1>4, <1>10 DEF Inv, Freed, Running
  <1>21. ZombieTable'
    <2>1. \A x \in Range(zombies) : x \in Threads
      BY <1>2 DEF Range
    <2>2. \A x \in Range(zombies) : pc[x] \in LateExit
      BY Zenon DEF Inv, ZombieTable
    <2> QED  BY Zenon, <1>3, <1>10, <2>1, <2>2 DEF ZombieTable, LateExit
  <1> QED  BY <1>11, <1>13, <1>14, <1>16, <1>17, <1>18, <1>19, <1>20, <1>21 DEF Inv
-----------------------------------------------------------------------------
(* A new thread *)

\* t creates u: a thread of user code, or INIT main
Creates(t, u) ==
    /\ Running(t) /\ pc[t] \in {"run", "start"}
    /\ Spawn(t, u) /\ target' = target
    /\ pc' \in [Threads -> Labels]
    /\ \A x \in Threads :
           \/ pc'[x] = pc[x]
           \/ x = t /\ t = init /\ u = main /\ pc[x] = "start" /\ pc'[x] = "main"

\* A creation preserves the invariant.
LEMMA SpawnStep ==
    ASSUME Inv, Counted(Threads), NEW t \in Threads, NEW u \in Workers, Creates(t, u)
    PROVE  Inv'
  <1>a. Running(t) /\ pc[t] \in {"run", "start"} /\ Spawn(t, u) /\ target' = target
    BY Zenon DEF Creates
  <1>b. \A x \in Threads :
            \/ pc'[x] = pc[x]
            \/ x = t /\ t = init /\ u = main /\ pc[x] = "start" /\ pc'[x] = "main"
    BY Zenon DEF Creates
  <1>1. /\ u \in Threads /\ state[u] = "NONE" /\ pc[u] = "run" /\ ~ Running(u)
        /\ priority[u] = Prio[u] /\ Home(u) = Affinity[u] /\ ~ Live(u)
        /\ state[t] = "RUNNING" /\ t # u /\ t \notin Idles /\ t # idle[0]
    <2>1. u \in Threads /\ state[u] = "NONE" /\ Creator[u] = t /\ Home(u) = Affinity[u]
      BY Zenon, <1>a, ThreadSets DEF Spawn
    <2>2. Stands(u) /\ Stands(t)
      BY Zenon, <2>1 DEF Inv
    <2>3. t \in Workers \cup {init}
      BY Zenon, <2>1, SchedulerAssumption
    <2> QED  BY <1>a, <2>1, <2>2, <2>3, ThreadSets DEF Stands, Live
  <1>2. /\ state \in [Threads -> States] /\ ptid \in [Threads -> MaybeThread]
        /\ children \in [Threads -> Seq(Threads)] /\ children[t] \in Seq(Threads)
    BY Zenon DEF Inv, Types
  <1>3. /\ UNCHANGED <<active, sleeping, priority, wakeup_time, joining_thread, zombies,
                       uptime, asleep, system>>
        /\ thread_count' = thread_count + 1
        /\ ready' = [ready EXCEPT ![Home(u)][priority[u]] = <<u>> \o @]
        /\ children' = [children EXCEPT ![t] = <<u>> \o children[t]]
        /\ state' = [state EXCEPT ![u] = "READY"] /\ ptid' = [ptid EXCEPT ![u] = t]
    BY Zenon, <1>a, <1>1, <1>2 DEF Spawn
  <1>4. \A x \in Threads :
            /\ state'[x] = IF x = u THEN "READY" ELSE state[x]
            /\ ptid'[x] = IF x = u THEN t ELSE ptid[x]
    BY Zenon, <1>1, <1>2, <1>3
  <1>5. \A x \in Threads : u \notin Range(children[x])
    BY Zenon, <1>1 DEF Inv, Parent
  <1>6. ASSUME NEW x \in Threads  PROVE pc[x] \in WaitLabels => target[x] \in Workers /\ target[x] # u
    <2>1. Joiner(x)
      BY Zenon DEF Inv
    <2> QED  BY Zenon, <1>1, <2>1 DEF Joiner
  <1>7. joining_thread[u] = NULL
    <2>1. Joined(u) /\ joining_thread[u] \in MaybeThread
      BY Zenon, <1>1 DEF Inv, Types
    <2> QED  BY Zenon, <1>1, <1>6, <2>1 DEF Joined, MaybeThread, LastExit, WaitLabels
  <1>8. \A v \in Threads : ~ Wakes(v, u)
    BY Zenon, <1>1 DEF Inv, Waker
  <1>9. /\ <<u>> \o children[t] \in Seq(Threads) /\ Distinct(<<u>> \o children[t])
        /\ Range(<<u>> \o children[t]) = {u} \cup Range(children[t])
    <2>1. Distinct(children[t]) /\ u \notin Range(children[t])
      BY Zenon, <1>5 DEF Inv, Parent
    <2> QED  BY <1>1, <1>2, <2>1, PushTable
  <1>10. /\ \A x \in Threads : children'[x] = IF x = t THEN <<u>> \o children[t] ELSE children[x]
         /\ children' \in [Threads -> Seq(Threads)]
    <2>1. PICK k \in Seq(Threads) : k = <<u>> \o children[t]
      BY Zenon, <1>9
    <2> QED  BY Zenon, <1>2, <1>3, <2>1
  <1>11. /\ ready' \in [CPUs -> [Prios -> Seq(Threads)]]
         /\ Tables'
         /\ u \in Range(ready'[Home(u)][priority[u]])
         /\ \A x \in Threads : x # u =>
                (x \in Range(ready'[Home(x)][priority[x]]) <=>
                 x \in Range(ready[Home(x)][priority[x]]))
    <2>1. u \notin Range(ready[Home(u)][priority[u]])
      <3>1. Home(u) \in CPUs /\ priority[u] \in Prios
        BY Zenon, <1>1, ThreadSets DEF Inv, Types
      <3> QED  BY Zenon, <1>1, <3>1 DEF Inv, Tables, ReadyTable
    <2>2. state[u] \in {"NONE", "READY"} /\ state'[u] = "READY"
      BY Zenon, <1>1, <1>4
    <2>3. \A x \in Threads : x # u => state'[x] = state[x]
      BY Zenon, <1>4
    <2>4. BecomesReady(u)
      BY Zenon, <1>3, <2>1, <2>2, <2>3 DEF BecomesReady
    <2> QED  BY Zenon, <1>1, <1>3, <2>4, ReadyPush
  <1>12. Types'
    <2>1. state' \in [Threads -> States] /\ ptid' \in [Threads -> MaybeThread]
      BY Zenon, <1>2, <1>3 DEF States, MaybeThread
    <2> QED  BY Zenon, <1>3, <1>10, <1>11, <2>1 DEF Creates, Inv, Types
  <1>13. \A v, x \in Threads : Wakes(v, x)' <=> Wakes(v, x)
    BY Zenon, <1>a, <1>b, <1>3 DEF Wakes
  <1>14. ASSUME NEW x \in Threads  PROVE Placed(x)'
    <2>1. Placed(x)
      BY Zenon DEF Inv
    <2>2. CASE x = u
      <3>1. state'[u] = "READY" /\ u \in Range(ready'[Home(u)][priority'[u]])
        BY Zenon, <1>1, <1>3, <1>4, <1>11
      <3> QED  BY Zenon, <2>2, <3>1 DEF Placed
    <2>3. CASE x # u
      BY Zenon, <1>3, <1>4, <1>11, <1>13, <2>1, <2>3 DEF Placed, Running
    <2> QED  BY Zenon, <2>2, <2>3
  <1>15. ASSUME NEW v \in Threads, NEW x \in Threads  PROVE Waker(v, x)'
    <2>1. Waker(v, x)
      BY Zenon DEF Inv
    <2>2. CASE x = u
      BY Zenon, <1>8, <1>13, <2>2 DEF Waker
    <2>3. CASE x # u
      BY Zenon, <1>3, <1>4, <1>11, <1>13, <2>1, <2>3 DEF Waker
    <2> QED  BY Zenon, <2>2, <2>3
  <1>16. ASSUME NEW x \in Threads  PROVE Stands(x)' /\ Roles(x)'
    <2>1. Stands(x) /\ Roles(x) /\ (x = u => x \notin Idles)
      BY Zenon, ThreadSets DEF Inv
    <2>2. Stands(x)'
      <3>1. (Running(x)' <=> Running(x)) /\ priority'[x] = priority[x]
        BY Zenon, <1>3 DEF Running
      <3>2. CASE x = u
        <4>1. state'[x] = "READY" /\ pc'[x] = "run" /\ ~ Running(x)
          BY Zenon, <1>b, <1>1, <1>4, <3>2
        <4> QED  BY Zenon, <3>1, <4>1 DEF Stands, Masked, ExitLabels
      <3>3. CASE x # u
        <4>1. state'[x] = state[x]
          BY Zenon, <1>4, <3>3
        <4>2. CASE pc'[x] = pc[x]
          BY Zenon, <2>1, <3>1, <4>1, <4>2 DEF Stands
        <4>3. CASE pc'[x] # pc[x]
          <5>1. pc'[x] = "main" /\ state[x] = "RUNNING" /\ Running(x)
            BY Zenon, <1>a, <1>b, <1>1, <4>3
          <5> QED  BY Zenon, <3>1, <4>1, <5>1 DEF Stands, Masked, ExitLabels
        <4> QED  BY Zenon, <4>2, <4>3
      <3> QED  BY Zenon, <3>2, <3>3
    <2> QED  BY Zenon, <1>a, <1>b, <1>1, <1>3, <1>4, <2>1, <2>2 DEF Roles
  <1>17. \A x \in Threads : Live(x)' <=> (Live(x) \/ x = u)
    BY Zenon, <1>4 DEF Live
  <1>18. \A x \in Threads : Joiner(x)' /\ Joined(x)'
    <2>1. ASSUME NEW x \in Threads, pc[x] \in WaitLabels \/ pc'[x] \in WaitLabels
          PROVE  /\ pc'[x] = pc[x] /\ state'[x] = state[x]
                 /\ ptid'[target[x]] = ptid[target[x]]
                 /\ target[x] \in Range(children[x]) => target[x] \in Range(children'[x])
      <3>1. pc'[x] = pc[x] /\ x # u
        BY Zenon, <1>b, <1>1, <2>1 DEF WaitLabels
      <3>2. target[x] \in Threads /\ target[x] # u
        BY Zenon, <1>a, <1>6, <2>1, <3>1, ThreadSets
      <3> QED  BY Zenon, <1>4, <1>9, <1>10, <3>1, <3>2
    <2>2. \A x \in Threads :
              /\ Live(x) => Live(x)'
              /\ state[x] = "DEAD" => state'[x] = "DEAD"
              /\ pc[x] \in {"exit3", "exit4", "gone"} => pc'[x] = pc[x]
              /\ pc[x] \in LastExit => pc'[x] \in LastExit
              /\ Live(x)' \/ pc'[x] \notin LastExit =>
                     Live(x) \/ pc[x] \notin LastExit \/ joining_thread[x] = NULL
      BY Zenon, <1>b, <1>1, <1>4, <1>7, <1>17 DEF LastExit
    <2> QED  BY Zenon, <1>a, <1>3, <2>1, <2>2, JoinsKept
  <1>19. ASSUME NEW x \in Threads  PROVE Parent(x)'
    <2>1. Parent(x)
      BY Zenon DEF Inv
    <2>2. CASE x = t
      <3>1. Distinct(children'[x]) /\ Range(children'[x]) = {u} \cup Range(children[x])
        BY Zenon, <1>9, <1>10, <2>2
      <3>2. ASSUME NEW v \in Workers, v \in Range(children'[x])  PROVE ptid'[v] = x /\ Live(v)'
        BY Zenon, <1>4, <1>17, <2>1, <2>2, <3>1, <3>2, ThreadSets DEF Parent
      <3> QED  BY Zenon, <2>1, <3>1, <3>2 DEF Parent
    <2>3. CASE x # t
      <3>1. children'[x] = children[x]
        BY Zenon, <1>10, <2>3
      <3>2. ASSUME NEW v \in Workers, v \in Range(children[x])  PROVE ptid'[v] = x /\ Live(v)'
        BY <1>4, <1>5, <1>17, <2>1, <3>2, ThreadSets DEF Parent
      <3> QED  BY Zenon, <2>1, <3>1, <3>2 DEF Parent
    <2> QED  BY Zenon, <2>2, <2>3
  <1>20. ASSUME NEW x \in Workers  PROVE Child(x)'
    <2>1. CASE x = u
      <3>1. u \in Range(children'[t]) /\ Creator[u] = t
        BY Zenon, <1>a, <1>9, <1>10 DEF Spawn
      <3> QED  BY Zenon, <1>1, <1>4, <2>1, <3>1 DEF Child
    <2>2. CASE x # u
      <3> SUFFICES ASSUME Live(x)'  PROVE Child(x)'
        BY Zenon DEF Child
      <3>1. /\ x \in Threads /\ Live(x) /\ Child(x) /\ Creator[x] \in Threads
            /\ init \in Threads /\ ptid'[x] = ptid[x]
        BY Zenon, <1>4, <1>17, <2>2, ThreadSets, Creators DEF Inv
      <3>2. pc[Creator[x]] \in LateExit => pc'[Creator[x]] \in LateExit
        BY Zenon, <1>b, <3>1 DEF LateExit
      <3>3. pc[init] \in WaitLabels => pc'[init] \in WaitLabels
        BY Zenon, <1>b, <3>1 DEF WaitLabels
      <3>4. \A y \in Threads : Range(children[y]) \subseteq Range(children'[y])
        BY Zenon, <1>9, <1>10
      <3> QED  BY Zenon, <1>a, <3>1, <3>2, <3>3, <3>4 DEF Child
    <2> QED  BY Zenon, <2>1, <2>2
  <1>21. MainLives'
    BY Zenon, <1>b, <1>1, <1>17, ThreadSets, Creators DEF Inv, MainLives
  <1>22. Count'
    <2> DEFINE L == {x \in Threads : Live(x)}
    <2>1. {x \in Threads : Live(x)'} = L \cup {u} /\ u \notin L
      BY Zenon, <1>1, <1>17
    <2>2. L \in SUBSET Threads
      BY Zenon
    <2>3. Cardinality(L \cup {u}) = Cardinality(L) + 1
      BY Zenon, <1>1, <2>1, <2>2 DEF Counted
    <2>4. thread_count = Cardinality(L)
      BY Zenon DEF Inv, Count
    <2> HIDE DEF L
    <2> QED  BY Zenon, <1>3, <2>1, <2>3, <2>4 DEF Count
  <1>23. \A x \in Threads : Freed(x)'
    BY <1>3, <1>4, FreedKept
  <1>24. ZombieTable'
    <2>1. \A x \in Threads : pc[x] \in LateExit => pc'[x] \in LateExit
      BY Zenon, <1>b DEF LateExit
    <2> QED  BY Zenon, <1>3, <2>1, ZombiesKept
  <1> QED  BY Zenon, <1>11, <1>12, <1>14, <1>15, <1>16, <1>18, <1>19, <1>20, <1>21, <1>22,
              <1>23, <1>24 DEF Inv

LEMMA CreateStep ==
    ASSUME Inv, Counted(Threads), NEW t \in Workers, NEW u \in Workers, sched_create_kernel_thread(t, u)
    PROVE  Inv'
  <1>1. t \in Threads /\ Running(t) /\ pc[t] \in {"run", "start"}
    BY Zenon, ThreadSets DEF sched_create_kernel_thread, Call, At, Running
  <1>2. Spawn(t, u) /\ pc' = pc /\ target' = target
    BY Zenon DEF sched_create_kernel_thread
  <1>3. pc' \in [Threads -> Labels]
    BY Zenon, <1>2 DEF Inv, Types
  <1>4. Creates(t, u)
    BY Zenon, <1>1, <1>2, <1>3 DEF Creates
  <1> QED  BY Zenon, <1>1, <1>4, SpawnStep

LEMMA InitStartStep ==
    ASSUME Inv, Counted(Threads), InitStart
    PROVE  Inv'
  <1>1. /\ init \in Threads /\ Running(init) /\ pc[init] = "start" /\ main \in Workers
        /\ Spawn(init, main) /\ target' = target /\ pc' = [pc EXCEPT ![init] = "main"]
    BY Zenon, ThreadSets, SchedulerAssumption DEF InitStart, At, Running, Goto
  <1>2. pc \in [Threads -> Labels]
    BY Zenon DEF Inv, Types
  <1>3. pc' \in [Threads -> Labels]
    BY Zenon, <1>1, <1>2 DEF Labels
  <1>4. \A x \in Threads : pc'[x] = pc[x] \/ (x = init /\ pc'[x] = "main")
    BY Zenon, <1>1, <1>2
  <1>5. Creates(init, main)
    BY Zenon, <1>1, <1>3, <1>4 DEF Creates
  <1> QED  BY Zenon, <1>1, <1>5, SpawnStep
=============================================================================
