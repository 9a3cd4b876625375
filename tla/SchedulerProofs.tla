-------------------------- MODULE SchedulerProofs ---------------------------
(***************************************************************************)
(* Theorems about Scheduler, for any number of CPUs and threads, any       *)
(* program of creates, waits, exits, locks, unlocks, sleeps and priority   *)
(* changes, and any uptime; those about sleeping threads as long as the    *)
(* 32-bit keys of the sleeping tables do not wrap (NoWrap).                *)
(*                                                                         *)
(* The invariant is that of SchedulerInvariant; SchedulerCalls and         *)
(* SchedulerFamily show that the calls preserve it.  SchedulerSleep has    *)
(* the part about the sleeping tables.                                     *)
(***************************************************************************)
EXTENDS SchedulerCalls, SchedulerFamily, SchedulerSleep, FiniteSetTheorems,
        WellFoundedInduction
-----------------------------------------------------------------------------
\* Every non-empty set of natural numbers has a least element.
LEMMA LeastNumber ==
    ASSUME NEW T, T \subseteq Nat, T # {}
    PROVE  \E n \in T : \A m \in T : n <= m
  <1> DEFINE R == OpToRel(<, Nat)
  <1>1. IsWellFoundedOn(R, Nat)
    BY Zenon, NatLessThanWellFounded
  <1>2. \A i, j \in Nat : i < j => <<i, j>> \in R
    BY Zenon DEF OpToRel
  <1> HIDE DEF R
  <1>3. PICK n \in T : \A m \in T : ~ (<<m, n>> \in R)
    BY Zenon, <1>1, WFMin
  <1>4. ASSUME NEW m \in T  PROVE n <= m
    <2>1. n \in Nat /\ m \in Nat
      BY Zenon
    <2>2. ~ (m < n)
      BY Zenon, <1>2, <1>3, <2>1
    <2> QED  BY <2>1, <2>2
  <1> QED  BY Zenon, <1>4
-----------------------------------------------------------------------------
\* Positions in a set have different ranks, from 1 to their number.
LEMMA Ranks ==
    ASSUME NEW n \in Nat, NEW I \in SUBSET (1 .. n)
    PROVE  /\ IsFiniteSet(I) /\ Cardinality(I) \in Nat
           /\ \A i \in I : Cardinality({j \in I : j <= i}) \in 1 .. Cardinality(I)
           /\ \A k \in 1 .. Cardinality(I) :
                  \E i \in I : Cardinality({j \in I : j <= i}) = k
  <1> DEFINE Upto(i) == {j \in I : j <= i}
             rank == [i \in I |-> Cardinality(Upto(i))]
             m == Cardinality(I)
  <1>1. IsFiniteSet(I) /\ m \in Nat
    <2>1. IsFiniteSet(1 .. n)
      BY FS_Interval
    <2> QED  BY Zenon, <2>1, FS_Subset, FS_CardinalityType
  <1>2. ASSUME NEW i \in I
        PROVE  IsFiniteSet(Upto(i)) /\ Cardinality(Upto(i)) \in 1 .. m
    <2>1. Upto(i) \in SUBSET I /\ i \in Upto(i)
      OBVIOUS
    <2> HIDE DEF Upto
    <2>2. IsFiniteSet(Upto(i)) /\ Cardinality(Upto(i)) <= m
      BY <1>1, <2>1, FS_Subset
    <2>3. Cardinality(Upto(i)) \in Nat /\ Cardinality(Upto(i)) # 0
      BY <2>1, <2>2, FS_CardinalityType, FS_EmptySet
    <2> QED  BY <1>1, <2>2, <2>3
  <1>3. ASSUME NEW i \in I, NEW j \in I, i < j
        PROVE  Cardinality(Upto(i)) # Cardinality(Upto(j))
    <2>0. \A x \in I : x \in Nat
      OBVIOUS
    <2>1. Upto(i) \in SUBSET Upto(j) /\ j \in Upto(j) /\ j \notin Upto(i)
      <3>1. \A x \in I : x <= i => x <= j
        BY <1>3, <2>0
      <3>2. j <= j /\ ~(j <= i)
        BY <1>3, <2>0
      <3> QED  BY <3>1, <3>2, Zenon
    <2>2. IsFiniteSet(Upto(j))
      BY Zenon, <1>2
    <2> HIDE DEF Upto
    <2> QED  BY <2>1, <2>2, FS_Subset
  <1>4. \A i, j \in I : rank[i] = rank[j] => i = j
    <2> SUFFICES ASSUME NEW i \in I, NEW j \in I, i # j
                 PROVE  Cardinality(Upto(i)) # Cardinality(Upto(j))
      BY Zenon
    <2>1. i < j \/ j < i
      OBVIOUS
    <2> HIDE DEF Upto
    <2> QED  BY <1>3, <2>1
  <1>5. rank \in [I -> 1 .. m]
    BY Zenon, <1>2
  <1> HIDE DEF rank, m, Upto
  <1>6. rank \in Injection(I, 1 .. m)
    BY <1>4, <1>5 DEF Injection, IsInjective
  <1>7. IsFiniteSet(1 .. m) /\ Cardinality(1 .. m) = m
    <2>1. 1 \in Int /\ m \in Int
      BY <1>1
    <2>2. IsFiniteSet(1 .. m) /\ Cardinality(1 .. m) = IF 1 > m THEN 0 ELSE m - 1 + 1
      BY <2>1, FS_Interval
    <2> QED  BY <1>1, <2>2
  <1>8. rank \in Surjection(I, 1 .. m)
    BY <1>6, <1>7, FS_Injection DEF m
  <1>9. \A k \in 1 .. m : \E i \in I : rank[i] = k
    BY Zenon, <1>8 DEF Surjection
  <1> QED  BY <1>1, <1>2, <1>9 DEF rank, m, Upto

\* The threads at some positions of a table.
LEMMA PickTable ==
    ASSUME NEW S, NEW s \in Seq(S), NEW I \in SUBSET (DOMAIN s)
    PROVE  /\ SubSeqAt(s, I) \in Seq(S)
           /\ Range(SubSeqAt(s, I)) = {s[i] : i \in I}
           /\ Distinct(s) => Distinct(SubSeqAt(s, I))
  <1> DEFINE Rank(i) == Cardinality({j \in I : j <= i})
             at(k) == CHOOSE i \in I : Rank(i) = k
             m == Cardinality(I)
             r == SubSeqAt(s, I)
  <1>1. Len(s) \in Nat /\ DOMAIN s = 1 .. Len(s)
    OBVIOUS
  <1>2. /\ m \in Nat
        /\ \A i \in I : Rank(i) \in 1 .. m
        /\ \A k \in 1 .. m : \E i \in I : Rank(i) = k
    BY ZenonT(60), <1>1, Ranks
  <1>3. r = [k \in 1 .. m |-> s[at(k)]]
    BY Zenon DEF SubSeqAt
  <1> HIDE DEF m, r, Rank
  <1>4. \A k \in 1 .. m : at(k) \in I /\ Rank(at(k)) = k
    BY Zenon, <1>2
  <1> HIDE DEF at
  <1>5. \A i \in I : \E k \in 1 .. m : at(k) = i
    <2> SUFFICES ASSUME NEW i \in I  PROVE at(Rank(i)) = i
      BY Zenon, <1>2
    <2> DEFINE back == [k \in 1 .. m |-> at(k)]
    <2>1. back \in Injection(1 .. m, I)
      <3>1. back \in [1 .. m -> I]
        BY Zenon, <1>4
      <3>2. \A k, l \in 1 .. m : back[k] = back[l] => k = l
        BY Zenon, <1>4
      <3> HIDE DEF back
      <3> QED  BY <3>1, <3>2 DEF Injection, IsInjective
    <2>2. IsFiniteSet(I) /\ IsFiniteSet(1 .. m) /\ Cardinality(1 .. m) = m
      <3>1. IsFiniteSet(1 .. m) /\ Cardinality(1 .. m) = IF 1 > m THEN 0 ELSE m - 1 + 1
        BY <1>2, FS_Interval
      <3>2. IsFiniteSet(I)
        BY Zenon, <1>1, Ranks
      <3> QED  BY <1>2, <3>1, <3>2
    <2> HIDE DEF back
    <2>3. back \in Surjection(1 .. m, I)
      BY <2>1, <2>2, FS_Injection DEF m
    <2>4. PICK k \in 1 .. m : back[k] = i
      BY Zenon, <2>3 DEF Surjection
    <2>5. at(k) = i
      BY Zenon, <2>4 DEF back
    <2> QED  BY <1>4, <2>5
  <1>6. DOMAIN r = 1 .. m /\ \A k \in 1 .. m : r[k] = s[at(k)] /\ s[at(k)] \in S
    BY <1>1, <1>3, <1>4
  <1>7. r \in Seq(S)
    <2>1. r = [k \in 1 .. m |-> r[k]]
      BY Zenon, <1>3
    <2>2. \A k \in 1 .. m : r[k] \in S
      BY Zenon, <1>6
    <2> QED  BY <1>2, <2>1, <2>2
  <1>8. Range(r) = {s[i] : i \in I}
    BY <1>4, <1>5, <1>6 DEF Range
  <1>9. ASSUME Distinct(s)  PROVE Distinct(r)
    <2> SUFFICES ASSUME NEW k \in 1 .. m, NEW l \in 1 .. m, r[k] = r[l]
                 PROVE  k = l
      BY Zenon, <1>6 DEF Distinct
    <2>1. at(k) = at(l)
      BY <1>4, <1>6, <1>9 DEF Distinct
    <2> QED  BY Zenon, <1>4, <2>1
  <1> QED  BY <1>7, <1>8, <1>9 DEF r
-----------------------------------------------------------------------------
(* The invariant holds *)

LEMMA FiniteThreads ==
    /\ IsFiniteSet(Threads) /\ IsFiniteSet(Idles) /\ Cardinality(Idles) = Cardinality(CPUs)
    /\ \A S : S \subseteq Threads =>
                IsFiniteSet(S) /\ Cardinality(S) \in 0 .. Cardinality(Threads)
  <1>1. IsFiniteSet(CPUs) /\ IsFiniteSet(Workers)
    BY Zenon, SchedulerAssumption
  <1>2. IsFiniteSet(Idles) /\ Cardinality(Idles) = Cardinality(CPUs)
    <2>1. idle \in Bijection(CPUs, Idles)
      <3>1. idle \in [CPUs -> Idles] /\ \A c, d \in CPUs : idle[c] = idle[d] => c = d
        BY Zenon, SchedulerAssumption
      <3>2. \A t \in Idles : \E c \in CPUs : idle[c] = t
        BY Zenon DEF Idles
      <3> QED  BY <3>1, <3>2 DEF Bijection, Injection, Surjection, IsInjective
    <2>2. ExistsBijection(CPUs, Idles)
      BY Zenon, <2>1 DEF ExistsBijection
    <2> QED  BY <1>1, <2>2, FS_Bijection
  <1>3. IsFiniteSet(Workers \cup {init})
    BY <1>1, FS_AddElement
  <1>4. IsFiniteSet(Threads)
    BY Zenon, <1>2, <1>3, FS_Union DEF Threads
  <1>5. ASSUME NEW S, S \subseteq Threads
        PROVE  IsFiniteSet(S) /\ Cardinality(S) \in 0 .. Cardinality(Threads)
    <2>1. IsFiniteSet(S) /\ Cardinality(S) <= Cardinality(Threads)
      BY <1>4, <1>5, FS_Subset
    <2>2. Cardinality(S) \in Nat /\ Cardinality(Threads) \in Nat
      BY <1>4, <2>1, FS_CardinalityType
    <2> QED  BY <2>1, <2>2
  <1> QED  BY <1>2, <1>4, <1>5

LEMMA ThreadsCounted == Counted(Threads)
  <1>1. Cardinality({}) = 0
    BY Zenon, FS_EmptySet
  <1>2. ASSUME NEW T \in SUBSET Threads
        PROVE  IsFiniteSet(T) /\ Cardinality(T) \in Nat
    <2>1. IsFiniteSet(T)
      BY Zenon, FiniteThreads
    <2> QED  BY Zenon, <2>1, FS_CardinalityType
  <1>3. ASSUME NEW T \in SUBSET Threads, NEW u \in Threads
        PROVE  /\ u \notin T => Cardinality(T \cup {u}) = Cardinality(T) + 1
               /\ u \in T => Cardinality(T \ {u}) = Cardinality(T) - 1
    BY Zenon, <1>2, FS_AddElement, FS_RemoveElement
  <1> QED  BY Zenon, <1>1, <1>2, <1>3 DEF Counted

\* Every step preserves it.
LEMMA NextInv == Inv /\ [Next]_vars => Inv'
  <1> SUFFICES ASSUME Inv, [Next]_vars  PROVE Inv'
    BY Zenon
  <1>0. Counted(Threads) /\ WellOrdered /\ Picks
    BY Zenon, ThreadsCounted, LeastNumber, PickTable DEF WellOrdered, Picks
  <1>1. ASSUME NEW c \in CPUs, Tick(c)  PROVE Inv'
    BY Zenon, <1>0, <1>1, TickStep
  <1>2. ASSUME NEW t \in Threads, Step(t)  PROVE Inv'
    <2>1. CASE sched_schedule(t)
      BY Zenon, <1>0, <2>1, ScheduleStep
    <2>2. CASE sched_clean_joined_thread(t)
      BY Zenon, <1>0, <2>2, CleanStep
    <2> QED  BY Zenon, <1>2, <2>1, <2>2, UnlockPushStep, SetJoiningStep, RegisterJoinerStep,
                ExitTablesStep, ExitWakeStep, ExitPushStep DEF Step
  <1>3. ASSUME NEW t \in Workers, NEW u \in Workers,
               \/ sched_create_kernel_thread(t, u)
               \/ sched_unlock_thread(t, u)
               \/ sched_wait_thread(t, u)
        PROVE  Inv'
    BY <1>0, <1>3, CreateStep, UnlockStep, CallWaitStep
  <1>4. ASSUME NEW t \in Workers, NEW ms \in Sleeps, sched_sleep(t, ms)  PROVE Inv'
    BY <1>4, SleepStep
  <1>5. ASSUME NEW t \in Workers, NEW p \in Prios, sched_set_priority(t, p)  PROVE Inv'
    BY <1>5, PriorityStep
  <1>6. ASSUME NEW t \in Workers, sched_lock_thread(t) \/ thread_exit(t)  PROVE Inv'
    BY <1>6, LockStep, ExitStep
  <1>7. CASE InitStart \/ InitWait \/ InitReap \/ InitHalt
    BY <1>0, <1>7, InitStartStep, InitWaitStep, InitReapStep, HaltStep
  <1>8. CASE UNCHANGED vars
    BY <1>8, StutterInv
  <1> QED  BY <1>1, <1>2, <1>3, <1>4, <1>5, <1>6, <1>7, <1>8 DEF Next

\* In every state a thread stands where its state says in its call, is in the
\* table of its state, has one waker when it is being woken and one thread that
\* waits for it, and thread_count is the number of live threads.
THEOREM Invariant == Spec => []Inv
  <1>1. Init => Inv
    <2>1. Cardinality(Idles \cup {init}) = Cardinality(CPUs) + 1
      BY ThreadSets, FiniteThreads, FS_AddElement
    <2> QED  BY Zenon, <2>1, InitInv
  <1> QED  BY <1>1, NextInv, PTL DEF Spec

\* For every program and number of CPUs, no thread is lost: one that can run
\* is in the ready table of its own CPU and priority or about to be pushed
\* there, one that sleeps is in the sleeping table of its CPU, and one that
\* runs does so on its own CPU.
THEOREM ThreadsKept == Spec => []NoThreadLost
  <1>1. Inv => NoThreadLost
    <2> SUFFICES ASSUME Inv, NEW t \in Threads
                 PROVE  /\ state[t] = "READY" =>
                               BeingWoken(t) \/ t \in Range(ready[Home(t)][priority[t]])
                        /\ state[t] = "SLEEPING" =>
                               active[Home(t)] = t \/ t \in Range(sleeping[Home(t)])
                        /\ state[t] = "RUNNING" => active[Home(t)] = t
                        /\ \A c \in CPUs :
                               /\ active[c] = t => Home(t) = c
                               /\ \A p \in Prios :
                                      t \in Range(ready[c][p]) => state[t] = "READY"
      BY Zenon DEF NoThreadLost
    <2>1. Placed(t) /\ Tables
      BY Zenon DEF Inv
    <2>2. (\E u \in Threads : Wakes(u, t)) => BeingWoken(t)
      BY Zenon DEF Wakes, BeingWoken
    <2>3. \A c \in CPUs : /\ active[c] = t => Home(t) = c
                          /\ \A p \in Prios : t \in Range(ready[c][p]) => state[t] = "READY"
      BY <2>1 DEF Tables, ReadyTable
    <2> QED  BY <2>1, <2>2, <2>3 DEF Placed, Running
  <1> QED  BY <1>1, Invariant, PTL

\* Every live thread is the child of its parent and of nobody else, whoever
\* exits first and whoever waits for whom.
THEOREM Families == Spec => []FamilyTree
  <1>1. Inv => FamilyTree
    <2> SUFFICES ASSUME Inv, NEW t \in Workers, Live(t)
                 PROVE  /\ \A u \in Threads : t \in Range(children[u]) => u = ptid[t]
                        /\ t \in Range(children[ptid[t]]) \/ target[init] = t
      BY Zenon DEF FamilyTree, Live
    <2>1. Child(t) /\ \A u \in Threads : Parent(u)
      BY Zenon DEF Inv
    <2> QED  BY Zenon, <2>1 DEF Child, Parent
  <1> QED  BY <1>1, Invariant, PTL
-----------------------------------------------------------------------------
(* The sleeping tables *)

\* WellOrdered and Picks, which the lemmas about select_thread take.
LEMMA TableFacts == WellOrdered /\ Picks
  BY Zenon, LeastNumber, PickTable DEF WellOrdered, Picks

LEMMA SleepersInvariant == ASSUME NoWrap PROVE Spec => []Sleepers
  <1>1. Inv /\ Sleepers /\ [Next]_vars => Sleepers'
    BY Zenon, TableFacts, NextSleeps
  <1>2. Init => Sleepers
    BY Zenon, InitSleeps
  <1> QED  BY <1>1, <1>2, Invariant, PTL DEF Spec

\* A thread in sched_sleep wakes no sooner than it asked for, a sleep that is
\* not a number of slices being rounded down, and each pass of select_thread
\* leaves nobody asleep who is due: on every CPU, as long as no wake-up time
\* overflows its 32-bit key.
THEOREM SleepersAlwaysWake == ASSUME NoWrap PROVE Spec => SleepersWake
  <1>1. Inv /\ Sleepers /\ [Next]_vars => NotTooSoon /\ NotTooLate
    BY Zenon, TableFacts, NextSleeps
  <1>2. Inv /\ Sleepers /\ [Next]_vars => [NotTooSoon]_vars /\ [NotTooLate]_vars
    BY Zenon, <1>1
  <1>3. Spec => [][NotTooSoon]_vars /\ [][NotTooLate]_vars
    BY <1>2, Invariant, SleepersInvariant, PTL DEF Spec
  <1> QED  BY Zenon, <1>3 DEF SleepersWake, SleepsAtLeast, NobodyOversleeps, NotTooSoon, NotTooLate
-----------------------------------------------------------------------------
(* Nodes and memory *)

\* A set without two elements has a size of at most one.
LEMMA AtMostOne ==
    ASSUME NEW S, \A x, y \in S : x = y
    PROVE  /\ S = {} => Cardinality(S) = 0
           /\ S # {} => Cardinality(S) = 1
  <1>1. CASE S = {}
    BY Zenon, <1>1, FS_EmptySet
  <1>2. CASE S # {}
    <2>1. PICK x \in S : TRUE
      BY Zenon, <1>2
    <2>2. S = {x}
      BY Zenon, <2>1
    <2> QED  BY Zenon, <1>2, <2>2, FS_Singleton
  <1> QED  BY Zenon, <1>1, <1>2

\* The node of a thread is in one table at most, and in none when its thread
\* is neither ready nor asleep nor a zombie.
LEMMA OneLink ==
    ASSUME Inv, NEW t \in Threads
    PROVE  /\ Links(t) <= 1
           /\ state[t] \notin {"READY", "SLEEPING"} /\ t \notin Range(zombies) => Links(t) = 0
  <1> DEFINE r == Cardinality(ReadyLinks(t))
             s == Cardinality(SleepLinks(t))
             z == Cardinality(ZombieLinks(t))
  <1>1. Links(t) = r + s + z
    BY Zenon, LinkPlaces
  <1>2. /\ ReadyLinks(t) = {} => r = 0
        /\ ReadyLinks(t) # {} => r = 1 /\ state[t] = "READY"
    BY Zenon, AtMostOne, LinkPlaces
  <1>3. /\ SleepLinks(t) = {} => s = 0
        /\ SleepLinks(t) # {} => s = 1 /\ state[t] = "SLEEPING"
    BY Zenon, AtMostOne, LinkPlaces
  <1>4. /\ ZombieLinks(t) = {} => z = 0
        /\ ZombieLinks(t) # {} =>
               z = 1 /\ state[t] \in {"ZOMBIE", "DEAD", "FREED"} /\ t \in Range(zombies)
    BY Zenon, AtMostOne, LinkPlaces
  <1> HIDE DEF r, s, z
  <1> QED  BY <1>1, <1>2, <1>3, <1>4

\* For every program and number of CPUs: the variables have their types, the
\* node of a thread is linked in one table at most, the idle thread of a CPU
\* runs or is ready, and the sleeping tables are sorted by wake-up time, as long
\* as none overflows its 32-bit key.
THEOREM TablesAlwaysSound == ASSUME NoWrap PROVE Spec => []TablesSound
  <1>1. ASSUME Inv  PROVE TypeOK
    <2>1. {t \in Threads : Live(t)} \subseteq Threads
      BY Zenon
    <2>2. thread_count \in 0 .. Cardinality(Threads)
      BY Zenon, <1>1, <2>1, FiniteThreads DEF Inv, Count
    <2> QED  BY Zenon, <1>1, <2>2 DEF Inv, Types, TypeOK
  <1>2. ASSUME Inv  PROVE NodeInOneTable
    BY Zenon, <1>2, OneLink DEF NodeInOneTable
  <1>3. Inv /\ Sleepers => TablesSound
    BY Zenon, <1>1, <1>2, IdleThreads DEF Sleepers, TablesSound
  <1> QED  BY <1>3, Invariant, SleepersInvariant, PTL

\* On a machine with one CPU the memory of a thread is freed once, and when no
\* CPU runs the thread and no table links it.  With several CPUs the joining
\* thread may free one that has not left its CPU yet.
THEOREM NothingFreedInUse ==
    ASSUME Cardinality(CPUs) = 1 PROVE Spec => []NoUseAfterFree
  <1>1. ASSUME Inv  PROVE NoUseAfterFree
    <2>1. thread_count = Cardinality({t \in Threads : state[t] \notin {"NONE", "FREED"}})
      BY Zenon, <1>1 DEF Inv, Count, Live
    <2>2. ASSUME NEW t \in Threads, state[t] = "FREED"
          PROVE  (\A c \in CPUs : active[c] # t) /\ Links(t) = 0
      <3>1. Freed(t) /\ Tables
        BY Zenon, <1>1 DEF Inv
      <3>2. ~ Running(t) /\ t \notin Range(zombies)
        BY Zenon, <2>2, <3>1 DEF Freed
      <3>3. \A c \in CPUs : active[c] # t
        BY Zenon, <3>1, <3>2 DEF Tables, Running
      <3>4. state[t] \notin {"READY", "SLEEPING"}
        BY Zenon, <2>2
      <3>5. Links(t) = 0
        BY Zenon, <1>1, <3>2, <3>4, OneLink
      <3> QED  BY Zenon, <3>3, <3>5
    <2> QED  BY Zenon, <2>1, <2>2 DEF NoUseAfterFree
  <1>2. Inv => NoUseAfterFree
    BY Zenon, <1>1
  <1> QED  BY <1>2, Invariant, PTL
=============================================================================
