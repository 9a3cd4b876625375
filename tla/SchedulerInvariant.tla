------------------------- MODULE SchedulerInvariant -------------------------
(*****************************************************************************)
(* The inductive invariant of Scheduler, what a call that leaves a part of   *)
(* the state alone leaves of it, and that select_thread preserves it.        *)
(*                                                                           *)
(* NoThreadLost and FamilyTree are not inductive.  That a woken thread is    *)
(* pushed once needs that it has one waker, which needs that a thread is     *)
(* waited for by one thread, which needs the family tree: Inv says where a   *)
(* thread stands in its call for each state it can be in, who wakes it,      *)
(* and whose child it is.                                                    *)
(*                                                                           *)
(* The pass of select_thread is taken first by what it does to the tables    *)
(* (Selects).  SelectEffect shows that Select does that.                     *)
(*****************************************************************************)
EXTENDS Scheduler, Numbers, TLAPS

\* no thread is linked twice in the table s
Distinct(s) == \A i, j \in DOMAIN s : s[i] = s[j] => i = j
-----------------------------------------------------------------------------
\* kernel_queue_push: the thread is in the table, in front of the others.
LEMMA PushTable ==
    ASSUME NEW S, NEW s \in Seq(S), NEW e \in S
    PROVE  /\ <<e>> \o s \in Seq(S)
           /\ Range(<<e>> \o s) = {e} \cup Range(s)
           /\ Distinct(s) /\ e \notin Range(s) => Distinct(<<e>> \o s)
  <1> DEFINE r == <<e>> \o s
  <1>1. /\ r \in Seq(S) /\ Len(r) = Len(s) + 1 /\ r[1] = e
        /\ \A i \in 1 .. Len(s) : r[i + 1] = s[i]
    OBVIOUS
  <1>2. DOMAIN r = 1 .. Len(s) + 1 /\ DOMAIN s = 1 .. Len(s) /\ Len(s) \in Nat
    BY <1>1
  <1>3. \A i \in 2 .. Len(s) + 1 : i - 1 \in 1 .. Len(s) /\ r[i] = s[i - 1]
    BY <1>1, <1>2
  <1> HIDE DEF r
  <1>4. \A i \in DOMAIN r : \/ i = 1 /\ r[i] = e
                            \/ i - 1 \in DOMAIN s /\ r[i] = s[i - 1]
    BY <1>1, <1>2, <1>3
  <1>5. /\ 1 \in DOMAIN r /\ r[1] = e
        /\ \A i \in DOMAIN s : i + 1 \in DOMAIN r /\ r[i + 1] = s[i]
    BY <1>1, <1>2
  <1>6. Range(r) = {e} \cup Range(s)
    BY <1>4, <1>5 DEF Range
  <1>7. ASSUME Distinct(s), e \notin Range(s)  PROVE Distinct(r)
    <2> SUFFICES ASSUME NEW i \in DOMAIN r, NEW j \in DOMAIN r, r[i] = r[j]
                 PROVE  i = j
      BY Zenon DEF Distinct
    <2>1. i \in Nat /\ j \in Nat
      BY <1>2
    <2>2. CASE /\ i - 1 \in DOMAIN s /\ r[i] = s[i - 1]
               /\ j - 1 \in DOMAIN s /\ r[j] = s[j - 1]
      <3>1. i - 1 = j - 1
        BY Zenon, <2>2, <1>7 DEF Distinct
      <3> QED  BY <3>1, <2>1
    <2>3. \A k \in DOMAIN s : s[k] # e
      BY Zenon, <1>7 DEF Range
    <2> QED  BY Zenon, <1>4, <2>2, <2>3
  <1> QED  BY Zenon, <1>1, <1>6, <1>7 DEF r

\* One table behind another.
LEMMA ConcatTable ==
    ASSUME NEW S, NEW s \in Seq(S), NEW t \in Seq(S)
    PROVE  /\ s \o t \in Seq(S)
           /\ Range(s \o t) = Range(s) \cup Range(t)
           /\ Distinct(s) /\ Distinct(t) /\ Range(s) \cap Range(t) = {} =>
                  Distinct(s \o t)
  <1> DEFINE r == s \o t
  <1>1. /\ r \in Seq(S) /\ Len(r) = Len(s) + Len(t)
        /\ \A i \in 1 .. Len(s) : r[i] = s[i]
        /\ \A i \in 1 .. Len(t) : r[i + Len(s)] = t[i]
    OBVIOUS
  <1>2. /\ DOMAIN r = 1 .. Len(s) + Len(t)
        /\ DOMAIN s = 1 .. Len(s) /\ Len(s) \in Nat
        /\ DOMAIN t = 1 .. Len(t) /\ Len(t) \in Nat
    BY <1>1
  <1>3. \A i \in DOMAIN r : \/ i \in DOMAIN s /\ r[i] = s[i]
                            \/ i - Len(s) \in DOMAIN t /\ r[i] = t[i - Len(s)]
    BY <1>1, <1>2
  <1>4. /\ \A i \in DOMAIN s : i \in DOMAIN r /\ r[i] = s[i]
        /\ \A i \in DOMAIN t : i + Len(s) \in DOMAIN r /\ r[i + Len(s)] = t[i]
    BY <1>1, <1>2
  <1> HIDE DEF r
  <1>5. Range(r) = Range(s) \cup Range(t)
    BY <1>3, <1>4 DEF Range
  <1>6. ASSUME Distinct(s), Distinct(t), Range(s) \cap Range(t) = {}
        PROVE  Distinct(r)
    <2> SUFFICES ASSUME NEW i \in DOMAIN r, NEW j \in DOMAIN r, r[i] = r[j]
                 PROVE  i = j
      BY Zenon DEF Distinct
    <2>1. i \in Nat /\ j \in Nat
      BY <1>2
    <2>2. CASE i \in DOMAIN s /\ r[i] = s[i] /\ j \in DOMAIN s /\ r[j] = s[j]
      BY Zenon, <2>2, <1>6 DEF Distinct
    <2>3. CASE /\ i - Len(s) \in DOMAIN t /\ r[i] = t[i - Len(s)]
               /\ j - Len(s) \in DOMAIN t /\ r[j] = t[j - Len(s)]
      <3>1. i - Len(s) = j - Len(s)
        BY Zenon, <2>3, <1>6 DEF Distinct
      <3> QED  BY <3>1, <2>1, <1>2
    <2>4. \A k \in DOMAIN s, l \in DOMAIN t : s[k] # t[l]
      BY Zenon, <1>6 DEF Range
    <2> QED  BY Zenon, <1>3, <2>2, <2>3, <2>4
  <1> QED  BY Zenon, <1>1, <1>5, <1>6 DEF r

\* A table of one thread.
LEMMA OneTable ==
    ASSUME NEW S, NEW e \in S
    PROVE  <<e>> \in Seq(S) /\ Range(<<e>>) = {e} /\ Distinct(<<e>>)
  BY DEF Range, Distinct

\* A table cut in two after position k.
LEMMA SplitTable ==
    ASSUME NEW S, NEW s \in Seq(S), NEW k \in 0 .. Len(s)
    PROVE  LET a == SubSeq(s, 1, k)
               b == SubSeq(s, k + 1, Len(s))
           IN  /\ a \in Seq(S) /\ Len(a) = k /\ DOMAIN a = 1 .. k
               /\ \A i \in 1 .. k : a[i] = s[i]
               /\ b \in Seq(S) /\ Len(b) = Len(s) - k /\ DOMAIN b = 1 .. Len(s) - k
               /\ \A i \in 1 .. Len(s) - k : b[i] = s[i + k]
               /\ Range(s) = Range(a) \cup Range(b)
               /\ Distinct(s) => /\ Distinct(a) /\ Distinct(b)
                                 /\ Range(a) \cap Range(b) = {}
  <1> DEFINE a == SubSeq(s, 1, k)
             b == SubSeq(s, k + 1, Len(s))
  <1>0. Len(s) \in Nat /\ k \in Nat /\ k <= Len(s) /\ DOMAIN s = 1 .. Len(s)
        /\ \A i \in 1 .. Len(s) : s[i] \in S
    OBVIOUS
  <1>1. a \in Seq(S) /\ Len(a) = k /\ \A i \in 1 .. k : a[i] = s[i]
    BY <1>0
  <1>2. b \in Seq(S) /\ Len(b) = Len(s) - k /\ \A i \in 1 .. Len(s) - k : b[i] = s[i + k]
    <2>1. \A i \in k + 1 .. Len(s) : s[i] \in S
      BY <1>0
    <2>2. /\ b \in Seq(S)
          /\ Len(b) = IF k + 1 <= Len(s) THEN Len(s) - (k + 1) + 1 ELSE 0
          /\ \A i \in 1 .. Len(s) - (k + 1) + 1 : b[i] = s[k + 1 + i - 1]
      BY <1>0, <2>1
    <2> HIDE DEF b
    <2>3. Len(s) - (k + 1) + 1 = Len(s) - k /\ Len(b) = Len(s) - k
      <3>1. \A n \in Nat : /\ n - (k + 1) + 1 = n - k
                           /\ k <= n => (IF k + 1 <= n THEN n - (k + 1) + 1 ELSE 0) = n - k
        BY <1>0
      <3> QED  BY Zenon, <1>0, <2>2, <3>1
    <2>4. ASSUME NEW i \in 1 .. Len(s) - k  PROVE b[i] = s[i + k]
      <3>1. k + 1 + i - 1 = i + k
        BY <1>0
      <3> QED  BY Zenon, <2>2, <2>3, <3>1
    <2> QED  BY Zenon, <2>2, <2>3, <2>4
  <1> HIDE DEF a, b
  <1>3. DOMAIN a = 1 .. k /\ DOMAIN b = 1 .. Len(s) - k
    BY <1>0, <1>1, <1>2
  <1>4. /\ \A i \in DOMAIN a : i \in DOMAIN s /\ a[i] = s[i]
        /\ \A i \in DOMAIN b : i + k \in DOMAIN s /\ b[i] = s[i + k]
    BY <1>0, <1>1, <1>2, <1>3
  <1>5. \A i \in DOMAIN s : \/ i \in DOMAIN a /\ a[i] = s[i]
                            \/ i - k \in DOMAIN b /\ b[i - k] = s[i]
    <2> SUFFICES ASSUME NEW i \in DOMAIN s, i \notin 1 .. k
                 PROVE  i - k \in DOMAIN b /\ b[i - k] = s[i]
      BY Zenon, <1>1, <1>3
    <2>1. i - k \in 1 .. Len(s) - k /\ (i - k) + k = i
      BY <1>0
    <2> QED  BY Zenon, <2>1, <1>2, <1>3
  <1>6. Range(s) = Range(a) \cup Range(b)
    BY <1>4, <1>5 DEF Range
  <1>7. ASSUME Distinct(s)
        PROVE  Distinct(a) /\ Distinct(b) /\ Range(a) \cap Range(b) = {}
    <2>1. Distinct(a)
      BY Zenon, <1>4, <1>7 DEF Distinct
    <2>2. Distinct(b)
      <3> SUFFICES ASSUME NEW i \in DOMAIN b, NEW j \in DOMAIN b, b[i] = b[j]
                   PROVE  i = j
        BY Zenon DEF Distinct
      <3>1. i + k = j + k
        BY <1>4, <1>7 DEF Distinct
      <3> QED  BY <3>1, <1>0, <1>3
    <2>3. \A i \in DOMAIN a, j \in DOMAIN b : a[i] # b[j]
      <3> SUFFICES ASSUME NEW i \in DOMAIN a, NEW j \in DOMAIN b, a[i] = b[j]
                   PROVE  FALSE
        BY Zenon
      <3>1. i = j + k
        BY Zenon, <1>4, <1>7 DEF Distinct
      <3> QED  BY <3>1, <1>0, <1>3
    <2> QED  BY Zenon, <2>1, <2>2, <2>3 DEF Range
  <1> QED  BY Zenon, <1>1, <1>2, <1>3, <1>6, <1>7 DEF a, b

\* kernel_queue_pop takes the last thread of a table.
LEMMA PopTable ==
    ASSUME NEW S, NEW s \in Seq(S), s # <<>>
    PROVE  /\ Popped(s) \in Seq(S) /\ Oldest(s) \in S /\ Oldest(s) \in Range(s)
           /\ Range(s) = Range(Popped(s)) \cup {Oldest(s)}
           /\ Distinct(s) => Distinct(Popped(s)) /\ Oldest(s) \notin Range(Popped(s))
  <1>1. Len(s) \in Nat /\ Len(s) # 0 /\ Len(s) - 1 \in 0 .. Len(s)
        /\ DOMAIN s = 1 .. Len(s) /\ Len(s) \in DOMAIN s
    OBVIOUS
  <1> DEFINE k == Len(s) - 1
             b == SubSeq(s, k + 1, Len(s))
  <1>2. k \in 0 .. Len(s) /\ Popped(s) = SubSeq(s, 1, k)
    BY Zenon, <1>1 DEF Popped
  <1>3. /\ Popped(s) \in Seq(S)
        /\ DOMAIN b = 1 .. Len(s) - k /\ \A i \in 1 .. Len(s) - k : b[i] = s[i + k]
        /\ Range(s) = Range(Popped(s)) \cup Range(b)
        /\ Distinct(s) => Distinct(Popped(s)) /\ Range(Popped(s)) \cap Range(b) = {}
    BY <1>2, SplitTable
  <1>4. DOMAIN b = {1} /\ b[1] = Oldest(s)
    BY <1>1, <1>3 DEF Oldest
  <1> HIDE DEF b, k
  <1>5. Range(b) = {Oldest(s)}
    BY <1>4 DEF Range
  <1>6. Oldest(s) \in S
    BY <1>1 DEF Oldest
  <1> QED  BY Zenon, <1>3, <1>5, <1>6

\* kernel_queue_find and kernel_queue_remove: the thread is in the table no
\* longer.
LEMMA RemoveTable ==
    ASSUME NEW S, NEW s \in Seq(S), Distinct(s), NEW e
    PROVE  /\ Removed(s, e) \in Seq(S)
           /\ Range(Removed(s, e)) = Range(s) \ {e}
           /\ Distinct(Removed(s, e))
  <1>1. CASE ~ \E i \in 1 .. Len(s) : s[i] = e
    <2>1. e \notin Range(s)
      BY <1>1 DEF Range
    <2>2. Removed(s, e) = s
      BY Zenon, <2>1 DEF Removed
    <2> QED  BY Zenon, <2>1, <2>2
  <1>2. CASE \E i \in 1 .. Len(s) : s[i] = e
    <2> DEFINE n == CHOOSE i \in 1 .. Len(s) : s[i] = e
    <2>1. n \in 1 .. Len(s) /\ s[n] = e
      BY Zenon, <1>2
    <2>2. e \in Range(s)
      BY <1>2 DEF Range
    <2>4. Removed(s, e) = SubSeq(s, 1, n - 1) \o SubSeq(s, n + 1, Len(s))
      BY Zenon, <2>2 DEF Removed
    <2> HIDE DEF n
    <2>5. n \in 1 .. Len(s) /\ s[n] = e /\ n \in 0 .. Len(s) /\ Len(s) \in Nat
      BY <2>1
    <2> DEFINE a == SubSeq(s, 1, n)
               b == SubSeq(s, n + 1, Len(s))
    <2>6. /\ a \in Seq(S) /\ Len(a) = n /\ \A i \in 1 .. n : a[i] = s[i]
          /\ b \in Seq(S) /\ Range(s) = Range(a) \cup Range(b)
          /\ Distinct(a) /\ Distinct(b) /\ Range(a) \cap Range(b) = {}
      BY <2>5, SplitTable
    <2>7. SubSeq(s, 1, n - 1) = Popped(a)
      BY <2>5, <2>6 DEF Popped
    <2> HIDE DEF a, b
    <2>8. a # <<>> /\ Oldest(a) = e
      BY <2>5, <2>6 DEF Oldest
    <2>9. /\ Popped(a) \in Seq(S) /\ Range(a) = Range(Popped(a)) \cup {e}
          /\ Distinct(Popped(a)) /\ e \notin Range(Popped(a))
      BY Zenon, <2>6, <2>8, PopTable
    <2>10. /\ Popped(a) \o b \in Seq(S) /\ Range(Popped(a) \o b) = Range(Popped(a)) \cup Range(b)
           /\ Distinct(Popped(a) \o b)
      BY <2>6, <2>9, ConcatTable
    <2>11. Removed(s, e) = Popped(a) \o b
      BY Zenon, <2>4, <2>7 DEF b
    <2> QED  BY Zenon, <2>6, <2>9, <2>10, <2>11
  <1> QED  BY Zenon, <1>1, <1>2
-----------------------------------------------------------------------------
\* the types of the variables but for the count of threads, which is a number
\* by what it counts
Types ==
    /\ state \in [Threads -> States]
    /\ priority \in [Threads -> Prios]
    /\ wakeup_time \in [Threads -> 0 .. Word64 - 1]
    /\ ptid \in [Threads -> MaybeThread]
    /\ children \in [Threads -> Seq(Threads)]
    /\ joining_thread \in [Threads -> MaybeThread]
    /\ active \in [CPUs -> Threads]
    /\ ready \in [CPUs -> [Prios -> Seq(Threads)]]
    /\ sleeping \in [CPUs -> Seq(Threads)]
    /\ zombies \in Seq(Threads)
    /\ uptime \in [CPUs -> 0 .. MaxTime]
    /\ pc \in [Threads -> Labels]
    /\ target \in [Threads -> MaybeThread]
    /\ asleep \in [Threads -> Nat \X Nat]
    /\ system \in {"RUNNING", "HALTED", "PANIC"}

\* the ready table of CPU c and priority p holds threads of that CPU and
\* priority that are ready, each once
ReadyTable(c, p) ==
    /\ Distinct(ready[c][p])
    /\ \A t \in Range(ready[c][p]) :
           Home(t) = c /\ priority[t] = p /\ state[t] = "READY"

\* the sleeping table of CPU c holds threads of that CPU that sleep, each once
SleepingTable(c) ==
    /\ Distinct(sleeping[c])
    /\ \A t \in Range(sleeping[c]) :
           Home(t) = c /\ state[t] = "SLEEPING" /\ active[c] # t

Tables ==
    /\ \A c \in CPUs : Home(active[c]) = c
    /\ \A c \in CPUs, p \in Prios : ReadyTable(c, p)
    /\ \A c \in CPUs : SleepingTable(c)

\* the threads of CPU c that sleep when select_thread runs, the active thread
\* among them, and the active thread when it has only lost its time slice
AsleepOn(c) ==
    Range(sleeping[c]) \cup {t \in {active[c]} : state[t] = "SLEEPING"}

Preempted(c) == {t \in {active[c]} : state[t] = "RUNNING"}

\* What select_thread does on CPU c at time now: the threads of D wake, w runs.
Selects(c, now, D, w) ==
    /\ D \subseteq AsleepOn(c)
    /\ \A t \in D : ~ (wakeup_time[t] >= now)
    /\ w \in Threads
    /\ w \in D \cup Preempted(c) \/ \E p \in Prios : w \in Range(ready[c][p])
    /\ system' = system
    /\ active' = [active EXCEPT ![c] = w]
    /\ state' = [t \in Threads |-> IF t = w THEN "RUNNING"
                                   ELSE IF t \in D \cup Preempted(c) THEN "READY"
                                   ELSE state[t]]
    /\ sleeping' \in [CPUs -> Seq(Threads)]
    /\ ready' \in [CPUs -> [Prios -> Seq(Threads)]]
    /\ \A d \in CPUs \ {c} : sleeping'[d] = sleeping[d] /\ ready'[d] = ready[d]
    /\ Distinct(sleeping'[c]) /\ Range(sleeping'[c]) = AsleepOn(c) \ D
    /\ \A p \in Prios :
           /\ Distinct(ready'[c][p])
           /\ Range(ready'[c][p]) =
                  (Range(ready[c][p]) \cup {t \in D \cup Preempted(c) : priority[t] = p})
                      \ {w}

Running(t) == active[Home(t)] = t

Live(t) == state[t] \notin {"NONE", "FREED"}

WaitLabels == {"wait1", "wait2", "wait3", "clean"}

ExitLabels == {"exit1", "exit2", "exit3", "exit4", "gone"}

\* after ExitTables, after ExitPush
LateExit == {"exit2", "exit3", "exit4", "gone"}

LastExit == {"exit4", "gone"}

\* u has set the state of t and is about to push its node
Wakes(u, t) ==
    \/ pc[u] = "unlock" /\ target[u] = t
    \/ pc[u] = "exit3" /\ joining_thread[u] = t

ZombieTable ==
    /\ Distinct(zombies)
    /\ \A t \in Range(zombies) : pc[t] \in LateExit

Placed(t) ==
    /\ state[t] = "READY" =>
           (\E u \in Threads : Wakes(u, t)) \/ t \in Range(ready[Home(t)][priority[t]])
    /\ state[t] = "SLEEPING" => Running(t) \/ t \in Range(sleeping[Home(t)])
    /\ state[t] = "RUNNING" => Running(t)

\* a thread about to be pushed is in no table, and nobody else will push it
Waker(u, t) ==
    Wakes(u, t) =>
        /\ state[t] = "READY" /\ t \in Workers \cup {init}
        /\ t \notin Range(ready[Home(t)][priority[t]])
        /\ \A v \in Threads : Wakes(v, t) => v = u

\* the states of a thread by the place it stands at
Stands(t) ==
    /\ state[t] = "NONE" => /\ t \in Workers /\ pc[t] = "run" /\ ~ Running(t)
                            /\ priority[t] = Prio[t]
    /\ Running(t) /\ pc[t] \in {"run", "start", "main", "reap", "next", "unlock",
                                "wait1", "clean"} => state[t] = "RUNNING"
    /\ pc[t] \in Masked => Running(t)
    /\ pc[t] = "wait2" => state[t] = "JOINING"
    /\ pc[t] \in ExitLabels <=> state[t] \in {"ZOMBIE", "DEAD", "FREED"}
    /\ state[t] = "JOINING" => pc[t] \in {"wait2", "wait3", "clean"}
    /\ state[t] \in {"WAITING", "SLEEPING"} => pc[t] \in {"sched", "run"}

\* which threads stand where
Roles(t) ==
    /\ pc[t] = "unlock" => target[t] \in Workers
    /\ pc[t] = "exit3" => joining_thread[t] # NULL
    /\ t \in Idles => /\ pc[t] = "run" /\ state[t] \in {"READY", "RUNNING"}
                      /\ priority[t] = Lowest
    /\ pc[t] \in {"start", "main", "reap", "next"} => t = init
    /\ pc[t] \in {"exit1", "exit2", "exit3", "unlock", "sched"} => t \in Workers

\* t waits for target[t]: nobody else does, and it will be woken once
Joiner(t) ==
    pc[t] \in WaitLabels =>
        LET u == target[t]
        IN /\ u \in Workers /\ Live(u) /\ ptid[u] = t
           /\ t # init => t \in Workers /\ Creator[u] = t /\ u \in Range(children[t])
           /\ \A v \in Threads : pc[v] \in WaitLabels /\ target[v] = u => v = t
           /\ pc[t] = "wait3" => joining_thread[u] = t
           /\ pc[t] = "clean" /\ joining_thread[u] # t => state[u] = "DEAD"
           /\ joining_thread[u] = t =>
                  \/ state[t] = "JOINING"
                  \/ state[t] = "READY" /\ pc[u] \in {"exit3", "exit4", "gone"}
                  \/ state[t] = "RUNNING" /\ pc[u] \in LastExit

\* the thread u is joined by waits for it, until u is done with it and freed
Joined(u) ==
    joining_thread[u] # NULL =>
        /\ joining_thread[u] # u
        /\ Live(u) \/ pc[u] \notin LastExit =>
               /\ pc[joining_thread[u]] \in {"wait3", "clean"}
               /\ target[joining_thread[u]] = u

\* the children of t
Parent(t) ==
    /\ Distinct(children[t])
    /\ t # idle[0] => Range(children[t]) \subseteq Workers
    /\ \A u \in Workers : u \in Range(children[t]) => ptid[u] = t /\ Live(u)

\* the parent of u
Child(u) ==
    Live(u) =>
        /\ ptid[u] \in Threads /\ ptid[u] # u
        /\ \/ u \in Range(children[ptid[u]])
           \/ pc[init] \in WaitLabels /\ target[init] = u
        /\ ptid[u] = Creator[u] \/ pc[Creator[u]] \in LateExit

MainLives == pc[init] = "main" => Live(main)

Count == thread_count = Cardinality({t \in Threads : Live(t)})

\* with one CPU, memory that is freed is not in use
Freed(t) ==
    Cardinality(CPUs) = 1 /\ state[t] = "FREED" => ~ Running(t) /\ t \notin Range(zombies)

\* The inductive invariant.
Inv ==
    /\ Types /\ Tables /\ ZombieTable
    /\ \A t \in Threads : Placed(t)
    /\ \A u, t \in Threads : Waker(u, t)
    /\ \A t \in Threads : Stands(t) /\ Roles(t)
    /\ \A t \in Threads : Joiner(t) /\ Joined(t)
    /\ \A t \in Threads : Parent(t)
    /\ \A u \in Workers : Child(u)
    /\ MainLives /\ Count
    /\ \A t \in Threads : Freed(t)
-----------------------------------------------------------------------------
\* The workers, INIT and the idle threads are different threads; each has a CPU.
LEMMA ThreadSets ==
    /\ Workers \subseteq Threads /\ init \in Threads /\ Idles \subseteq Threads
    /\ \A t \in Threads : t \in Workers \/ t = init \/ t \in Idles
    /\ init \notin Workers /\ init \notin Idles /\ \A t \in Workers : t \notin Idles
    /\ NULL \notin Threads /\ 0 \in CPUs
    /\ \A t \in Threads : Home(t) \in CPUs
    /\ \A t \in Workers : Home(t) = Affinity[t]
    /\ \A c \in CPUs : idle[c] \in Idles /\ Home(idle[c]) = c
  <1>1. /\ Workers \subseteq Threads /\ init \in Threads /\ Idles \subseteq Threads
        /\ \A t \in Threads : t \in Workers \/ t = init \/ t \in Idles
        /\ init \notin Workers /\ init \notin Idles /\ \A t \in Workers : t \notin Idles
        /\ NULL \notin Threads
    BY Zenon, SchedulerAssumption DEF Threads
  <1>2. 0 \in CPUs
    BY Zenon, SchedulerAssumption
  <1>3. \A c \in CPUs : idle[c] \in Idles
    BY Zenon DEF Idles
  <1>4. \A t \in Workers : Home(t) = Affinity[t] /\ Affinity[t] \in CPUs
    BY Zenon, SchedulerAssumption DEF Home
  <1>5. Home(init) = 0
    BY Zenon, SchedulerAssumption DEF Home
  <1>6. ASSUME NEW c \in CPUs  PROVE Home(idle[c]) = c
    <2>1. Home(idle[c]) = CHOOSE d \in CPUs : idle[d] = idle[c]
      BY Zenon, <1>1, <1>3 DEF Home
    <2>2. \A d \in CPUs : idle[d] = idle[c] => d = c
      BY Zenon, SchedulerAssumption
    <2> QED  BY Zenon, <2>1, <2>2
  <1>7. \A t \in Idles : Home(t) \in CPUs
    BY Zenon, <1>6 DEF Idles
  <1> QED  BY Zenon, <1>1, <1>2, <1>3, <1>4, <1>5, <1>6, <1>7

\* The main thread is created by INIT, every other one by a thread.
LEMMA Creators ==
    main \in Workers /\ \A u \in Workers : Creator[u] \in Threads
  BY Zenon, SchedulerAssumption DEF Threads

\* The thread that runs is queued again, or the idle thread of the CPU is ready.
LEMMA SomethingToRun ==
    ASSUME Inv, NEW c \in CPUs
    PROVE  Preempted(c) # {} \/ idle[c] \in Range(ready[c][Lowest])
  <1>1. /\ idle[c] \in Idles /\ idle[c] \in Threads /\ Home(idle[c]) = c
        /\ idle[c] \notin Workers /\ idle[c] # init
    BY Zenon, ThreadSets
  <1>2. Placed(idle[c]) /\ Roles(idle[c]) /\ \A u \in Threads : Waker(u, idle[c])
    BY Zenon, <1>1 DEF Inv
  <1>3. CASE state[idle[c]] = "RUNNING"
    <2>1. active[c] = idle[c]
      BY Zenon, <1>1, <1>2, <1>3 DEF Placed, Running
    <2> QED  BY Zenon, <1>3, <2>1 DEF Preempted
  <1>4. CASE state[idle[c]] = "READY"
    BY Zenon, <1>1, <1>2, <1>4 DEF Placed, Waker, Roles
  <1> QED  BY Zenon, <1>1, <1>2, <1>3, <1>4 DEF Roles
-----------------------------------------------------------------------------
(* What a call leaves alone *)

\* A call moves nothing between the tables, and the threads whose state or
\* priority it changes are in none.
LEMMA TablesKept ==
    ASSUME Inv, UNCHANGED tables,
           \A t \in Threads :
               \/ state'[t] = state[t] /\ priority'[t] = priority[t]
               \/ state[t] \notin {"READY", "SLEEPING"}
    PROVE  Tables'
  <1>0. active' = active /\ ready' = ready /\ sleeping' = sleeping
    BY Zenon DEF tables
  <1>1. ASSUME NEW c \in CPUs, NEW p \in Prios  PROVE ReadyTable(c, p)'
    <2>1. ReadyTable(c, p) /\ ready[c][p] \in Seq(Threads)
      BY Zenon DEF Inv, Tables, Types
    <2>2. \A t \in Range(ready[c][p]) : t \in Threads
      BY <2>1 DEF Range
    <2> QED  BY Zenon, <1>0, <2>1, <2>2 DEF ReadyTable
  <1>2. ASSUME NEW c \in CPUs  PROVE SleepingTable(c)' /\ Home(active'[c]) = c
    <2>1. SleepingTable(c) /\ sleeping[c] \in Seq(Threads) /\ Home(active[c]) = c
      BY Zenon DEF Inv, Tables, Types
    <2>2. \A t \in Range(sleeping[c]) : t \in Threads
      BY <2>1 DEF Range
    <2> QED  BY Zenon, <1>0, <2>1, <2>2 DEF SleepingTable
  <1> QED  BY Zenon, <1>1, <1>2 DEF Tables

\* The same for the places of the threads.
LEMMA PlacedKept ==
    ASSUME Inv, UNCHANGED tables,
           \A u, t \in Threads : Wakes(u, t) => Wakes(u, t)',
           \A t \in Threads :
               \/ state'[t] = state[t] /\ priority'[t] = priority[t]
               \/ Running(t) /\ state'[t] # "READY"
               \/ state'[t] \notin {"READY", "SLEEPING", "RUNNING"}
               \/ \E u \in Threads : Wakes(u, t)'
                  /\ state'[t] = "READY"
    PROVE  \A t \in Threads : Placed(t)'
  <1>0. active' = active /\ ready' = ready /\ sleeping' = sleeping
    BY Zenon DEF tables
  <1> SUFFICES ASSUME NEW t \in Threads  PROVE Placed(t)'
    BY Zenon
  <1>1. Placed(t)
    BY Zenon DEF Inv
  <1> QED  BY Zenon, <1>0, <1>1 DEF Placed, Running

\* Nobody new is about to push a thread.
LEMMA WakersKept ==
    ASSUME Inv, UNCHANGED tables,
           \A u, t \in Threads : Wakes(u, t)' => Wakes(u, t),
           \A t \in Threads :
               \/ state'[t] = state[t] /\ priority'[t] = priority[t]
               \/ state[t] # "READY"
    PROVE  \A u, t \in Threads : Waker(u, t)'
  <1>0. ready' = ready
    BY Zenon DEF tables
  <1> SUFFICES ASSUME NEW u \in Threads, NEW t \in Threads  PROVE Waker(u, t)'
    BY Zenon
  <1>1. Waker(u, t)
    BY Zenon DEF Inv
  <1> QED  BY Zenon, <1>0, <1>1 DEF Waker

\* Threads that wait for another stay where they are, and so does what they
\* wait for.
LEMMA JoinsKept ==
    ASSUME Inv, joining_thread' = joining_thread,
           \A t \in Threads :
               /\ pc[t] \in WaitLabels \/ pc'[t] \in WaitLabels =>
                      /\ pc'[t] = pc[t] /\ target'[t] = target[t] /\ state'[t] = state[t]
                      /\ ptid'[target[t]] = ptid[target[t]]
                      /\ t # init /\ target[t] \in Range(children[t]) =>
                             target[t] \in Range(children'[t])
               /\ Live(t) => Live(t)'
               /\ state[t] = "DEAD" => state'[t] = "DEAD"
               /\ pc[t] \in {"exit3", "exit4", "gone"} => pc'[t] \in {"exit3", "exit4", "gone"}
               /\ pc[t] \in LastExit => pc'[t] \in LastExit
               /\ Live(t)' \/ pc'[t] \notin LastExit =>
                      \/ Live(t) \/ pc[t] \notin LastExit
                      \/ joining_thread[t] = NULL
    PROVE  \A t \in Threads : Joiner(t)' /\ Joined(t)'
  <1> SUFFICES ASSUME NEW t \in Threads  PROVE Joiner(t)' /\ Joined(t)'
    BY Zenon
  <1>1. Joiner(t)'
    <2> SUFFICES ASSUME pc'[t] \in WaitLabels  PROVE Joiner(t)'
      BY Zenon DEF Joiner
    <2>1. /\ pc[t] \in WaitLabels /\ Joiner(t)
          /\ pc'[t] = pc[t] /\ target'[t] = target[t] /\ state'[t] = state[t]
      BY Zenon DEF Inv
    <2>2. PICK u \in Workers : u = target[t]
      BY Zenon, <2>1 DEF Joiner
    <2>3. u \in Threads
      BY Zenon, ThreadSets
    <2>4. \A v \in Threads : pc'[v] \in WaitLabels /\ target'[v] = u => v = t
      BY Zenon, <2>1, <2>2 DEF Joiner
    <2> QED  BY <2>1, <2>2, <2>3, <2>4 DEF Joiner
  <1>2. Joined(t)'
    <2>1. Joined(t) /\ (joining_thread[t] # NULL => joining_thread[t] \in Threads)
      BY DEF Inv, Types, MaybeThread
    <2> QED  BY Zenon, <2>1 DEF Joined, WaitLabels
  <1> QED  BY Zenon, <1>1, <1>2

\* Nobody is born, freed or given to INIT.
LEMMA FamilyKept ==
    ASSUME Inv, UNCHANGED <<ptid, children>>,
           \A t \in Threads : /\ Live(t)' <=> Live(t)
                              /\ pc[t] \in LateExit => pc'[t] \in LateExit,
           pc[init] \in WaitLabels => pc'[init] \in WaitLabels /\ target'[init] = target[init],
           pc'[init] = "main" => pc[init] = "main"
    PROVE  /\ \A t \in Threads : Parent(t)'
           /\ \A u \in Workers : Child(u)'
           /\ MainLives'
  <1>1. ASSUME NEW t \in Threads  PROVE Parent(t)'
    BY Zenon, ThreadSets DEF Inv, Parent
  <1>2. ASSUME NEW u \in Workers  PROVE Child(u)'
    <2>1. Child(u) /\ u \in Threads /\ Creator[u] \in Threads /\ init \in Threads
      BY Zenon, ThreadSets, Creators DEF Inv
    <2> QED  BY Zenon, <2>1 DEF Child
  <1>3. MainLives'
    BY Zenon, ThreadSets, Creators DEF Inv, MainLives
  <1> QED  BY Zenon, <1>1, <1>2, <1>3

\* The count of threads stays.
LEMMA CountKept ==
    ASSUME Inv, thread_count' = thread_count, \A t \in Threads : Live(t)' <=> Live(t)
    PROVE  Count'
  <1>1. {t \in Threads : Live(t)'} = {t \in Threads : Live(t)}
    BY Zenon
  <1> QED  BY Zenon, <1>1 DEF Inv, Count

\* Nothing is freed, and nothing freed is used again.
LEMMA FreedKept ==
    ASSUME Inv, active' = active, zombies' = zombies,
           \A t \in Threads : state'[t] = "FREED" => state[t] = "FREED"
    PROVE  \A t \in Threads : Freed(t)'
  BY Zenon DEF Inv, Freed, Running

\* The zombie table stays.
LEMMA ZombiesKept ==
    ASSUME Inv, zombies' = zombies,
           \A t \in Threads : pc[t] \in LateExit => pc'[t] \in LateExit
    PROVE  ZombieTable'
  <1>1. zombies \in Seq(Threads)
    BY Zenon DEF Inv, Types
  <1>2. \A t \in Range(zombies) : t \in Threads
    BY <1>1 DEF Range
  <1> QED  BY Zenon, <1>2 DEF Inv, ZombieTable
-----------------------------------------------------------------------------
(* A thread becomes ready *)

\* the thread u, new or waiting, is pushed on the ready table of its CPU and
\* priority
BecomesReady(u) ==
    /\ state[u] \in {"NONE", "READY"} /\ state'[u] = "READY"
    /\ u \notin Range(ready[Home(u)][priority[u]])
    /\ ready' = [ready EXCEPT ![Home(u)][priority[u]] = <<u>> \o @]
    /\ \A x \in Threads : x # u => state'[x] = state[x]
    /\ UNCHANGED <<active, sleeping, priority>>

\* The tables are sound after it, and hold u and what they held.
LEMMA ReadyPush ==
    ASSUME Inv, NEW u \in Threads, BecomesReady(u)
    PROVE  /\ ready' \in [CPUs -> [Prios -> Seq(Threads)]]
           /\ Tables'
           /\ u \in Range(ready'[Home(u)][priority[u]])
           /\ \A x \in Threads : x # u =>
                  (x \in Range(ready'[Home(x)][priority[x]]) <=>
                   x \in Range(ready[Home(x)][priority[x]]))
  <1>a. u \notin Range(ready[Home(u)][priority[u]]) /\ state'[u] = "READY"
    BY Zenon DEF BecomesReady
  <1>b. \A x \in Threads : state[x] = "READY" => state'[x] = "READY"
    BY Zenon DEF BecomesReady
  <1>c. \A x \in Threads : state[x] = "SLEEPING" => state'[x] = "SLEEPING"
    BY Zenon DEF BecomesReady
  <1>d. active' = active /\ sleeping' = sleeping /\ priority' = priority
    BY Zenon DEF BecomesReady
  <1>1. PICK h \in CPUs : h = Home(u)
    BY Zenon, ThreadSets
  <1>2. PICK q \in Prios : q = priority[u]
    BY Zenon DEF Inv, Types
  <1>3. PICK s : s = <<u>> \o ready[h][q]
    BY Zenon
  <1>4. ready \in [CPUs -> [Prios -> Seq(Threads)]] /\ ready[h][q] \in Seq(Threads)
    BY Zenon DEF Inv, Types
  <1>5. /\ s \in Seq(Threads) /\ Range(s) = {u} \cup Range(ready[h][q]) /\ Distinct(s)
    <2>1. Distinct(ready[h][q]) /\ u \notin Range(ready[h][q])
      BY Zenon, <1>a, <1>1, <1>2 DEF Inv, Tables, ReadyTable
    <2> QED  BY Zenon, <1>3, <1>4, <2>1, PushTable
  <1>6. ready' = [ready EXCEPT ![h] = [ready[h] EXCEPT ![q] = s]]
    BY Zenon, <1>1, <1>2, <1>3, <1>4 DEF BecomesReady
  <1>7. ready' \in [CPUs -> [Prios -> Seq(Threads)]]
    <2>1. [ready[h] EXCEPT ![q] = s] \in [Prios -> Seq(Threads)]
      BY Zenon, <1>4, <1>5
    <2> QED  BY <1>4, <1>6, <2>1, Zenon
  <1>8. /\ ready'[h][q] = s
        /\ \A c \in CPUs, p \in Prios : c # h \/ p # q => ready'[c][p] = ready[c][p]
    BY Zenon, <1>4, <1>6
  <1>9. ASSUME NEW c \in CPUs, NEW p \in Prios  PROVE ReadyTable(c, p)'
    <2>1. ReadyTable(c, p) /\ ready[c][p] \in Seq(Threads)
      BY Zenon DEF Inv, Tables, Types
    <2>2. \A x \in Range(ready[c][p]) : x \in Threads
      BY <2>1 DEF Range
    <2>3. \A x \in Range(ready[c][p]) : state'[x] = "READY" /\ priority'[x] = p /\ Home(x) = c
      BY Zenon, <1>b, <1>d, <2>1, <2>2 DEF ReadyTable
    <2>4. CASE c = h /\ p = q
      BY Zenon, <1>a, <1>d, <1>1, <1>2, <1>5, <1>8, <2>3, <2>4 DEF ReadyTable
    <2>5. CASE c # h \/ p # q
      BY Zenon, <1>8, <2>1, <2>3, <2>5 DEF ReadyTable
    <2> QED  BY Zenon, <2>4, <2>5
  <1>10. ASSUME NEW c \in CPUs  PROVE SleepingTable(c)' /\ Home(active'[c]) = c
    <2>1. SleepingTable(c) /\ sleeping[c] \in Seq(Threads) /\ Home(active[c]) = c
      BY Zenon DEF Inv, Tables, Types
    <2>2. \A x \in Range(sleeping[c]) : x \in Threads
      BY <2>1 DEF Range
    <2> QED  BY Zenon, <1>c, <1>d, <2>1, <2>2 DEF SleepingTable
  <1>11. Tables'
    BY Zenon, <1>9, <1>10 DEF Tables
  <1>12. u \in Range(ready'[Home(u)][priority[u]])
    BY Zenon, <1>1, <1>2, <1>5, <1>8
  <1>13. ASSUME NEW x \in Threads, x # u
         PROVE  x \in Range(ready'[Home(x)][priority[x]]) <=>
                x \in Range(ready[Home(x)][priority[x]])
    <2>1. Home(x) \in CPUs /\ priority[x] \in Prios
      BY Zenon, ThreadSets DEF Inv, Types
    <2>2. CASE Home(x) = h /\ priority[x] = q
      BY Zenon, <1>5, <1>8, <1>13, <2>2
    <2>3. CASE Home(x) # h \/ priority[x] # q
      BY Zenon, <1>8, <2>1, <2>3
    <2> QED  BY Zenon, <2>2, <2>3
  <1> QED  BY Zenon, <1>7, <1>11, <1>12, <1>13
-----------------------------------------------------------------------------
(* The scheduler runs *)

\* where a thread goes on after select_thread ran on CPU c
Resumes(c, x) ==
    \/ pc'[x] = pc[x]
    \/ x = active[c] /\ pc[x] = "sched" /\ pc'[x] = "run"
    \/ x = active[c] /\ pc[x] = "wait3" /\ pc'[x] = "clean"
    \/ x = active[c] /\ pc[x] = "exit4" /\ pc'[x] = "gone"

\* select_thread runs on CPU c, in the clock's interrupt or in a call of
\* sched_schedule
Switches(c, now, D, w) ==
    /\ Selects(c, now, D, w)
    /\ pc[active[c]] \notin Masked
    /\ pc' \in [Threads -> Labels]
    /\ \A x \in Threads : Resumes(c, x)
    /\ uptime' \in [CPUs -> 0 .. MaxTime]
    /\ UNCHANGED <<priority, wakeup_time, family, target, asleep>>

\* select_thread preserves the invariant.
LEMMA SelectStep ==
    ASSUME Inv, NEW c \in CPUs, NEW now, NEW D, NEW w, Switches(c, now, D, w)
    PROVE  Inv'
  <1>a. Selects(c, now, D, w) /\ pc[active[c]] \notin Masked
    BY Zenon DEF Switches
  <1>b. \A x \in Threads : Resumes(c, x)
    BY Zenon DEF Switches
  <1>c. /\ pc' \in [Threads -> Labels] /\ uptime' \in [CPUs -> 0 .. MaxTime]
        /\ UNCHANGED <<priority, wakeup_time, family, target, asleep>>
    BY Zenon DEF Switches
  <1> DEFINE R == Preempted(c)
  <1>1. /\ active[c] \in Threads /\ Home(active[c]) = c /\ w \in Threads
        /\ active \in [CPUs -> Threads] /\ state \in [Threads -> States]
        /\ \A t \in R : t = active[c] /\ state[t] = "RUNNING"
        /\ \A t \in D : t \in Threads /\ Home(t) = c /\ state[t] = "SLEEPING"
    <2>1. active[c] \in Threads /\ Home(active[c]) = c /\ sleeping[c] \in Seq(Threads)
      BY Zenon DEF Inv, Types, Tables
    <2>2. \A t \in Range(sleeping[c]) : t \in Threads /\ Home(t) = c /\ state[t] = "SLEEPING"
      BY <2>1 DEF Range, Inv, Tables, SleepingTable
    <2> QED  BY Zenon, <1>a, <1>c, <2>1, <2>2 DEF Selects, AsleepOn, Preempted, Inv, Types
  <1>2. /\ Home(w) = c
        /\ \/ w \in D /\ state[w] = "SLEEPING"
           \/ w = active[c] /\ state[w] = "RUNNING"
           \/ w \in Range(ready[c][priority[w]]) /\ state[w] = "READY"
    <2>1. w \in D \cup R \/ \E p \in Prios : w \in Range(ready[c][p])
      BY Zenon, <1>a DEF Selects
    <2>2. CASE w \in D \cup R
      BY Zenon, <1>1, <2>2
    <2>3. CASE \E p \in Prios : w \in Range(ready[c][p])
      <3>1. PICK p \in Prios : w \in Range(ready[c][p])
        BY Zenon, <2>3
      <3>2. ReadyTable(c, p)
        BY Zenon DEF Inv, Tables
      <3> QED  BY Zenon, <3>1, <3>2 DEF ReadyTable
    <2> QED  BY Zenon, <2>1, <2>2, <2>3
  <1>3. ASSUME NEW t \in Threads
        PROVE  \/ t = w /\ state'[t] = "RUNNING"
               \/ t # w /\ t \in D /\ state'[t] = "READY"
               \/ t # w /\ t = active[c] /\ state[t] = "RUNNING" /\ state'[t] = "READY"
               \/ /\ t # w /\ t \notin D /\ ~ (t = active[c] /\ state[t] = "RUNNING")
                  /\ state'[t] = state[t]
    BY Zenon, <1>a, <1>1 DEF Selects, Preempted
  <1>4. \A t \in Threads : Running(t)' <=> IF Home(t) = c THEN t = w ELSE Running(t)
    BY ZenonT(60), <1>a, <1>1, ThreadSets DEF Selects, Running
  <1>5. Types'
    BY Zenon, <1>a, <1>c DEF Inv, Types, Selects, family, States
  <1>6. ASSUME NEW d \in CPUs, NEW p \in Prios  PROVE ReadyTable(d, p)'
    <2>1. ReadyTable(d, p) /\ ReadyTable(c, p) /\ priority' = priority
      BY Zenon, <1>c DEF Inv, Tables
    <2>2. CASE d # c
      <3>1. ready'[d] = ready[d]
        BY Zenon, <1>a, <2>2 DEF Selects
      <3>2. ready[d][p] \in Seq(Threads)
        BY Zenon DEF Inv, Types
      <3>3. \A t \in Range(ready[d][p]) : t \in Threads /\ Home(t) = d /\ state[t] = "READY"
        BY <2>1, <3>2 DEF ReadyTable, Range
      <3>4. \A t \in Range(ready[d][p]) : state'[t] = "READY"
        BY Zenon, <1>1, <1>2, <1>3, <2>2, <3>3
      <3> QED  BY Zenon, <2>1, <3>1, <3>4 DEF ReadyTable
    <2>3. CASE d = c
      <3>1. /\ Distinct(ready'[c][p])
            /\ Range(ready'[c][p]) =
                   (Range(ready[c][p]) \cup {t \in D \cup R : priority[t] = p}) \ {w}
        BY Zenon, <1>a DEF Selects
      <3>2. ready[c][p] \in Seq(Threads)
        BY Zenon DEF Inv, Types
      <3>3. \A t \in Range(ready[c][p]) : /\ t \in Threads /\ Home(t) = c
                                           /\ priority[t] = p /\ state[t] = "READY"
        BY <2>1, <3>2 DEF ReadyTable, Range
      <3>4. \A t \in Range(ready'[c][p]) : state'[t] = "READY" /\ Home(t) = c /\ priority[t] = p
        BY <1>1, <1>3, <3>1, <3>3
      <3> QED  BY Zenon, <2>1, <2>3, <3>1, <3>4 DEF ReadyTable
    <2> QED  BY Zenon, <2>2, <2>3
  <1>7. ASSUME NEW d \in CPUs  PROVE SleepingTable(d)' /\ Home(active'[d]) = d
    <2>1. SleepingTable(d) /\ Home(active[d]) = d /\ sleeping[d] \in Seq(Threads)
      BY Zenon DEF Inv, Tables, Types
    <2>2. \A t \in Range(sleeping[d]) : /\ t \in Threads /\ Home(t) = d
                                        /\ state[t] = "SLEEPING" /\ t # active[d]
      BY <2>1 DEF SleepingTable, Range
    <2>3. CASE d # c
      <3>1. sleeping'[d] = sleeping[d] /\ active'[d] = active[d]
        BY Zenon, <1>a, <1>1, <2>3 DEF Selects
      <3>2. \A t \in Range(sleeping[d]) : state'[t] = "SLEEPING"
        BY Zenon, <1>1, <1>2, <1>3, <2>2, <2>3
      <3> QED  BY Zenon, <2>1, <3>1, <3>2 DEF SleepingTable
    <2>4. CASE d = c
      <3>1. Distinct(sleeping'[c]) /\ Range(sleeping'[c]) = AsleepOn(c) \ D /\ active'[c] = w
        BY Zenon, <1>a, <1>1 DEF Selects
      <3>2. \A t \in AsleepOn(c) : t \in Threads /\ Home(t) = c /\ state[t] = "SLEEPING"
        BY Zenon, <1>1, <2>2, <2>4 DEF AsleepOn
      <3>3. \A t \in AsleepOn(c) \ D : state'[t] = "SLEEPING" /\ t # w
        BY Zenon, <1>2, <1>3, <3>2
      <3> QED  BY Zenon, <1>2, <2>4, <3>1, <3>2, <3>3 DEF SleepingTable
    <2> QED  BY Zenon, <2>3, <2>4
  <1>8. Tables'
    BY Zenon, <1>6, <1>7 DEF Tables
  <1>9. ZombieTable'
    <2>1. zombies' = zombies /\ zombies \in Seq(Threads)
      BY Zenon, <1>c DEF family, Inv, Types
    <2>2. \A t \in Range(zombies) : t \in Threads
      BY <2>1 DEF Range
    <2> QED  BY Zenon, <1>b, <2>1, <2>2 DEF Inv, ZombieTable, Resumes, LateExit
  <1>10. \A u, t \in Threads : Wakes(u, t)' <=> Wakes(u, t)
    BY Zenon, <1>b, <1>c DEF Wakes, Resumes, family
  <1>11. ASSUME NEW t \in Threads
         PROVE  t \in Range(ready[Home(t)][priority[t]]) /\ t # w =>
                    t \in Range(ready'[Home(t)][priority'[t]])
    <2>1. priority'[t] = priority[t] /\ priority[t] \in Prios /\ Home(t) \in CPUs
      BY Zenon, <1>c, ThreadSets DEF Inv, Types
    <2> QED  BY Zenon, <1>a, <2>1 DEF Selects
  <1>12. ASSUME NEW t \in Threads  PROVE Placed(t)'
    <2>0. Home(t) \in CPUs /\ priority[t] \in Prios /\ priority' = priority /\ Placed(t)
      BY Zenon, <1>c, ThreadSets DEF Inv, Types
    <2>1. state'[t] = "READY" =>
              (\E u \in Threads : Wakes(u, t)') \/ t \in Range(ready'[Home(t)][priority'[t]])
      <3>1. CASE state[t] = "READY" /\ t # w
        BY Zenon, <1>10, <1>11, <2>0, <3>1 DEF Placed
      <3>2. CASE t # w /\ t \in D \cup R
        <4>1. Home(t) = c
          BY Zenon, <1>1, <3>2
        <4> QED  BY Zenon, <1>a, <2>0, <3>2, <4>1 DEF Selects
      <3> QED  BY Zenon, <1>1, <1>3, <3>1, <3>2 DEF Preempted
    <2>2. state'[t] = "SLEEPING" => Running(t)' \/ t \in Range(sleeping'[Home(t)])
      <3> SUFFICES ASSUME state'[t] = "SLEEPING"
                   PROVE  Running(t)' \/ t \in Range(sleeping'[Home(t)])
        BY Zenon
      <3>1. state[t] = "SLEEPING" /\ t \notin D /\ (Running(t) \/ t \in Range(sleeping[Home(t)]))
        BY Zenon, <1>3, <2>0 DEF Placed
      <3>2. CASE Home(t) = c
        <4>1. t \in AsleepOn(c)
          BY Zenon, <3>1, <3>2 DEF AsleepOn, Running
        <4> QED  BY Zenon, <1>a, <3>1, <3>2, <4>1 DEF Selects
      <3>3. CASE Home(t) # c
        <4>1. sleeping'[Home(t)] = sleeping[Home(t)]
          BY Zenon, <1>a, <2>0, <3>3 DEF Selects
        <4> QED  BY Zenon, <1>4, <3>1, <3>3, <4>1
      <3> QED  BY Zenon, <3>2, <3>3
    <2>3. state'[t] = "RUNNING" => Running(t)'
      BY Zenon, <1>2, <1>3, <1>4, <2>0 DEF Placed, Running
    <2> QED  BY Zenon, <2>1, <2>2, <2>3 DEF Placed
  <1>13. ASSUME NEW u \in Threads, NEW t \in Threads  PROVE Waker(u, t)'
    <2> SUFFICES ASSUME Wakes(u, t)
                 PROVE  /\ state'[t] = "READY" /\ t \in Workers \cup {init}
                        /\ t \notin Range(ready'[Home(t)][priority'[t]])
                        /\ \A v \in Threads : Wakes(v, t) => v = u
      BY Zenon, <1>10 DEF Waker
    <2>1. /\ state[t] = "READY" /\ t \in Workers \cup {init}
          /\ t \notin Range(ready[Home(t)][priority[t]])
          /\ \A v \in Threads : Wakes(v, t) => v = u
      BY Zenon DEF Inv, Waker
    <2>2. t # w /\ t \notin D \cup R /\ state'[t] = "READY"
      BY Zenon, <1>1, <1>2, <1>3, <2>1
    <2>3. priority' = priority /\ priority[t] \in Prios /\ Home(t) \in CPUs
      BY Zenon, <1>c, ThreadSets DEF Inv, Types
    <2>4. t \notin Range(ready'[Home(t)][priority[t]])
      <3>1. CASE Home(t) = c
        BY Zenon, <1>a, <2>1, <2>2, <2>3, <3>1 DEF Selects
      <3>2. CASE Home(t) # c
        BY Zenon, <1>a, <2>1, <2>3, <3>2 DEF Selects
      <3> QED  BY Zenon, <3>1, <3>2
    <2> QED  BY Zenon, <2>1, <2>2, <2>3, <2>4
  <1>14. ASSUME NEW t \in Threads
         PROVE  \/ state'[t] = state[t]
                \/ /\ state[t] \in {"SLEEPING", "RUNNING", "READY"}
                   /\ state'[t] \in {"RUNNING", "READY"}
    BY Zenon, <1>1, <1>2, <1>3
  <1>15. \A t \in Threads : Live(t)' <=> Live(t)
    BY Zenon, <1>14 DEF Live
  <1>16. /\ priority' = priority /\ target' = target /\ joining_thread' = joining_thread
         /\ ptid' = ptid /\ children' = children /\ zombies' = zombies
         /\ thread_count' = thread_count
    BY Zenon, <1>c DEF family
  <1>17. ASSUME NEW t \in Threads  PROVE Stands(t)'
    <2>1. Stands(t) /\ Resumes(c, t) /\ Stands(active[c])
      BY Zenon, <1>b, <1>1 DEF Inv
    <2>2. state'[t] = "NONE" => /\ t \in Workers /\ pc'[t] = "run" /\ ~ Running(t)'
                                /\ priority'[t] = Prio[t]
      BY Zenon, <1>b, <1>2, <1>3, <1>4, <1>16, <2>1 DEF Stands, Resumes, Running
    <2>3. Running(t)' /\ pc'[t] \in {"run", "start", "main", "reap", "next", "unlock",
                                     "wait1", "clean"} => state'[t] = "RUNNING"
      <3>1. CASE t = w
        BY Zenon, <1>3, <3>1
      <3>2. CASE t # w /\ Home(t) # c
        BY Zenon, <1>b, <1>1, <1>3, <1>4, <2>1, <3>2 DEF Stands, Resumes
      <3> QED  BY Zenon, <1>4, <3>1, <3>2
    <2>4. pc'[t] \in Masked => Running(t)'
      BY <1>a, <1>b, <1>1, <1>4, <2>1 DEF Stands, Resumes, Running, Masked
    <2>5. /\ pc'[t] = "wait2" => state'[t] = "JOINING"
          /\ pc'[t] \in ExitLabels <=> state'[t] \in {"ZOMBIE", "DEAD", "FREED"}
          /\ state'[t] = "JOINING" => pc'[t] \in {"wait2", "wait3", "clean"}
          /\ state'[t] \in {"WAITING", "SLEEPING"} => pc'[t] \in {"sched", "run"}
      BY Zenon, <1>b, <1>14, <2>1 DEF Stands, Resumes, ExitLabels
    <2> QED  BY Zenon, <2>2, <2>3, <2>4, <2>5 DEF Stands
  <1>18. ASSUME NEW t \in Threads  PROVE Roles(t)'
    <2>1. Roles(t) /\ Resumes(c, t)
      BY Zenon, <1>b DEF Inv
    <2> QED  BY Zenon, <1>b, <1>14, <1>16, <2>1 DEF Roles, Resumes
  <1>19. ASSUME NEW t \in Threads  PROVE Joiner(t)'
    <2> SUFFICES ASSUME pc'[t] \in WaitLabels  PROVE Joiner(t)'
      BY Zenon DEF Joiner
    <2>0. pc[t] \in WaitLabels /\ Joiner(t) /\ Resumes(c, t) /\ Stands(t)
      BY Zenon, <1>b DEF Resumes, WaitLabels, Inv
    <2>1. PICK u \in Workers : u = target[t]
      BY Zenon, <2>0 DEF Joiner
    <2>2. /\ u \in Workers /\ Live(u) /\ ptid[u] = t
          /\ t # init => t \in Workers /\ Creator[u] = t /\ u \in Range(children[t])
          /\ \A v \in Threads : pc[v] \in WaitLabels /\ target[v] = u => v = t
          /\ pc[t] = "wait3" => joining_thread[u] = t
          /\ pc[t] = "clean" /\ joining_thread[u] # t => state[u] = "DEAD"
          /\ joining_thread[u] = t =>
                  \/ state[t] = "JOINING"
                  \/ state[t] = "READY" /\ pc[u] \in {"exit3", "exit4", "gone"}
                  \/ state[t] = "RUNNING" /\ pc[u] \in LastExit
      BY Zenon, <2>0, <2>1 DEF Joiner
    <2>3. u \in Threads /\ Live(u)' /\ Resumes(c, u)
      BY Zenon, <1>b, <1>15, <2>2, ThreadSets
    <2>4. \A v \in Threads : pc'[v] \in WaitLabels => pc[v] \in WaitLabels
      BY Zenon, <1>b DEF Resumes, WaitLabels
    <2>5. pc'[t] = "wait3" => joining_thread[u] = t
      BY Zenon, <1>b, <2>0, <2>2 DEF Resumes
    <2>6. pc'[t] = "clean" /\ joining_thread[u] # t => state'[u] = "DEAD"
      BY Zenon, <1>b, <1>14, <2>0, <2>2, <2>3 DEF Resumes
    <2>7. joining_thread[u] = t =>
                  \/ state'[t] = "JOINING"
                  \/ state'[t] = "READY" /\ pc'[u] \in {"exit3", "exit4", "gone"}
                  \/ state'[t] = "RUNNING" /\ pc'[u] \in LastExit
      <3> SUFFICES ASSUME joining_thread[u] = t
                   PROVE  \/ state'[t] = "JOINING"
                          \/ state'[t] = "READY" /\ pc'[u] \in {"exit3", "exit4", "gone"}
                          \/ state'[t] = "RUNNING" /\ pc'[u] \in LastExit
        BY Zenon
      <3>1. CASE state[t] = "JOINING"
        BY Zenon, <1>14, <3>1
      <3>2. CASE state[t] = "READY" /\ pc[u] = "exit3"
        <4>1. Wakes(u, t)
          BY Zenon, <3>2 DEF Wakes
        <4>2. Waker(u, t)
          BY Zenon, <2>3 DEF Inv
        <4>3. t # w /\ t \notin D
          BY Zenon, <1>1, <1>2, <3>2, <4>1, <4>2 DEF Waker
        <4> QED  BY Zenon, <1>b, <1>3, <2>3, <3>2, <4>3 DEF Resumes
      <3>3. CASE state[t] \in {"READY", "RUNNING"} /\ pc[u] \in LastExit
        BY Zenon, <1>b, <1>14, <2>3, <3>3 DEF Resumes, LastExit
      <3> QED  BY Zenon, <2>2, <3>1, <3>2, <3>3 DEF LastExit
    <2> QED  BY Zenon, <1>16, <2>1, <2>2, <2>3, <2>4, <2>5, <2>6, <2>7 DEF Joiner
  <1>20. ASSUME NEW u \in Threads  PROVE Joined(u)'
    <2>1. Joined(u) /\ Resumes(c, u) /\ (Live(u)' <=> Live(u))
      BY Zenon, <1>b, <1>15 DEF Inv
    <2>2. joining_thread[u] # NULL => joining_thread[u] \in Threads /\ Resumes(c, joining_thread[u])
      BY Zenon, <1>b DEF Inv, Types, MaybeThread
    <2> QED  BY Zenon, <1>b, <1>16, <2>1, <2>2 DEF Joined, Resumes, LastExit
  <1>21. ASSUME NEW t \in Threads  PROVE Parent(t)'
    BY Zenon, <1>15, <1>16, ThreadSets DEF Inv, Parent
  <1>22. ASSUME NEW u \in Workers  PROVE Child(u)'
    <2>1. Child(u) /\ u \in Threads /\ Creator[u] \in Threads /\ init \in Threads
      BY Zenon, ThreadSets, Creators DEF Inv
    <2>2. pc[init] \in WaitLabels => pc'[init] \in WaitLabels
      BY Zenon, <1>b, <2>1 DEF Resumes, WaitLabels
    <2>3. pc[Creator[u]] \in LateExit => pc'[Creator[u]] \in LateExit
      BY Zenon, <1>b, <2>1 DEF Resumes, LateExit
    <2> QED  BY Zenon, <1>15, <1>16, <2>1, <2>2, <2>3 DEF Child
  <1>23. MainLives'
    BY Zenon, <1>b, <1>15, ThreadSets, Creators DEF Inv, MainLives, Resumes
  <1>24. Count'
    <2>1. {t \in Threads : Live(t)'} = {t \in Threads : Live(t)}
      BY Zenon, <1>15
    <2> QED  BY Zenon, <1>16, <2>1 DEF Inv, Count
  <1>25. ASSUME NEW t \in Threads  PROVE Freed(t)'
    <2>1. Freed(t)
      BY Zenon DEF Inv
    <2> QED  BY Zenon, <1>2, <1>3, <1>4, <1>16, <2>1 DEF Freed
  <1> QED  BY Zenon, <1>5, <1>8, <1>9, <1>12, <1>13, <1>17, <1>18, <1>19, <1>20, <1>21,
              <1>22, <1>23, <1>24, <1>25 DEF Inv
-----------------------------------------------------------------------------
(* What select_thread does to the tables: which threads they hold           *)
(* afterwards, and that they hold none twice.                               *)

\* The threads at some positions of a table are a table again: a fact about
\* sequences that SchedulerProofs proves.
Picks ==
    \A s \in Seq(Threads) : \A I \in SUBSET (DOMAIN s) :
        /\ SubSeqAt(s, I) \in Seq(Threads)
        /\ Range(SubSeqAt(s, I)) = {s[i] : i \in I}
        /\ Distinct(s) => Distinct(SubSeqAt(s, I))

\* Every non-empty set of natural numbers with a bound has a greatest element.
LEMMA GreatestNumber ==
    ASSUME WellOrdered, NEW T, T \subseteq Nat, T # {}, NEW b \in Nat, \A m \in T : m <= b
    PROVE  \E n \in T : \A m \in T : m <= n
  <1> DEFINE U == {b - m : m \in T}
  <1>1. U \subseteq Nat /\ U # {}
    <2>1. \A m \in T : b - m \in Nat
      OBVIOUS
    <2> QED  BY Zenon, <2>1
  <1>2. PICK u \in U : \A v \in U : u <= v
    BY Zenon, <1>1 DEF WellOrdered
  <1>3. PICK n \in T : u = b - n
    BY Zenon
  <1>4. ASSUME NEW m \in T  PROVE m <= n
    <2>1. u <= b - m
      BY Zenon, <1>2
    <2>2. m \in Nat /\ n \in Nat
      BY Zenon
    <2> HIDE DEF U
    <2> QED  BY <1>3, <2>1, <2>2
  <1> QED  BY Zenon, <1>4

\* kernel_queue_push_prio puts the thread somewhere in the table.
LEMMA InsertTable ==
    ASSUME NEW S, NEW s \in Seq(S), NEW e \in S, NEW i \in 1 .. Len(s) + 1
    PROVE  /\ InsertAt(s, i, e) \in Seq(S)
           /\ Range(InsertAt(s, i, e)) = Range(s) \cup {e}
           /\ Distinct(s) /\ e \notin Range(s) => Distinct(InsertAt(s, i, e))
  <1> DEFINE a == SubSeq(s, 1, i - 1)
             b == SubSeq(s, (i - 1) + 1, Len(s))
  <1>1. i - 1 \in 0 .. Len(s) /\ (i - 1) + 1 = i
    OBVIOUS
  <1>2. /\ a \in Seq(S) /\ b \in Seq(S) /\ Range(s) = Range(a) \cup Range(b)
        /\ Distinct(s) => Distinct(a) /\ Distinct(b) /\ Range(a) \cap Range(b) = {}
    BY Zenon, <1>1, SplitTable
  <1>3. InsertAt(s, i, e) = (a \o <<e>>) \o b
    BY Zenon, <1>1 DEF InsertAt
  <1> HIDE DEF a, b
  <1> DEFINE o == <<e>>
             m == a \o o
  <1>4. o \in Seq(S) /\ Range(o) = {e} /\ Distinct(o)
    BY Zenon, OneTable
  <1> HIDE DEF o
  <1>5. /\ m \in Seq(S) /\ Range(m) = Range(a) \cup {e}
        /\ Distinct(a) /\ e \notin Range(a) => Distinct(m)
    BY <1>2, <1>4, ConcatTable
  <1> HIDE DEF m
  <1>6. /\ m \o b \in Seq(S) /\ Range(m \o b) = Range(m) \cup Range(b)
        /\ Distinct(m) /\ Distinct(b) /\ Range(m) \cap Range(b) = {} => Distinct(m \o b)
    BY <1>2, <1>5, ConcatTable
  <1>7. InsertAt(s, i, e) = m \o b
    BY Zenon, <1>3 DEF m, o
  <1> QED  BY Zenon, <1>2, <1>5, <1>6, <1>7

\* kernel_queue_push_prio finds a place in the table.
LEMMA SleepPlace ==
    ASSUME WellOrdered, NEW S, NEW s \in Seq(S), NEW t
    PROVE  \E i \in 1 .. Len(s) + 1 :
               /\ PushSleeping(s, t) = InsertAt(s, i, t)
               /\ \A j \in 1 .. i - 1 : ~ (Key(s[j]) <= Key(t))
               /\ i <= Len(s) => Key(s[i]) <= Key(t)
  <1> DEFINE I == {i \in 1 .. Len(s) : Key(s[i]) <= Key(t)} \cup {Len(s) + 1}
             n == Min(I)
  <1>1. PushSleeping(s, t) = InsertAt(s, n, t)
    BY Zenon DEF PushSleeping
  <1>2. Len(s) \in Nat
    OBVIOUS
  <1>3. I \subseteq Nat /\ I # {}
    BY <1>2
  <1>4. n \in I /\ \A k \in I : n <= k
    <2> HIDE DEF I
    <2>1. PICK m \in I : \A k \in I : m <= k
      BY Zenon, <1>3 DEF WellOrdered
    <2> QED  BY Zenon, <2>1 DEF Min
  <1> HIDE DEF n
  <1>5. n \in 1 .. Len(s) + 1 /\ (n <= Len(s) => Key(s[n]) <= Key(t))
    BY <1>2, <1>4
  <1>6. ASSUME NEW j \in 1 .. n - 1  PROVE ~ (Key(s[j]) <= Key(t))
    <2>1. j \in 1 .. Len(s) /\ ~ (n <= j)
      BY <1>2, <1>5
    <2> QED  BY Zenon, <1>4, <2>1
  <1> QED  BY Zenon, <1>1, <1>5, <1>6

\* The sleeping thread is in the table.
LEMMA SleepTable ==
    ASSUME WellOrdered, NEW S, NEW s \in Seq(S), NEW t \in S
    PROVE  /\ PushSleeping(s, t) \in Seq(S)
           /\ Range(PushSleeping(s, t)) = Range(s) \cup {t}
           /\ Distinct(s) /\ t \notin Range(s) => Distinct(PushSleeping(s, t))
  BY SleepPlace, InsertTable

\* select_thread stops at the last thread of the table that is not due.
LEMMA LastAsleepFacts ==
    ASSUME WellOrdered, NEW S, NEW s \in Seq(S), NEW now
    PROVE  /\ LastAsleep(s, now) \in 0 .. Len(s)
           /\ LastAsleep(s, now) # 0 => wakeup_time[s[LastAsleep(s, now)]] >= now
           /\ \A i \in LastAsleep(s, now) + 1 .. Len(s) : ~ (wakeup_time[s[i]] >= now)
  <1> DEFINE I == {0} \cup {i \in 1 .. Len(s) : wakeup_time[s[i]] >= now}
             n == LastAsleep(s, now)
  <1>1. n = Max(I)
    BY Zenon DEF LastAsleep
  <1>2. Len(s) \in Nat
    OBVIOUS
  <1>3. I \subseteq Nat /\ I # {} /\ \A k \in I : k <= Len(s)
    BY <1>2
  <1> HIDE DEF n
  <1>4. n \in I /\ \A k \in I : k <= n
    <2> HIDE DEF I
    <2>1. PICK m \in I : \A k \in I : k <= m
      BY Zenon, <1>2, <1>3, GreatestNumber
    <2> QED  BY Zenon, <1>1, <2>1 DEF Max
  <1>5. n \in 0 .. Len(s) /\ (n # 0 => wakeup_time[s[n]] >= now)
    BY <1>2, <1>4
  <1>6. ASSUME NEW i \in n + 1 .. Len(s)  PROVE ~ (wakeup_time[s[i]] >= now)
    <2>1. i \in 1 .. Len(s) /\ ~ (i <= n)
      BY <1>2, <1>5
    <2> QED  BY Zenon, <1>4, <2>1
  <1> QED  BY Zenon, <1>5, <1>6 DEF n

\* The loop over the sleeping table leaves the threads up to that one.
LEMMA StillAsleepTable ==
    ASSUME WellOrdered, NEW S, NEW s \in Seq(S), NEW now
    PROVE  LET r == StillAsleep(s, now)
               rest == SubSeq(s, 1, LastAsleep(s, now))
           IN  r \in Seq(S) /\ Range(r) = Range(rest) /\ (Distinct(s) => Distinct(r))
  <1> DEFINE r == StillAsleep(s, now)
             rest == SubSeq(s, 1, LastAsleep(s, now))
  <1>1. rest \in Seq(S) /\ (Distinct(s) => Distinct(rest))
    BY Zenon, LastAsleepFacts, SplitTable
  <1>2. r = IF rest = <<>> THEN rest ELSE PushSleeping(Popped(rest), Oldest(rest))
    BY Zenon DEF StillAsleep
  <1> HIDE DEF r, rest
  <1>3. CASE rest = <<>>
    BY Zenon, <1>1, <1>2, <1>3 DEF r, rest
  <1>4. CASE rest # <<>>
    <2>1. /\ Popped(rest) \in Seq(S) /\ Oldest(rest) \in S
          /\ Range(rest) = Range(Popped(rest)) \cup {Oldest(rest)}
          /\ Distinct(rest) => Distinct(Popped(rest)) /\ Oldest(rest) \notin Range(Popped(rest))
      BY Zenon, <1>1, <1>4, PopTable
    <2>2. r = PushSleeping(Popped(rest), Oldest(rest))
      BY Zenon, <1>2, <1>4
    <2>3. /\ r \in Seq(S) /\ Range(r) = Range(Popped(rest)) \cup {Oldest(rest)}
          /\ Distinct(Popped(rest)) /\ Oldest(rest) \notin Range(Popped(rest)) => Distinct(r)
      BY <2>1, <2>2, SleepTable
    <2> QED  BY Zenon, <1>1, <2>1, <2>3 DEF r, rest
  <1> QED  BY Zenon, <1>3, <1>4
-----------------------------------------------------------------------------
\* The sleeping table once the active thread is queued in it.
LEMMA SleptTable ==
    ASSUME WellOrdered, Types, Tables, NEW c \in CPUs
    PROVE  LET slept == IF state[active[c]] = "SLEEPING"
                        THEN PushSleeping(sleeping[c], active[c]) ELSE sleeping[c]
           IN  slept \in Seq(Threads) /\ Range(slept) = AsleepOn(c) /\ Distinct(slept)
  <1> DEFINE prev == active[c]
  <1>1. /\ prev \in Threads /\ sleeping[c] \in Seq(Threads) /\ Distinct(sleeping[c])
        /\ prev \notin Range(sleeping[c])
    BY Zenon DEF Types, Tables, SleepingTable
  <1> HIDE DEF prev
  <1>2. /\ PushSleeping(sleeping[c], prev) \in Seq(Threads)
        /\ Range(PushSleeping(sleeping[c], prev)) = Range(sleeping[c]) \cup {prev}
        /\ Distinct(PushSleeping(sleeping[c], prev))
    BY <1>1, SleepTable
  <1>3. CASE state[prev] = "SLEEPING"
    BY Zenon, <1>2, <1>3 DEF AsleepOn, prev
  <1>4. CASE state[prev] # "SLEEPING"
    BY Zenon, <1>1, <1>4 DEF AsleepOn, prev
  <1> QED  BY Zenon, <1>3, <1>4

\* The ready tables once the active thread is queued in them.
LEMMA RequeueTable ==
    ASSUME Types, Tables, NEW c \in CPUs, NEW p \in Prios
    PROVE  /\ Requeue(c) \in [Prios -> Seq(Threads)]
           /\ Range(Requeue(c)[p]) =
                  Range(ready[c][p]) \cup {t \in Preempted(c) : priority[t] = p}
           /\ Distinct(Requeue(c)[p])
  <1> DEFINE t == active[c]
  <1>1. /\ t \in Threads /\ priority[t] \in Prios /\ ready[c] \in [Prios -> Seq(Threads)]
        /\ ready[c][p] \in Seq(Threads) /\ ready[c][priority[t]] \in Seq(Threads)
        /\ Distinct(ready[c][p])
    BY DEF Types, Tables, ReadyTable
  <1>2. state[t] = "RUNNING" => t \notin Range(ready[c][p])
    BY Zenon DEF Tables, ReadyTable
  <1>3. /\ <<t>> \o ready[c][priority[t]] \in Seq(Threads)
        /\ <<t>> \o ready[c][p] \in Seq(Threads)
        /\ Range(<<t>> \o ready[c][p]) = {t} \cup Range(ready[c][p])
        /\ state[t] = "RUNNING" => Distinct(<<t>> \o ready[c][p])
    BY Zenon, <1>1, <1>2, PushTable
  <1>4. Requeue(c) = IF state[t] = "RUNNING"
                     THEN [ready[c] EXCEPT ![priority[t]] = <<t>> \o ready[c][priority[t]]]
                     ELSE ready[c]
    BY Zenon DEF Requeue
  <1>5. Preempted(c) = IF state[t] = "RUNNING" THEN {t} ELSE {}
    BY Zenon DEF Preempted
  <1> HIDE DEF t
  <1> DEFINE n == <<t>> \o ready[c][priority[t]]
  <1>6. CASE state[t] # "RUNNING"
    BY Zenon, <1>1, <1>4, <1>5, <1>6
  <1>7. CASE state[t] = "RUNNING" /\ priority[t] = p
    <2> DEFINE q == <<t>> \o ready[c][p]
    <2>1. Requeue(c) = [ready[c] EXCEPT ![p] = q] /\ q \in Seq(Threads)
      BY Zenon, <1>3, <1>4, <1>7
    <2>2. Range(q) = {t} \cup Range(ready[c][p]) /\ Distinct(q)
      BY Zenon, <1>3, <1>7
    <2> HIDE DEF q
    <2>3. Requeue(c)[p] = q /\ Requeue(c) \in [Prios -> Seq(Threads)]
      BY Zenon, <1>1, <2>1
    <2>4. {u \in Preempted(c) : priority[u] = p} = {t}
      BY Zenon, <1>5, <1>7
    <2> QED  BY Zenon, <2>2, <2>3, <2>4
  <1>8. CASE state[t] = "RUNNING" /\ priority[t] # p
    <2>1. Requeue(c) = [ready[c] EXCEPT ![priority[t]] = n] /\ n \in Seq(Threads)
      BY Zenon, <1>3, <1>4, <1>8
    <2> HIDE DEF n
    <2>2. Requeue(c)[p] = ready[c][p] /\ Requeue(c) \in [Prios -> Seq(Threads)]
      BY Zenon, <1>1, <1>8, <2>1
    <2>3. {u \in Preempted(c) : priority[u] = p} = {}
      BY Zenon, <1>5, <1>8
    <2> QED  BY Zenon, <1>1, <2>2, <2>3
  <1> QED  BY Zenon, <1>6, <1>7, <1>8

\* select_thread does what Selects says, as long as the idle thread of the CPU
\* runs or is ready: the kernel does not panic for want of a thread to run.
LEMMA SelectEffect ==
    ASSUME WellOrdered, Picks, Types, Tables, NEW c \in CPUs, NEW now, Select(c, now),
           \/ Preempted(c) # {}
           \/ \E p \in Prios : Range(ready[c][p]) # {}
    PROVE  \E D, w : Selects(c, now, D, w)
  <1> DEFINE prev == active[c]
             slept == IF state[prev] = "SLEEPING"
                      THEN PushSleeping(sleeping[c], prev) ELSE sleeping[c]
             due == SubSeq(slept, LastAsleep(slept, now) + 1, Len(slept))
             at(p) == {i \in DOMAIN due : priority[due[i]] = p}
             picked(p) == SubSeqAt(due, at(p))
             queue == [p \in Prios |-> picked(p) \o Requeue(c)[p]]
             first == CHOOSE p \in Prios :
                          queue[p] # <<>> /\ \A q \in 0 .. p - 1 : queue[q] = <<>>
             w == Oldest(queue[first])
             D == Range(due)
             M(p) == Range(ready[c][p]) \cup {t \in D \cup Preempted(c) : priority[t] = p}
  <1>1. /\ slept \in Seq(Threads) /\ Range(slept) = AsleepOn(c) /\ Distinct(slept)
    BY Zenon, SleptTable
  <1>2. IF \A q \in Prios : queue[q] = <<>>
        THEN system' = "PANIC" /\ UNCHANGED <<tables, state>>
        ELSE /\ sleeping' = [sleeping EXCEPT ![c] = StillAsleep(slept, now)]
             /\ ready' = [ready EXCEPT ![c] = [queue EXCEPT ![first] = Popped(@)]]
             /\ active' = [active EXCEPT ![c] = w]
             /\ state' = [t \in Threads |->
                            CASE t = w -> "RUNNING"
                              [] t # w /\ (\/ t \in D
                                           \/ t = prev /\ state[t] = "RUNNING")
                                     -> "READY"
                              [] OTHER -> state[t]]
             /\ UNCHANGED system
    BY Zenon DEF Select
  <1>3. prev \in Threads /\ active \in [CPUs -> Threads] /\ sleeping \in [CPUs -> Seq(Threads)]
        /\ ready \in [CPUs -> [Prios -> Seq(Threads)]] /\ state \in [Threads -> States]
        /\ priority \in [Threads -> Prios]
    BY Zenon DEF Types
  <1> HIDE DEF slept
  <1>4. /\ due \in Seq(Threads) /\ Distinct(due) /\ D \subseteq AsleepOn(c)
        /\ Range(SubSeq(slept, 1, LastAsleep(slept, now))) = AsleepOn(c) \ D
        /\ \A t \in D : ~ (wakeup_time[t] >= now)
    <2> DEFINE k == LastAsleep(slept, now)
    <2>1. /\ k \in 0 .. Len(slept)
          /\ \A i \in k + 1 .. Len(slept) : ~ (wakeup_time[slept[i]] >= now)
      BY Zenon, <1>1, LastAsleepFacts
    <2> HIDE DEF k
    <2> DEFINE a == SubSeq(slept, 1, k)
               b == SubSeq(slept, k + 1, Len(slept))
    <2>2. /\ b \in Seq(Threads) /\ DOMAIN b = 1 .. Len(slept) - k
          /\ \A i \in 1 .. Len(slept) - k : b[i] = slept[i + k]
          /\ Range(slept) = Range(a) \cup Range(b)
          /\ Distinct(b) /\ Range(a) \cap Range(b) = {}
      BY <1>1, <2>1, SplitTable
    <2> HIDE DEF a, b
    <2>3. ASSUME NEW i \in DOMAIN b  PROVE ~ (wakeup_time[b[i]] >= now)
      <3>1. i + k \in k + 1 .. Len(slept)
        BY <1>1, <2>1, <2>2
      <3> QED  BY Zenon, <2>1, <2>2, <3>1
    <2>4. \A t \in Range(b) : ~ (wakeup_time[t] >= now)
      BY Zenon, <2>3 DEF Range
    <2>5. b = due
      BY Zenon DEF b, k
    <2> QED  BY Zenon, <1>1, <2>2, <2>4, <2>5 DEF a, k
  <1> HIDE DEF due
  <1>5. \A t \in D : t \in Threads /\ state[t] = "SLEEPING" /\ priority[t] \in Prios
    <2>1. \A t \in AsleepOn(c) : t \in Threads /\ state[t] = "SLEEPING"
      <3>1. \A t \in Range(sleeping[c]) : t \in Threads
        BY <1>3 DEF Range
      <3> QED  BY Zenon, <1>3, <3>1 DEF AsleepOn, Tables, SleepingTable
    <2> QED  BY Zenon, <1>3, <1>4, <2>1
  <1>6. ASSUME NEW p \in Prios
        PROVE  /\ queue[p] \in Seq(Threads) /\ Range(queue[p]) = M(p) /\ Distinct(queue[p])
               /\ \A t \in M(p) : t \in Threads /\ priority[t] = p
    <2>1. /\ Requeue(c)[p] \in Seq(Threads)
          /\ Range(Requeue(c)[p]) =
                  Range(ready[c][p]) \cup {t \in Preempted(c) : priority[t] = p}
          /\ Distinct(Requeue(c)[p])
      BY Zenon, RequeueTable
    <2>2. at(p) \in SUBSET (DOMAIN due)
      BY Zenon
    <2>3. {due[i] : i \in at(p)} = {t \in D : priority[t] = p}
      BY Zenon DEF Range
    <2> HIDE DEF at
    <2>4. /\ picked(p) \in Seq(Threads) /\ Distinct(picked(p))
          /\ Range(picked(p)) = {t \in D : priority[t] = p}
      BY Zenon, <1>4, <2>2, <2>3 DEF Picks
    <2>5. \A t \in Range(ready[c][p]) : state[t] = "READY" /\ priority[t] = p /\ t \in Threads
      <3>1. ready[c][p] \in Seq(Threads)
        BY Zenon, <1>3
      <3>2. \A t \in Range(ready[c][p]) : t \in Threads
        BY <3>1 DEF Range
      <3> QED  BY Zenon, <3>2 DEF Tables, ReadyTable
    <2>6. \A t \in Preempted(c) : state[t] = "RUNNING" /\ t \in Threads
      BY Zenon, <1>3 DEF Preempted
    <2>7. Range(picked(p)) \cap Range(Requeue(c)[p]) = {}
      BY Zenon, <1>5, <2>1, <2>4, <2>5, <2>6
    <2>8. queue[p] = picked(p) \o Requeue(c)[p]
      BY Zenon
    <2> HIDE DEF picked, queue
    <2>9. /\ queue[p] \in Seq(Threads) /\ Distinct(queue[p])
          /\ Range(queue[p]) = Range(picked(p)) \cup Range(Requeue(c)[p])
      BY <2>1, <2>4, <2>7, <2>8, ConcatTable
    <2> QED  BY Zenon, <1>5, <2>1, <2>4, <2>5, <2>6, <2>9
  <1>7. queue = [p \in Prios |-> queue[p]]
    BY Zenon
  <1> HIDE DEF queue
  <1>8. \E p \in Prios : queue[p] # <<>>
    <2>1. ASSUME NEW p \in Prios, queue[p] = <<>>  PROVE M(p) = {}
      <3>1. Range(<<>>) = {}
        BY DEF Range
      <3> HIDE DEF M
      <3> QED  BY Zenon, <1>6, <2>1, <3>1
    <2>2. \A t \in Preempted(c) : t \in Threads
      BY Zenon, <1>3 DEF Preempted
    <2>3. \E p \in Prios : M(p) # {}
      BY Zenon, <1>3, <2>2
    <2> QED  BY Zenon, <2>1, <2>3
  <1>9. first \in Prios /\ queue[first] # <<>>
    <2> DEFINE P == {p \in Prios : queue[p] # <<>>}
    <2>1. P \subseteq Nat /\ P # {}
      BY <1>8 DEF Prios
    <2>2. PICK n \in P : \A k \in P : n <= k
      BY Zenon, <2>1 DEF WellOrdered
    <2>3. ASSUME NEW q \in 0 .. n - 1  PROVE queue[q] = <<>>
      <3>1. q \in Prios /\ ~ (n <= q)
        BY SchedulerAssumption DEF Prios
      <3> QED  BY Zenon, <2>2, <3>1
    <2> QED  BY Zenon, <2>2, <2>3
  <1> HIDE DEF first
  <1>10. /\ Popped(queue[first]) \in Seq(Threads) /\ Distinct(Popped(queue[first]))
         /\ Range(Popped(queue[first])) = M(first) \ {w}
         /\ w \in M(first)
    <2>1. /\ queue[first] \in Seq(Threads) /\ queue[first] # <<>> /\ Distinct(queue[first])
          /\ Range(queue[first]) = M(first)
      BY Zenon, <1>6, <1>9
    <2> HIDE DEF M
    <2> QED  BY <2>1, PopTable
  <1> DEFINE nq == [queue EXCEPT ![first] = Popped(@)]
  <1>11. ASSUME NEW p \in Prios
         PROVE  nq[p] \in Seq(Threads) /\ Distinct(nq[p]) /\ Range(nq[p]) = M(p) \ {w}
    <2>1. CASE p = first
      <3>1. nq[p] = Popped(queue[first])
        BY Zenon, <1>7, <1>9, <2>1
      <3> QED  BY Zenon, <1>10, <2>1, <3>1
    <2>2. CASE p # first
      <3>1. nq[p] = queue[p]
        BY Zenon, <1>7, <1>9, <2>2
      <3>2. w \notin M(p)
        BY Zenon, <1>6, <1>9, <1>10, <2>2
      <3> HIDE DEF nq, M, w
      <3> QED  BY <1>6, <3>1, <3>2
    <2> QED  BY Zenon, <2>1, <2>2
  <1>12. nq \in [Prios -> Seq(Threads)]
    <2>1. nq = [p \in Prios |-> nq[p]]
      BY Zenon, <1>7
    <2> HIDE DEF nq
    <2> QED  BY Zenon, <1>11, <2>1
  <1> DEFINE ns == StillAsleep(slept, now)
  <1>13. ns \in Seq(Threads) /\ Distinct(ns) /\ Range(ns) = AsleepOn(c) \ D
    BY Zenon, <1>1, <1>4, StillAsleepTable
  <1>14. /\ sleeping' = [sleeping EXCEPT ![c] = ns] /\ ready' = [ready EXCEPT ![c] = nq]
         /\ active' = [active EXCEPT ![c] = w] /\ system' = system
         /\ state' = [t \in Threads |->
                            CASE t = w -> "RUNNING"
                              [] t # w /\ (\/ t \in D
                                           \/ t = prev /\ state[t] = "RUNNING")
                                     -> "READY"
                              [] OTHER -> state[t]]
    BY <1>2, <1>8, Zenon DEF slept, due, queue, first
  <1>15. w \in Threads /\ (w \in D \cup Preempted(c) \/ \E p \in Prios : w \in Range(ready[c][p]))
    BY Zenon, <1>6, <1>9, <1>10
  <1> HIDE DEF ns, nq, w, D, M
  <1>16. state' = [t \in Threads |-> IF t = w THEN "RUNNING"
                                    ELSE IF t \in D \cup Preempted(c) THEN "READY"
                                    ELSE state[t]]
    <2>1. \A t \in Threads : t \in Preempted(c) <=> t = prev /\ state[t] = "RUNNING"
      BY Zenon DEF Preempted
    <2> HIDE DEF prev
    <2> QED  BY Zenon, <1>14, <2>1
  <1>17. /\ sleeping' \in [CPUs -> Seq(Threads)] /\ ready' \in [CPUs -> [Prios -> Seq(Threads)]]
         /\ \A d \in CPUs \ {c} : sleeping'[d] = sleeping[d] /\ ready'[d] = ready[d]
         /\ sleeping'[c] = ns /\ ready'[c] = nq
    BY Zenon, <1>3, <1>12, <1>13, <1>14
  <1>18. \A p \in Prios : Distinct(ready'[c][p]) /\ Range(ready'[c][p]) = M(p) \ {w}
    BY Zenon, <1>11, <1>17
  <1>19. \A t \in D : ~ (wakeup_time[t] >= now)
    BY Zenon, <1>4 DEF D
  <1>20. Selects(c, now, D, w)
    BY <1>4, <1>13, <1>14, <1>15, <1>16, <1>17, <1>18, <1>19, Zenon DEF Selects, M, D
  <1> QED  BY Zenon, <1>20
-----------------------------------------------------------------------------
LEMMA TickStep ==
    ASSUME WellOrdered, Picks, Inv, NEW c \in CPUs, Tick(c)
    PROVE  Inv'
  <1> DEFINE n == IF uptime[c] + Slice <= MaxTime THEN uptime[c] + Slice ELSE uptime[c]
  <1>1. n \in 0 .. MaxTime /\ uptime \in [CPUs -> 0 .. MaxTime]
    <2>1. uptime \in [CPUs -> 0 .. MaxTime] /\ uptime[c] \in 0 .. MaxTime
      BY Zenon DEF Inv, Types
    <2> QED  BY <2>1, SchedulerAssumption
  <1>2. Select(c, n) /\ uptime' = [uptime EXCEPT ![c] = n]
    BY Zenon DEF Tick
  <1> HIDE DEF n
  <1>3. PICK D, w : Selects(c, n, D, w)
    <2>1. Lowest \in Prios
      BY SchedulerAssumption DEF Prios
    <2>2. Preempted(c) # {} \/ \E p \in Prios : Range(ready[c][p]) # {}
      BY Zenon, <2>1, SomethingToRun
    <2> QED  BY Zenon, <1>2, <2>2, SelectEffect DEF Inv
  <1>4. pc' = pc /\ pc \in [Threads -> Labels] /\ pc[active[c]] \notin Masked
    BY Zenon DEF Tick, Inv, Types
  <1>5. \A x \in Threads : Resumes(c, x)
    BY Zenon, <1>4 DEF Resumes
  <1>6. uptime' \in [CPUs -> 0 .. MaxTime]
    BY Zenon, <1>1, <1>2
  <1>7. UNCHANGED <<priority, wakeup_time, family, target, asleep>>
    BY Zenon DEF Tick
  <1>8. Switches(c, n, D, w)
    BY Zenon, <1>3, <1>4, <1>5, <1>6, <1>7 DEF Switches
  <1> QED  BY Zenon, <1>8, SelectStep

LEMMA ScheduleStep ==
    ASSUME WellOrdered, Picks, Inv, NEW t \in Threads, sched_schedule(t)
    PROVE  Inv'
  <1> DEFINE c == Home(t)
  <1>1. c \in CPUs /\ active[c] = t
    BY Zenon, ThreadSets DEF sched_schedule, At
  <1>2. PICK l \in DOMAIN Return : pc[t] = l /\ pc' = [pc EXCEPT ![t] = Return[l]]
    BY Zenon DEF sched_schedule, At, Goto
  <1>3. \/ pc[t] = "sched" /\ pc' = [pc EXCEPT ![t] = "run"]
        \/ pc[t] = "wait3" /\ pc' = [pc EXCEPT ![t] = "clean"]
        \/ pc[t] = "exit4" /\ pc' = [pc EXCEPT ![t] = "gone"]
    <2>1. DOMAIN Return = {"sched", "wait3", "exit4"}
      BY Zenon DEF Return
    <2>2. Return["sched"] = "run" /\ Return["wait3"] = "clean" /\ Return["exit4"] = "gone"
      BY Zenon DEF Return
    <2> QED  BY Zenon, <1>2, <2>1, <2>2
  <1>4. PICK D, w : Selects(c, uptime[c], D, w)
    <2>1. Lowest \in Prios
      BY SchedulerAssumption DEF Prios
    <2>2. Preempted(c) # {} \/ \E p \in Prios : Range(ready[c][p]) # {}
      BY Zenon, <1>1, <2>1, SomethingToRun
    <2>3. Select(c, uptime[c])
      BY Zenon DEF sched_schedule
    <2> QED  BY Zenon, <1>1, <2>2, <2>3, SelectEffect DEF Inv
  <1>5. pc \in [Threads -> Labels] /\ pc' \in [Threads -> Labels] /\ pc[active[c]] \notin Masked
    BY ZenonT(60), <1>1, <1>3 DEF Inv, Types, Labels, Masked
  <1>6. \A x \in Threads : Resumes(c, x)
    BY Zenon, <1>1, <1>3, <1>5 DEF Resumes
  <1>7. uptime' \in [CPUs -> 0 .. MaxTime]
    BY Zenon DEF sched_schedule, Inv, Types
  <1>8. UNCHANGED <<priority, wakeup_time, family, target, asleep>>
    BY Zenon DEF sched_schedule
  <1>9. Switches(c, uptime[c], D, w)
    BY Zenon, <1>4, <1>5, <1>6, <1>7, <1>8 DEF Switches
  <1> QED  BY Zenon, <1>1, <1>9, SelectStep
-----------------------------------------------------------------------------
\* sched_init establishes it.
LEMMA InitInv ==
    ASSUME Cardinality(Idles \cup {init}) = Cardinality(CPUs) + 1, Init
    PROVE  Inv
  <1>1. /\ \A t \in Workers : t \in Threads /\ t \notin Idles /\ t # init /\ t # idle[0]
        /\ init \in Threads /\ init # idle[0]
        /\ \A t \in Idles : t \in Threads /\ t \notin Workers /\ t # init
        /\ \A t \in Threads : t \in Workers \/ t = init \/ t \in Idles
        /\ 0 \in CPUs /\ 0 \in Prios /\ Lowest \in Prios
    BY ThreadSets, SchedulerAssumption DEF Prios
  <1>2. \A t \in Workers : state[t] = "NONE" /\ priority[t] = Prio[t] /\ pc[t] = "run"
    BY Zenon, <1>1 DEF Init
  <1>3. state[init] = "READY" /\ priority[init] = 0 /\ pc[init] = "start"
    BY Zenon, <1>1 DEF Init
  <1>4. \A t \in Idles : state[t] = "RUNNING" /\ priority[t] = Lowest /\ pc[t] = "run"
    BY Zenon, <1>1 DEF Init
  <1>5. /\ \A t \in Threads : joining_thread[t] = NULL /\ target[t] = NULL
        /\ \A t \in Threads : children[t] = IF t = idle[0] THEN <<init>> ELSE <<>>
        /\ active = idle /\ \A c \in CPUs : sleeping[c] = <<>>
        /\ \A c \in CPUs, p \in Prios : ready[c][p] = IF c = 0 /\ p = 0 THEN <<init>> ELSE <<>>
        /\ zombies = <<>> /\ thread_count = Cardinality(CPUs) + 1
    BY Zenon DEF Init
  <1>6. Range(<<>>) = {} /\ Distinct(<<>>) /\ Range(<<init>>) = {init} /\ Distinct(<<init>>)
    BY <1>1, OneTable DEF Range, Distinct
  <1>7. <<>> \in Seq(Threads) /\ <<init>> \in Seq(Threads)
    BY <1>1
  <1>8. Types
    <2>1. state \in [Threads -> States] /\ pc \in [Threads -> Labels]
      BY Zenon, <1>1 DEF Init, States, Labels
    <2>2. priority \in [Threads -> Prios]
      BY Zenon, <1>1, SchedulerAssumption DEF Init
    <2>3. wakeup_time \in [Threads -> 0 .. Word64 - 1] /\ uptime \in [CPUs -> 0 .. MaxTime]
      BY SchedulerAssumption DEF Init
    <2>4. /\ ptid \in [Threads -> MaybeThread] /\ joining_thread \in [Threads -> MaybeThread]
          /\ target \in [Threads -> MaybeThread] /\ asleep \in [Threads -> Nat \X Nat]
          /\ system \in {"RUNNING", "HALTED", "PANIC"}
      <3>1. idle[0] \in Threads
        BY Zenon, ThreadSets
      <3> QED  BY Zenon, <3>1 DEF Init, MaybeThread
    <2>5. /\ children \in [Threads -> Seq(Threads)] /\ sleeping \in [CPUs -> Seq(Threads)]
          /\ zombies \in Seq(Threads)
      BY Zenon, <1>7 DEF Init
    <2>6. ready \in [CPUs -> [Prios -> Seq(Threads)]]
      BY Zenon, <1>7 DEF Init
    <2>7. active \in [CPUs -> Threads]
      BY Zenon, <1>1, SchedulerAssumption DEF Init
    <2> QED  BY Zenon, <2>1, <2>2, <2>3, <2>4, <2>5, <2>6, <2>7 DEF Types
  <1>9. Home(init) = 0 /\ \A c \in CPUs : Home(idle[c]) = c /\ idle[c] \in Idles
    BY Zenon, ThreadSets, SchedulerAssumption DEF Home
  <1>10. Tables
    <2>1. ASSUME NEW c \in CPUs, NEW p \in Prios  PROVE ReadyTable(c, p)
      <3>1. CASE c = 0 /\ p = 0
        <4>1. ready[c][p] = <<init>>
          BY Zenon, <1>5, <3>1
        <4> QED  BY Zenon, <1>3, <1>6, <1>9, <3>1, <4>1 DEF ReadyTable
      <3>2. CASE ~ (c = 0 /\ p = 0)
        <4>1. ready[c][p] = <<>>
          BY Zenon, <1>5, <3>2
        <4> QED  BY Zenon, <1>6, <4>1 DEF ReadyTable
      <3> QED  BY Zenon, <3>1, <3>2
    <2>2. ASSUME NEW c \in CPUs  PROVE SleepingTable(c) /\ Home(active[c]) = c
      BY Zenon, <1>5, <1>6, <1>9 DEF SleepingTable
    <2> QED  BY Zenon, <2>1, <2>2 DEF Tables
  <1>11. \A t \in Idles : Running(t)
    BY <1>5, <1>9 DEF Idles, Running
  <1>12. ~ Running(init) /\ \A t \in Workers : ~ Running(t)
    <2>1. \A t \in Threads : Home(t) \in CPUs
      BY Zenon, ThreadSets
    <2>2. \A c \in CPUs : active[c] \in Idles
      BY Zenon, <1>5, <1>9
    <2> QED  BY Zenon, <1>1, <2>1, <2>2 DEF Running
  <1>13. ASSUME NEW t \in Threads  PROVE Placed(t)
    <2>1. ready[0][0] = <<init>>
      BY Zenon, <1>1, <1>5
    <2>2. init \in Range(ready[Home(init)][priority[init]])
      BY Zenon, <1>3, <1>6, <1>9, <2>1
    <2> QED  BY Zenon, <1>1, <1>2, <1>3, <1>4, <1>11, <2>2 DEF Placed
  <1>14. ASSUME NEW t \in Threads
         PROVE  /\ pc[t] \in {"run", "start"} /\ (pc[t] = "start" => t = init)
                /\ Stands(t) /\ Roles(t) /\ Joiner(t) /\ Joined(t) /\ Freed(t)
    <2>1. /\ pc[t] \in {"run", "start"} /\ pc[t] = "start" => t = init
      BY Zenon, <1>1, <1>2, <1>3, <1>4
    <2>2. state[t] \in {"NONE", "READY", "RUNNING"} /\ (Running(t) => state[t] = "RUNNING")
          /\ (state[t] = "NONE" => t \in Workers /\ ~ Running(t) /\ priority[t] = Prio[t] /\ pc[t] = "run")
      BY Zenon, <1>1, <1>2, <1>3, <1>4, <1>12
    <2>3. Stands(t)
      BY Zenon, <1>1, <1>2, <1>3, <1>4, <2>2 DEF Stands, Masked, ExitLabels
    <2>4. Roles(t)
      BY Zenon, <1>1, <1>2, <1>3, <1>4 DEF Roles
    <2>5. Joiner(t) /\ Joined(t) /\ Freed(t)
      BY Zenon, <1>1, <1>2, <1>3, <1>4, <1>5, <2>2 DEF Joiner, Joined, Freed, WaitLabels
    <2> QED  BY Zenon, <1>1, <1>2, <1>3, <1>4, <2>3, <2>4, <2>5
  <1>15. \A u, t \in Threads : Waker(u, t)
    BY Zenon, <1>14 DEF Waker, Wakes
  <1>16. ASSUME NEW t \in Threads  PROVE Parent(t)
    <2>1. CASE t = idle[0]
      BY Zenon, <1>1, <1>5, <1>6, <2>1 DEF Parent
    <2>2. CASE t # idle[0]
      BY Zenon, <1>5, <1>6, <2>2 DEF Parent
    <2> QED  BY Zenon, <2>1, <2>2
  <1>17. \A u \in Workers : Child(u)
    BY Zenon, <1>2 DEF Child, Live
  <1>18. MainLives /\ ZombieTable
    BY Zenon, <1>3, <1>5, <1>6 DEF MainLives, ZombieTable
  <1>19. Count
    <2>1. {t \in Threads : Live(t)} = Idles \cup {init}
      BY Zenon, <1>1, <1>2, <1>3, <1>4 DEF Live
    <2> QED  BY Zenon, <1>5, <2>1 DEF Count
  <1> QED  BY <1>8, <1>10, <1>13, <1>14, <1>15, <1>16, <1>17, <1>18, <1>19 DEF Inv
=============================================================================
