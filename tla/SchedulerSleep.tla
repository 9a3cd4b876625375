--------------------------- MODULE SchedulerSleep ---------------------------
(***************************************************************************)
(* The sleeping tables of Scheduler stay sorted, select_thread wakes the   *)
(* threads that are due and no others, and a thread's node is linked in    *)
(* one table at most.                                                      *)
(*                                                                         *)
(* The loop of select_thread stops at the first thread that is not due:    *)
(* that it wakes everybody who is needs that the table is sorted, which    *)
(* needs that the 32-bit keys order the threads as their wake-up times do. *)
(* NoWrap says for how long that is so.                                    *)
(***************************************************************************)
EXTENDS SchedulerInvariant
-----------------------------------------------------------------------------
(* The sleeping tables *)

\* the threads of the table s are due from its tail on
Sorted(s) ==
    \A i, j \in DOMAIN s : i < j => wakeup_time[s[i]] >= wakeup_time[s[j]]

\* What the uptime stays below, and the shortest sleep: no wake-up time is cut
\* to the 32 bits of its key, and none lies before the boot.
NoWrap ==
    /\ Word32 <= Word64
    /\ \A ms \in Sleeps : Slice <= ms /\ MaxTime + ms < Word32

\* a wake-up time is its own key, and of a thread that sleeps it is what it
\* asked for, less a slice; time passes in slices
WakeTimes ==
    /\ \A t \in Threads : wakeup_time[t] < Word32
    /\ \A t \in Threads : state[t] = "SLEEPING" =>
           wakeup_time[t] = asleep[t][1] + asleep[t][2] - Slice
    /\ \A c \in CPUs : \E k \in Nat : uptime[c] = k * Slice
    /\ \A t \in Threads : \E k \in Nat : asleep[t][1] = k * Slice

Sleepers == SleepingSorted /\ WakeTimes

\* the table r is the table s with e at position i
Inserted(r, s, i, e) ==
    /\ DOMAIN r = 1 .. Len(s) + 1
    /\ \A j \in 1 .. i - 1 : r[j] = s[j]
    /\ r[i] = e
    /\ \A j \in i + 1 .. Len(s) + 1 : r[j] = s[j - 1]

\* kernel_queue_push_prio: where the threads of the table are afterwards.
LEMMA InsertPlaces ==
    ASSUME NEW S, NEW s \in Seq(S), NEW e \in S, NEW i \in 1 .. Len(s) + 1
    PROVE  Inserted(InsertAt(s, i, e), s, i, e)
  <1> DEFINE a == SubSeq(s, 1, i - 1)
             b == SubSeq(s, (i - 1) + 1, Len(s))
             r == InsertAt(s, i, e)
  <1>0. Len(s) \in Nat /\ i \in Nat
    OBVIOUS
  <1>1. i - 1 \in 0 .. Len(s) /\ (i - 1) + 1 = i
    OBVIOUS
  <1>2. /\ a \in Seq(S) /\ Len(a) = i - 1 /\ \A j \in 1 .. i - 1 : a[j] = s[j]
        /\ b \in Seq(S) /\ Len(b) = Len(s) - (i - 1)
        /\ \A j \in 1 .. Len(s) - (i - 1) : b[j] = s[j + (i - 1)]
    BY <1>1, SplitTable
  <1>3. r = (a \o <<e>>) \o b
    BY Zenon, <1>1 DEF InsertAt
  <1> HIDE DEF a, b, r
  <1> DEFINE m == a \o <<e>>
  <1>4. /\ m \in Seq(S) /\ Len(m) = i /\ m[i] = e
        /\ \A j \in 1 .. i - 1 : m[j] = a[j]
    BY <1>0, <1>2
  <1>5. r = m \o b
    BY Zenon, <1>3
  <1> HIDE DEF m
  <1>6. /\ r \in Seq(S) /\ Len(r) = Len(m) + Len(b)
        /\ \A j \in 1 .. Len(m) : r[j] = m[j]
        /\ \A j \in 1 .. Len(b) : r[j + Len(m)] = b[j]
    <2>1. m \in Seq(S) /\ b \in Seq(S)
      BY Zenon, <1>2, <1>4
    <2> QED  BY <1>5, <2>1
  <1>7. DOMAIN r = 1 .. Len(s) + 1
    BY <1>0, <1>2, <1>4, <1>6
  <1>8. ASSUME NEW j \in i + 1 .. Len(s) + 1  PROVE r[j] = s[j - 1]
    <2>1. /\ j - i \in 1 .. Len(b) /\ (j - i) + Len(m) = j
          /\ j - i \in 1 .. Len(s) - (i - 1) /\ (j - i) + (i - 1) = j - 1
      BY <1>0, <1>2, <1>4
    <2>2. r[(j - i) + Len(m)] = b[j - i] /\ b[j - i] = s[(j - i) + (i - 1)]
      BY Zenon, <1>2, <1>6, <2>1
    <2> QED  BY Zenon, <2>1, <2>2
  <1>9. r[i] = e /\ \A j \in 1 .. i - 1 : r[j] = s[j]
    <2>1. i \in 1 .. Len(m) /\ \A j \in 1 .. i - 1 : j \in 1 .. Len(m)
      BY <1>0, <1>4
    <2> QED  BY Zenon, <1>2, <1>4, <1>6, <2>1
  <1> QED  BY Zenon, <1>7, <1>8, <1>9 DEF r, Inserted

\* kernel_queue_push_prio keeps the table sorted.
LEMMA SortedPush ==
    ASSUME WellOrdered, wakeup_time \in [Threads -> Nat],
           \A t \in Threads : Key(t) = wakeup_time[t],
           NEW s \in Seq(Threads), Sorted(s), NEW t \in Threads
    PROVE  Sorted(PushSleeping(s, t))
  <1> DEFINE r == PushSleeping(s, t)
             w(j) == wakeup_time[s[j]]
  <1>1. PICK i \in 1 .. Len(s) + 1 :
            /\ r = InsertAt(s, i, t)
            /\ \A j \in 1 .. i - 1 : ~ (Key(s[j]) <= Key(t))
            /\ i <= Len(s) => Key(s[i]) <= Key(t)
    BY Zenon, SleepPlace
  <1>0. Len(s) \in Nat /\ i \in Nat /\ DOMAIN s = 1 .. Len(s)
    OBVIOUS
  <1>2. /\ DOMAIN r = 1 .. Len(s) + 1
        /\ \A j \in 1 .. i - 1 : r[j] = s[j]
        /\ r[i] = t
        /\ \A j \in i + 1 .. Len(s) + 1 : r[j] = s[j - 1]
    <2>1. Inserted(r, s, i, t)
      BY Zenon, <1>1, InsertPlaces
    <2> HIDE DEF r
    <2> QED  BY Zenon, <2>1 DEF Inserted
  <1>3. /\ \A j \in 1 .. Len(s) : w(j) \in Nat /\ Key(s[j]) = w(j)
        /\ wakeup_time[t] \in Nat /\ Key(t) = wakeup_time[t]
    <2>1. \A j \in 1 .. Len(s) : s[j] \in Threads
      OBVIOUS
    <2> QED  BY Zenon, <2>1
  <1> HIDE DEF r, w
  <1>4. \A j \in 1 .. Len(s), k \in 1 .. Len(s) : j < k => w(j) >= w(k)
    BY Zenon, <1>0 DEF Sorted, w
  <1>5. ASSUME NEW j \in 1 .. i - 1  PROVE j \in 1 .. Len(s) /\ w(j) >= wakeup_time[t]
    <2>1. j \in 1 .. Len(s)
      BY <1>0
    <2>2. ~ (Key(s[j]) <= Key(t))
      BY Zenon, <1>1
    <2> QED  BY <1>3, <2>1, <2>2
  <1>6. ASSUME NEW j \in i .. Len(s)  PROVE wakeup_time[t] >= w(j)
    <2>1. i \in 1 .. Len(s) /\ j \in 1 .. Len(s) /\ i <= Len(s) /\ (i = j \/ i < j)
      BY <1>0
    <2>2. w(i) <= wakeup_time[t]
      BY Zenon, <1>1, <1>3, <2>1
    <2>3. i < j => w(i) >= w(j)
      BY Zenon, <1>4, <2>1
    <2>4. w(i) \in Nat /\ w(j) \in Nat
      BY Zenon, <1>3, <2>1
    <2> QED  BY <1>3, <2>1, <2>2, <2>3, <2>4
  <1> DEFINE v(j) == wakeup_time[r[j]]
  <1>7. /\ \A j \in 1 .. i - 1 : v(j) = w(j)
        /\ v(i) = wakeup_time[t]
        /\ \A j \in i + 1 .. Len(s) + 1 : v(j) = w(j - 1)
    BY Zenon, <1>2 DEF w
  <1> HIDE DEF v
  <1>8. ASSUME NEW j \in 1 .. Len(s) + 1, NEW k \in 1 .. Len(s) + 1, j < k
        PROVE  v(j) >= v(k)
    <2>1. CASE k < i
      <3>1. j \in 1 .. i - 1 /\ k \in 1 .. i - 1 /\ j \in 1 .. Len(s) /\ k \in 1 .. Len(s)
        BY <1>0, <1>8, <2>1
      <3> QED  BY Zenon, <1>4, <1>7, <1>8, <3>1
    <2>2. CASE k = i
      <3>1. j \in 1 .. i - 1
        BY <1>0, <1>8, <2>2
      <3> QED  BY Zenon, <1>5, <1>7, <2>2, <3>1
    <2>3. CASE k > i /\ j = i
      <3>1. k \in i + 1 .. Len(s) + 1 /\ k - 1 \in i .. Len(s)
        BY <1>0, <2>3
      <3> QED  BY Zenon, <1>6, <1>7, <2>3, <3>1
    <2>4. CASE k > i /\ j > i
      <3>1. /\ j \in i + 1 .. Len(s) + 1 /\ k \in i + 1 .. Len(s) + 1
            /\ j - 1 \in 1 .. Len(s) /\ k - 1 \in 1 .. Len(s) /\ j - 1 < k - 1
        BY <1>0, <1>8, <2>4
      <3> QED  BY Zenon, <1>4, <1>7, <3>1
    <2>5. CASE k > i /\ j < i
      <3>1. /\ j \in 1 .. i - 1 /\ k \in i + 1 .. Len(s) + 1 /\ k - 1 \in i .. Len(s)
            /\ j \in 1 .. Len(s) /\ k - 1 \in 1 .. Len(s) /\ j < k - 1
        BY <1>0, <1>8, <2>5
      <3>2. w(j) >= w(k - 1)
        BY Zenon, <1>4, <3>1
      <3> QED  BY Zenon, <1>7, <3>1, <3>2
    <2> QED  BY <1>0, <1>8, <2>1, <2>2, <2>3, <2>4, <2>5
  <1>9. Sorted(r)
    BY Zenon, <1>2, <1>8 DEF Sorted, v
  <1> QED  BY Zenon, <1>9 DEF r

\* The loop of select_thread leaves the table sorted and nobody in it who is due.
LEMMA SortedStill ==
    ASSUME WellOrdered, wakeup_time \in [Threads -> Nat],
           \A t \in Threads : Key(t) = wakeup_time[t],
           NEW s \in Seq(Threads), Sorted(s), NEW now \in Nat
    PROVE  /\ Sorted(StillAsleep(s, now))
           /\ \A t \in Range(StillAsleep(s, now)) : wakeup_time[t] >= now
  <1> DEFINE k == LastAsleep(s, now)
             rest == SubSeq(s, 1, k)
             r == StillAsleep(s, now)
  <1>1. k \in 0 .. Len(s) /\ (k # 0 => wakeup_time[s[k]] >= now)
    BY Zenon, LastAsleepFacts
  <1>2. r \in Seq(Threads) /\ Range(r) = Range(rest)
    BY Zenon, StillAsleepTable
  <1>3. r = IF rest = <<>> THEN rest ELSE PushSleeping(Popped(rest), Oldest(rest))
    BY Zenon DEF StillAsleep
  <1> HIDE DEF k
  <1>4. /\ rest \in Seq(Threads) /\ Len(rest) = k /\ DOMAIN rest = 1 .. k
        /\ \A i \in 1 .. k : rest[i] = s[i]
    BY <1>1, SplitTable
  <1>5. Len(s) \in Nat /\ k \in Nat /\ k <= Len(s) /\ DOMAIN s = 1 .. Len(s)
    BY <1>1
  <1> HIDE DEF rest, r
  <1>6. \A i, j \in 1 .. k : i < j => wakeup_time[rest[i]] >= wakeup_time[rest[j]]
    <2>1. \A i \in 1 .. k : i \in DOMAIN s
      BY <1>5
    <2> QED  BY Zenon, <1>4, <2>1 DEF Sorted
  <1>7. Sorted(rest)
    BY Zenon, <1>4, <1>6 DEF Sorted
  <1>8. ASSUME NEW i \in 1 .. k  PROVE wakeup_time[rest[i]] >= now
    <2>1. k \in 1 .. k /\ k # 0 /\ (i = k \/ i < k)
      BY <1>5
    <2>2. wakeup_time[rest[k]] >= now
      BY Zenon, <1>1, <1>4, <2>1
    <2>3. wakeup_time[rest[k]] \in Nat /\ wakeup_time[rest[i]] \in Nat
      BY <1>4, <2>1
    <2>4. i < k => wakeup_time[rest[i]] >= wakeup_time[rest[k]]
      BY Zenon, <1>6, <2>1
    <2> QED  BY <2>1, <2>2, <2>3, <2>4
  <1>9. \A t \in Range(r) : wakeup_time[t] >= now
    BY Zenon, <1>2, <1>4, <1>8 DEF Range
  <1>10. Sorted(r)
    <2>1. CASE rest = <<>>
      BY Zenon, <1>3, <1>7, <2>1
    <2>2. CASE rest # <<>>
      <3>1. Popped(rest) \in Seq(Threads) /\ Oldest(rest) \in Threads
        BY Zenon, <1>4, <2>2, PopTable
      <3>2. k \in 1 .. k /\ k - 1 \in 0 .. Len(rest)
        BY <1>4, <1>5, <2>2
      <3>3. Popped(rest) = SubSeq(rest, 1, k - 1)
        BY Zenon, <1>4 DEF Popped
      <3>4. /\ DOMAIN Popped(rest) = 1 .. k - 1
            /\ \A i \in 1 .. k - 1 : Popped(rest)[i] = rest[i]
        BY <1>4, <3>2, <3>3, SplitTable
      <3>5. \A i \in 1 .. k - 1 : i \in 1 .. k
        BY <1>5
      <3>6. Sorted(Popped(rest))
        BY Zenon, <1>6, <3>4, <3>5 DEF Sorted
      <3>7. r = PushSleeping(Popped(rest), Oldest(rest))
        BY Zenon, <1>3, <2>2
      <3> QED  BY Zenon, <3>1, <3>6, <3>7, SortedPush
    <2> QED  BY Zenon, <2>1, <2>2
  <1> QED  BY Zenon, <1>9, <1>10 DEF r
-----------------------------------------------------------------------------
\* What the invariants say of wake-up times.
LEMMA WakeKeys ==
    ASSUME Types, WakeTimes
    PROVE  /\ wakeup_time \in [Threads -> Nat]
           /\ \A t \in Threads : Key(t) = wakeup_time[t]
  <1>1. wakeup_time \in [Threads -> 0 .. Word64 - 1] /\ Word64 \in Nat /\ Word32 \in Nat \ {0}
    BY Zenon, SchedulerAssumption DEF Types
  <1>2. wakeup_time \in [Threads -> Nat]
    BY <1>1
  <1>3. ASSUME NEW t \in Threads  PROVE Key(t) = wakeup_time[t]
    <2>1. wakeup_time[t] \in Nat /\ wakeup_time[t] < Word32
      BY Zenon, <1>2 DEF WakeTimes
    <2>2. \A n \in Nat, w \in Nat \ {0} : n < w => n % w = n
      OBVIOUS
    <2> QED  BY Zenon, <1>1, <2>1, <2>2 DEF Key
  <1> QED  BY Zenon, <1>2, <1>3

\* select_thread leaves the sleeping table of its CPU sorted and, when it puts
\* another thread on the CPU, without one that is due.
LEMMA SelectSorted ==
    ASSUME WellOrdered, Types, Tables, Sleepers, NEW c \in CPUs, NEW now \in Nat,
           Select(c, now)
    PROVE  /\ \A d \in CPUs \ {c} : sleeping'[d] = sleeping[d] /\ active'[d] = active[d]
           /\ Sorted(sleeping'[c])
           /\ \/ active'[c] = active[c] /\ sleeping'[c] = sleeping[c]
              \/ \A t \in Range(sleeping'[c]) : wakeup_time[t] >= now
  <1> DEFINE prev == active[c]
             slept == IF state[prev] = "SLEEPING"
                      THEN PushSleeping(sleeping[c], prev) ELSE sleeping[c]
  <1>1. /\ wakeup_time \in [Threads -> Nat]
        /\ \A t \in Threads : Key(t) = wakeup_time[t]
    BY Zenon, WakeKeys DEF Sleepers
  <1>2. /\ prev \in Threads /\ sleeping[c] \in Seq(Threads)
        /\ sleeping \in [CPUs -> Seq(Threads)] /\ active \in [CPUs -> Threads]
    BY Zenon DEF Types
  <1>3. \/ UNCHANGED <<active, sleeping>>
        \/ /\ sleeping' = [sleeping EXCEPT ![c] = StillAsleep(slept, now)]
           /\ \E w : active' = [active EXCEPT ![c] = w]
    BY Zenon DEF Select, tables
  <1>4. Sorted(sleeping[c])
    BY Zenon DEF Sleepers, SleepingSorted, Sorted
  <1> HIDE DEF prev
  <1>5. slept \in Seq(Threads) /\ Sorted(slept)
    <2>1. PushSleeping(sleeping[c], prev) \in Seq(Threads)
      BY Zenon, <1>2, SleepTable
    <2>2. Sorted(PushSleeping(sleeping[c], prev))
      BY Zenon, <1>1, <1>2, <1>4, SortedPush
    <2> QED  BY Zenon, <1>2, <1>4, <2>1, <2>2
  <1> HIDE DEF slept
  <1> DEFINE r == StillAsleep(slept, now)
  <1>6. Sorted(r) /\ \A t \in Range(r) : wakeup_time[t] >= now
    BY Zenon, <1>1, <1>5, SortedStill
  <1> HIDE DEF r
  <1>7. CASE UNCHANGED <<active, sleeping>>
    BY Zenon, <1>4, <1>7
  <1>8. CASE sleeping' = [sleeping EXCEPT ![c] = r] /\ \E w : active' = [active EXCEPT ![c] = w]
    BY Zenon, <1>2, <1>6, <1>8
  <1> QED  BY Zenon, <1>3, <1>7, <1>8 DEF r

\* select_thread wakes nobody who is not due, and nobody from another CPU.
LEMMA SelectWakes ==
    ASSUME Types, Tables, NEW c \in CPUs, NEW now, NEW D, NEW w, Selects(c, now, D, w),
           NEW t \in Threads
    PROVE  /\ state[t] = "SLEEPING" /\ state'[t] # "SLEEPING" =>
                  Home(t) = c /\ ~ (wakeup_time[t] >= now)
           /\ state'[t] = "SLEEPING" => state[t] = "SLEEPING"
  <1>1. /\ D \subseteq AsleepOn(c) /\ \A u \in D : ~ (wakeup_time[u] >= now)
        /\ w \in D \cup Preempted(c) \/ \E p \in Prios : w \in Range(ready[c][p])
        /\ state' = [u \in Threads |-> IF u = w THEN "RUNNING"
                                       ELSE IF u \in D \cup Preempted(c) THEN "READY"
                                       ELSE state[u]]
    BY Zenon DEF Selects
  <1>2. state'[t] = IF t = w THEN "RUNNING" ELSE IF t \in D \cup Preempted(c) THEN "READY"
                    ELSE state[t]
    BY Zenon, <1>1
  <1>3. \A u \in Preempted(c) : state[u] = "RUNNING"
    BY Zenon DEF Preempted
  <1>4. \A p \in Prios : \A u \in Range(ready[c][p]) : state[u] = "READY"
    BY Zenon DEF Tables, ReadyTable
  <1>5. \A u \in AsleepOn(c) : Home(u) = c
    BY Zenon DEF AsleepOn, Tables, SleepingTable
  <1>6. ASSUME state[t] = "SLEEPING", state'[t] # "SLEEPING"  PROVE t \in D
    BY Zenon, <1>1, <1>2, <1>3, <1>4, <1>6
  <1> QED  BY Zenon, <1>1, <1>2, <1>5, <1>6
-----------------------------------------------------------------------------
\* the steps of SleepsAtLeast and of NobodyOversleeps
NotTooSoon ==
    \A t \in Threads :
        state[t] = "SLEEPING" /\ state'[t] # "SLEEPING" =>
            \/ uptime'[Home(t)] >= asleep[t][1] + asleep[t][2]
            \/ /\ asleep[t][2] % Slice # 0
               /\ uptime'[Home(t)] + Slice > asleep[t][1] + asleep[t][2]

NotTooLate ==
    \A c \in CPUs : active'[c] # active[c] =>
        \A t \in Range(sleeping'[c]) : wakeup_time[t] >= uptime'[c]

\* Time passes in slices: a sleep of whole slices that is over but for less
\* than one is over.
LEMMA WholeSlices ==
    ASSUME NEW S \in Nat \ {0}, NEW j \in Nat, NEW k \in Nat, NEW ms \in Nat,
           ~ (j * S + ms - S >= k * S)
    PROVE  k * S >= j * S + ms \/ (ms % S # 0 /\ k * S + S > j * S + ms)
  <1>1. j * S \in Nat /\ k * S \in Nat
    OBVIOUS
  <1>2. k * S + S > j * S + ms
    BY <1>1
  <1>3. ASSUME ms % S = 0  PROVE k * S >= j * S + ms
    <2>1. PICK q \in Nat : ms = q * S
      <3> DEFINE d == ms \div S
      <3>1. ms = S * d + (ms % S) /\ d \in Nat
        OBVIOUS
      <3> HIDE DEF d
      <3>2. ms = d * S
        BY <1>3, <3>1
      <3> QED  BY Zenon, <3>1, <3>2
    <2>2. (k + 1) * S > (j + q) * S
      BY <1>2, <2>1
    <2>3. k + 1 > j + q
      BY <2>2
    <2>4. k >= j + q
      BY <2>3
    <2>5. k * S >= (j + q) * S
      BY <2>4
    <2> QED  BY <2>1, <2>5
  <1> QED  BY Zenon, <1>2, <1>3

\* what a step leaves alone that neither chooses a thread nor puts one to sleep
Elsewhere ==
    /\ UNCHANGED <<active, sleeping, uptime, wakeup_time, asleep>>
    /\ \A t \in Threads : state'[t] = "SLEEPING" <=> state[t] = "SLEEPING"

\* Such a step wakes nobody and keeps the sleeping tables sorted.
LEMMA ElsewhereSleeps ==
    ASSUME Sleepers, Elsewhere
    PROVE  Sleepers' /\ NotTooSoon /\ NotTooLate
  <1>1. SleepingSorted'
    BY Zenon DEF Sleepers, SleepingSorted, Elsewhere
  <1>2. WakeTimes'
    BY Zenon DEF Sleepers, WakeTimes, Elsewhere
  <1>3. NotTooSoon /\ NotTooLate
    BY Zenon DEF NotTooSoon, NotTooLate, Elsewhere
  <1> QED  BY Zenon, <1>1, <1>2, <1>3 DEF Sleepers

\* A step that runs select_thread.
LEMMA SelectSleeps ==
    ASSUME WellOrdered, Inv, Sleepers, NEW c \in CPUs, NEW now \in Nat,
           Select(c, now), \E D, w : Selects(c, now, D, w),
           uptime' = [uptime EXCEPT ![c] = now], \E k \in Nat : now = k * Slice,
           UNCHANGED <<wakeup_time, asleep>>
    PROVE  Sleepers' /\ NotTooSoon /\ NotTooLate
  <1>1. PICK D, w : Selects(c, now, D, w)
    BY Zenon
  <1>2. Types /\ Tables /\ WakeTimes
    BY Zenon DEF Inv, Sleepers
  <1>3. /\ \A d \in CPUs \ {c} : sleeping'[d] = sleeping[d] /\ active'[d] = active[d]
        /\ Sorted(sleeping'[c])
        /\ \/ active'[c] = active[c] /\ sleeping'[c] = sleeping[c]
           \/ \A t \in Range(sleeping'[c]) : wakeup_time[t] >= now
    BY Zenon, <1>2, SelectSorted
  <1>4. \A t \in Threads :
            /\ state[t] = "SLEEPING" /\ state'[t] # "SLEEPING" =>
                   Home(t) = c /\ ~ (wakeup_time[t] >= now)
            /\ state'[t] = "SLEEPING" => state[t] = "SLEEPING"
    BY Zenon, <1>1, <1>2, SelectWakes
  <1>5. uptime'[c] = now /\ \A d \in CPUs \ {c} : uptime'[d] = uptime[d]
    BY Zenon, <1>2 DEF Types
  <1>6. SleepingSorted'
    <2>1. ASSUME NEW d \in CPUs  PROVE Sorted(sleeping'[d])
      <3>1. CASE d = c
        BY Zenon, <1>3, <3>1
      <3>2. CASE d # c
        BY Zenon, <1>3, <3>2 DEF Sleepers, SleepingSorted, Sorted
      <3> QED  BY Zenon, <3>1, <3>2
    <2> QED  BY Zenon, <2>1 DEF SleepingSorted, Sorted
  <1>7. WakeTimes'
    <2>1. \A d \in CPUs : \E k \in Nat : uptime'[d] = k * Slice
      BY Zenon, <1>2, <1>5 DEF WakeTimes
    <2>2. /\ \A t \in Threads : wakeup_time'[t] < Word32
          /\ \A t \in Threads : state'[t] = "SLEEPING" =>
                 wakeup_time'[t] = asleep'[t][1] + asleep'[t][2] - Slice
          /\ \A t \in Threads : \E k \in Nat : asleep'[t][1] = k * Slice
      BY Zenon, <1>2, <1>4 DEF WakeTimes
    <2> QED  BY Zenon, <2>1, <2>2 DEF WakeTimes
  <1>8. NotTooSoon
    <2> SUFFICES ASSUME NEW t \in Threads, state[t] = "SLEEPING", state'[t] # "SLEEPING"
                 PROVE  \/ uptime'[Home(t)] >= asleep[t][1] + asleep[t][2]
                        \/ /\ asleep[t][2] % Slice # 0
                           /\ uptime'[Home(t)] + Slice > asleep[t][1] + asleep[t][2]
      BY Zenon DEF NotTooSoon
    <2>1. Home(t) = c /\ ~ (wakeup_time[t] >= now) /\ uptime'[Home(t)] = now
      BY Zenon, <1>4, <1>5
    <2>2. wakeup_time[t] = asleep[t][1] + asleep[t][2] - Slice
      BY Zenon, <1>2 DEF WakeTimes
    <2>3. PICK j \in Nat : asleep[t][1] = j * Slice
      BY Zenon, <1>2 DEF WakeTimes
    <2>4. PICK k \in Nat : now = k * Slice
      BY Zenon
    <2>5. asleep[t][2] \in Nat /\ Slice \in Nat \ {0}
      BY Zenon, <1>2, SchedulerAssumption DEF Types
    <2>6. ~ (j * Slice + asleep[t][2] - Slice >= k * Slice)
      BY Zenon, <2>1, <2>2, <2>3, <2>4
    <2>7. \/ k * Slice >= j * Slice + asleep[t][2]
          \/ asleep[t][2] % Slice # 0 /\ k * Slice + Slice > j * Slice + asleep[t][2]
      BY Zenon, <2>5, <2>6, WholeSlices
    <2> QED  BY Zenon, <2>1, <2>3, <2>4, <2>7
  <1>9. NotTooLate
    BY Zenon, <1>3, <1>5 DEF NotTooLate
  <1> QED  BY Zenon, <1>6, <1>7, <1>8, <1>9 DEF Sleepers
-----------------------------------------------------------------------------
LEMMA TickSleeps ==
    ASSUME WellOrdered, Picks, Inv, Sleepers, NEW c \in CPUs, Tick(c)
    PROVE  Sleepers' /\ NotTooSoon /\ NotTooLate
  <1> DEFINE n == IF uptime[c] + Slice <= MaxTime THEN uptime[c] + Slice ELSE uptime[c]
  <1>1. uptime[c] \in Nat /\ Slice \in Nat
    <2>1. uptime \in [CPUs -> 0 .. MaxTime] /\ MaxTime \in Nat
      BY Zenon, SchedulerAssumption DEF Inv, Types
    <2> QED  BY <2>1, SchedulerAssumption
  <1>2. PICK k \in Nat : uptime[c] = k * Slice
    BY Zenon DEF Sleepers, WakeTimes
  <1>3. uptime[c] + Slice = (k + 1) * Slice /\ k + 1 \in Nat
    BY <1>1, <1>2
  <1>4. n \in Nat /\ \E i \in Nat : n = i * Slice
    <2>1. uptime[c] + Slice \in Nat
      BY <1>1
    <2> QED  BY Zenon, <1>1, <1>2, <1>3, <2>1
  <1>5. Select(c, n) /\ uptime' = [uptime EXCEPT ![c] = n] /\ UNCHANGED <<wakeup_time, asleep>>
    BY Zenon DEF Tick
  <1> HIDE DEF n
  <1>6. \E D, w : Selects(c, n, D, w)
    <2>1. Lowest \in Prios
      BY SchedulerAssumption DEF Prios
    <2>2. Preempted(c) # {} \/ \E p \in Prios : Range(ready[c][p]) # {}
      BY Zenon, <2>1, SomethingToRun
    <2> QED  BY Zenon, <1>5, <2>2, SelectEffect DEF Inv
  <1> QED  BY Zenon, <1>4, <1>5, <1>6, SelectSleeps

LEMMA ScheduleSleeps ==
    ASSUME WellOrdered, Picks, Inv, Sleepers, NEW t \in Threads, sched_schedule(t)
    PROVE  Sleepers' /\ NotTooSoon /\ NotTooLate
  <1> DEFINE c == Home(t)
             n == uptime[c]
  <1>1. c \in CPUs
    BY Zenon, ThreadSets
  <1>2. Select(c, n) /\ uptime' = uptime /\ UNCHANGED <<wakeup_time, asleep>>
    BY Zenon DEF sched_schedule
  <1> HIDE DEF c
  <1>3. n \in Nat /\ uptime' = [uptime EXCEPT ![c] = n]
    <2>1. uptime \in [CPUs -> 0 .. MaxTime] /\ MaxTime \in Nat
      BY Zenon, SchedulerAssumption DEF Inv, Types
    <2> QED  BY <1>1, <1>2, <2>1
  <1>4. \E k \in Nat : n = k * Slice
    BY Zenon, <1>1 DEF Sleepers, WakeTimes
  <1>5. \E D, w : Selects(c, n, D, w)
    <2>1. Lowest \in Prios
      BY SchedulerAssumption DEF Prios
    <2>2. Preempted(c) # {} \/ \E p \in Prios : Range(ready[c][p]) # {}
      BY Zenon, <1>1, <2>1, SomethingToRun
    <2> QED  BY Zenon, <1>1, <1>2, <2>2, SelectEffect DEF Inv
  <1> QED  BY Zenon, <1>1, <1>2, <1>3, <1>4, <1>5, SelectSleeps

\* sched_sleep: the wake-up time is what it should be, and the thread is in no
\* sleeping table yet.
LEMMA SleepSleeps ==
    ASSUME NoWrap, Inv, Sleepers, NEW t \in Workers, NEW ms \in Sleeps, sched_sleep(t, ms)
    PROVE  Sleepers' /\ NotTooSoon /\ NotTooLate
  <1> DEFINE now == uptime[Home(t)]
             v == (now + ms + Word64 - Slice) % Word64
  <1>1. /\ wakeup_time' = [wakeup_time EXCEPT ![t] = v]
        /\ asleep' = [asleep EXCEPT ![t] = <<now, ms>>]
        /\ state' = [state EXCEPT ![t] = "SLEEPING"]
        /\ UNCHANGED <<active, sleeping, uptime>>
    BY Zenon DEF sched_sleep, tables
  <1>2. t \in Threads /\ Home(t) \in CPUs
    BY Zenon, ThreadSets
  <1>3. /\ state \in [Threads -> States] /\ asleep \in [Threads -> Nat \X Nat]
        /\ wakeup_time \in [Threads -> 0 .. Word64 - 1] /\ sleeping \in [CPUs -> Seq(Threads)]
    BY Zenon DEF Inv, Types
  <1>4. now \in 0 .. MaxTime /\ MaxTime \in Nat
    BY Zenon, <1>2, SchedulerAssumption DEF Inv, Types
  <1>5. state[t] = "RUNNING"
    BY Zenon, <1>2 DEF Inv, Stands, sched_sleep, Call, At, Running
  <1>6. PICK k \in Nat : now = k * Slice
    BY Zenon, <1>2 DEF Sleepers, WakeTimes
  <1>7. v = now + ms - Slice /\ v < Word32
    <2>1. /\ Slice \in Nat \ {0} /\ Word64 \in Nat /\ Word32 \in Nat /\ ms \in Nat
          /\ Slice <= ms /\ MaxTime + ms < Word32 /\ Word32 <= Word64
      BY Zenon, SchedulerAssumption DEF NoWrap
    <2> HIDE DEF now
    <2> DEFINE x == now + ms - Slice
    <2>2. x \in Nat /\ x < Word32 /\ x < Word64 /\ now + ms + Word64 - Slice = x + Word64
      BY <1>4, <2>1
    <2> HIDE DEF x
    <2>3. (x + Word64) % Word64 = x
      BY <2>1, <2>2
    <2> QED  BY Zenon, <2>2, <2>3 DEF x
  <1> HIDE DEF v, now
  <1>8. /\ wakeup_time'[t] = v /\ asleep'[t] = <<now, ms>>
        /\ \A u \in Threads : u # t =>
               /\ wakeup_time'[u] = wakeup_time[u] /\ asleep'[u] = asleep[u]
               /\ state'[u] = state[u]
    BY Zenon, <1>1, <1>2, <1>3
  <1>9. \A u \in Threads : state[u] = "SLEEPING" => u # t /\ state'[u] = "SLEEPING"
    BY Zenon, <1>5, <1>8
  <1>10. WakeTimes'
    <2>1. \A u \in Threads : wakeup_time'[u] < Word32
      BY Zenon, <1>7, <1>8 DEF Sleepers, WakeTimes
    <2>2. asleep'[t][1] = now /\ asleep'[t][2] = ms
      BY <1>8
    <2>3. \A u \in Threads : state'[u] = "SLEEPING" =>
              wakeup_time'[u] = asleep'[u][1] + asleep'[u][2] - Slice
      BY Zenon, <1>7, <1>8, <2>2 DEF Sleepers, WakeTimes
    <2>4. \A u \in Threads : \E i \in Nat : asleep'[u][1] = i * Slice
      <3>1. ASSUME NEW u \in Threads, u # t  PROVE \E i \in Nat : asleep'[u][1] = i * Slice
        <4>1. asleep'[u] = asleep[u]
          BY Zenon, <1>8, <3>1
        <4>2. PICK i \in Nat : asleep[u][1] = i * Slice
          BY Zenon DEF Sleepers, WakeTimes
        <4> QED  BY Zenon, <4>1, <4>2
      <3>2. asleep'[t][1] = k * Slice
        BY Zenon, <1>6, <2>2
      <3> QED  BY Zenon, <3>1, <3>2
    <2>5. \A d \in CPUs : \E i \in Nat : uptime'[d] = i * Slice
      BY Zenon, <1>1 DEF Sleepers, WakeTimes
    <2> QED  BY Zenon, <2>1, <2>3, <2>4, <2>5 DEF WakeTimes
  <1>11. SleepingSorted'
    <2> SUFFICES ASSUME NEW c \in CPUs, NEW i \in DOMAIN sleeping'[c],
                        NEW j \in DOMAIN sleeping'[c], i < j
                 PROVE  wakeup_time'[sleeping'[c][i]] >= wakeup_time'[sleeping'[c][j]]
      BY Zenon DEF SleepingSorted
    <2>1. i \in DOMAIN sleeping[c] /\ j \in DOMAIN sleeping[c] /\ sleeping' = sleeping
      BY Zenon, <1>1
    <2>2. wakeup_time[sleeping[c][i]] >= wakeup_time[sleeping[c][j]]
      BY Zenon, <2>1 DEF Sleepers, SleepingSorted
    <2>3. sleeping[c][i] \in Threads /\ sleeping[c][j] \in Threads
      BY <1>3, <2>1
    <2>4. \A u \in Range(sleeping[c]) : state[u] = "SLEEPING"
      BY Zenon DEF Inv, Tables, SleepingTable
    <2>5. sleeping[c][i] # t /\ sleeping[c][j] # t
      BY Zenon, <1>5, <2>1, <2>4 DEF Range
    <2> QED  BY Zenon, <1>8, <2>1, <2>2, <2>3, <2>5
  <1>12. NotTooSoon /\ NotTooLate
    BY Zenon, <1>1, <1>9 DEF NotTooSoon, NotTooLate
  <1> QED  BY Zenon, <1>10, <1>11, <1>12 DEF Sleepers

\* A step that changes the state of one thread, which does not sleep.
LEMMA OneState ==
    ASSUME Inv, NEW x, NEW v, x \in Threads => state[x] # "SLEEPING", v # "SLEEPING",
           state' = [state EXCEPT ![x] = v]
    PROVE  \A t \in Threads : state'[t] = "SLEEPING" <=> state[t] = "SLEEPING"
  <1>1. state \in [Threads -> States]
    BY Zenon DEF Inv, Types
  <1> QED  BY Zenon, <1>1

\* sched_create_kernel_thread, by user code and by INIT.
LEMMA SpawnElsewhere ==
    ASSUME Inv, NEW t, NEW u, Spawn(t, u)
    PROVE  Elsewhere
  <1>1. state[u] = "NONE" /\ state' = [state EXCEPT ![u] = "READY"]
        /\ UNCHANGED <<active, sleeping, uptime, wakeup_time, asleep>>
    BY Zenon DEF Spawn
  <1>2. state[u] # "SLEEPING" /\ "READY" # "SLEEPING"
    BY Zenon, <1>1
  <1> QED  BY Zenon, <1>1, <1>2, OneState DEF Elsewhere

\* The beginning of sched_wait_thread, by user code and by INIT.
LEMMA WaitElsewhere ==
    ASSUME Inv, NEW t, NEW u, StartWait(t, u)
    PROVE  Elsewhere
  <1>1. /\ \/ state[u] = "ZOMBIE" /\ state' = [state EXCEPT ![u] = "DEAD"]
           \/ state' = state
        /\ UNCHANGED <<active, sleeping, uptime, wakeup_time, asleep>>
    BY Zenon DEF StartWait, tables
  <1>2. "ZOMBIE" # "SLEEPING" /\ "DEAD" # "SLEEPING"
    BY Zenon
  <1>3. CASE state[u] = "ZOMBIE" /\ state' = [state EXCEPT ![u] = "DEAD"]
    <2>1. state[u] # "SLEEPING"
      BY Zenon, <1>3
    <2> QED  BY Zenon, <1>1, <1>2, <1>3, <2>1, OneState DEF Elsewhere
  <1> QED  BY Zenon, <1>1, <1>3 DEF Elsewhere

\* A thread that runs and dies, blocks or joins.
LEMMA RunningElsewhere ==
    ASSUME Inv, NEW t \in Threads, NEW v, v # "SLEEPING", Running(t),
           pc[t] \in {"run", "wait1", "reap", "next"},
           state' = [state EXCEPT ![t] = v],
           UNCHANGED <<active, sleeping, uptime, wakeup_time, asleep>>
    PROVE  Elsewhere
  <1>1. state[t] # "SLEEPING"
    BY Zenon DEF Inv, Stands
  <1> QED  BY Zenon, <1>1, OneState DEF Elsewhere

\* The calls of user code.
LEMMA CallsElsewhere ==
    ASSUME Inv, NEW t \in Workers, NEW u \in Workers, NEW p \in Prios,
           \/ sched_create_kernel_thread(t, u) \/ sched_unlock_thread(t, u)
           \/ sched_wait_thread(t, u) \/ sched_set_priority(t, p)
           \/ sched_lock_thread(t) \/ thread_exit(t)
    PROVE  Elsewhere
  <1>1. t \in Threads /\ "READY" # "SLEEPING" /\ "WAITING" # "SLEEPING" /\ "ZOMBIE" # "SLEEPING"
    BY Zenon, ThreadSets
  <1>2. CASE sched_create_kernel_thread(t, u)
    BY Zenon, <1>2, SpawnElsewhere DEF sched_create_kernel_thread
  <1>3. CASE sched_unlock_thread(t, u)
    <2>1. /\ state[u] = "WAITING" /\ state' = [state EXCEPT ![u] = "READY"]
          /\ UNCHANGED <<active, sleeping, uptime, wakeup_time, asleep>>
      BY Zenon, <1>3 DEF sched_unlock_thread, tables
    <2>2. state[u] # "SLEEPING"
      BY Zenon, <2>1
    <2> QED  BY Zenon, <1>1, <2>1, <2>2, OneState DEF Elsewhere
  <1>4. CASE sched_wait_thread(t, u)
    BY Zenon, <1>4, WaitElsewhere DEF sched_wait_thread
  <1>5. CASE sched_set_priority(t, p)
    BY Zenon, <1>5 DEF sched_set_priority, tables, Elsewhere
  <1>6. CASE sched_lock_thread(t)
    <2>1. /\ Running(t) /\ pc[t] = "run" /\ state' = [state EXCEPT ![t] = "WAITING"]
          /\ UNCHANGED <<active, sleeping, uptime, wakeup_time, asleep>>
      BY Zenon, <1>6 DEF sched_lock_thread, Call, At, Running, tables
    <2> QED  BY Zenon, <1>1, <2>1, RunningElsewhere
  <1>7. CASE thread_exit(t)
    <2>1. /\ Running(t) /\ pc[t] = "run" /\ state' = [state EXCEPT ![t] = "ZOMBIE"]
          /\ UNCHANGED <<active, sleeping, uptime, wakeup_time, asleep>>
      BY Zenon, <1>7 DEF thread_exit, ExitState, Call, At, Running, tables
    <2> QED  BY Zenon, <1>1, <2>1, RunningElsewhere
  <1> QED  BY Zenon, <1>2, <1>3, <1>4, <1>5, <1>6, <1>7

\* The steps inside calls, and those of INIT.
LEMMA StepsElsewhere ==
    ASSUME Inv, NEW t \in Threads,
           \/ UnlockPush(t) \/ SetJoining(t) \/ RegisterJoiner(t)
           \/ sched_clean_joined_thread(t)
           \/ ExitTables(t) \/ ExitWake(t) \/ ExitPush(t)
           \/ InitStart \/ InitWait \/ InitReap \/ InitHalt
    PROVE  Elsewhere
  <1>1. /\ init \in Threads /\ "READY" # "SLEEPING" /\ "JOINING" # "SLEEPING"
        /\ "ZOMBIE" # "SLEEPING" /\ "FREED" # "SLEEPING"
    BY Zenon, ThreadSets
  <1>2. CASE UnlockPush(t) \/ RegisterJoiner(t) \/ ExitTables(t) \/ ExitPush(t)
    BY Zenon, <1>2 DEF UnlockPush, RegisterJoiner, ExitTables, ExitPush, tables, Elsewhere
  <1>3. CASE SetJoining(t)
    <2>1. /\ Running(t) /\ pc[t] = "wait1" /\ state' = [state EXCEPT ![t] = "JOINING"]
          /\ UNCHANGED <<active, sleeping, uptime, wakeup_time, asleep>>
      BY Zenon, <1>3 DEF SetJoining, At, Running, tables
    <2> QED  BY Zenon, <1>1, <2>1, RunningElsewhere
  <1>4. CASE sched_clean_joined_thread(t)
    <2> DEFINE u == target[t]
    <2>1. /\ pc[t] = "clean" /\ state' = [state EXCEPT ![u] = "FREED"]
          /\ UNCHANGED <<active, sleeping, uptime, wakeup_time, asleep>>
      BY Zenon, <1>4 DEF sched_clean_joined_thread, Clean, At, tables
    <2>2. Joiner(t) /\ Running(t) /\ Stands(t) /\ \A x \in Threads : Stands(x)
      BY Zenon, <1>4 DEF Inv, sched_clean_joined_thread, Clean, At, Running
    <2>3. u \in Workers /\ (joining_thread[u] # t => state[u] = "DEAD")
      BY Zenon, <2>1, <2>2 DEF Joiner, WaitLabels
    <2>4. joining_thread[u] = t => pc[u] \in LastExit
      BY Zenon, <2>1, <2>2 DEF Joiner, Stands, WaitLabels, LastExit
    <2>5. u \in Threads /\ Stands(u)
      BY Zenon, <2>2, <2>3, ThreadSets
    <2> HIDE DEF u
    <2>6. state[u] # "SLEEPING"
      BY Zenon, <2>3, <2>4, <2>5 DEF Stands, LastExit, ExitLabels
    <2> QED  BY Zenon, <1>1, <2>1, <2>6, OneState DEF Elsewhere
  <1>5. CASE ExitWake(t)
    <2> DEFINE j == joining_thread[t]
    <2>1. /\ \/ state[j] = "JOINING" /\ state' = [state EXCEPT ![j] = "READY"]
             \/ state' = state
          /\ UNCHANGED <<active, sleeping, uptime, wakeup_time, asleep>>
      BY Zenon, <1>5 DEF ExitWake, tables
    <2> HIDE DEF j
    <2>2. CASE state[j] = "JOINING" /\ state' = [state EXCEPT ![j] = "READY"]
      <3>1. state[j] # "SLEEPING"
        BY Zenon, <2>2
      <3> QED  BY Zenon, <1>1, <2>1, <2>2, <3>1, OneState DEF Elsewhere
    <2> QED  BY Zenon, <2>1, <2>2 DEF Elsewhere
  <1>6. CASE InitStart
    BY Zenon, <1>6, SpawnElsewhere DEF InitStart
  <1>7. CASE InitWait \/ InitReap
    BY Zenon, <1>7, WaitElsewhere DEF InitWait, InitReap
  <1>8. CASE InitHalt
    <2>1. /\ Running(init) /\ pc[init] \in {"reap", "next"}
          /\ state' = [state EXCEPT ![init] = "ZOMBIE"]
          /\ UNCHANGED <<active, sleeping, uptime, wakeup_time, asleep>>
      BY Zenon, <1>8 DEF InitHalt, ExitState, At, Running, tables
    <2>2. pc[init] \in {"run", "wait1", "reap", "next"}
      BY Zenon, <2>1
    <2> QED  BY Zenon, <1>1, <2>1, <2>2, RunningElsewhere
  <1> QED  BY Zenon, <1>2, <1>3, <1>4, <1>5, <1>6, <1>7, <1>8

\* Every step keeps the sleeping tables sorted and wakes in time.
LEMMA NextSleeps ==
    ASSUME WellOrdered, Picks, NoWrap, Inv, Sleepers, Next \/ UNCHANGED vars
    PROVE  Sleepers' /\ NotTooSoon /\ NotTooLate
  <1>0. 0 \in Prios /\ main \in Workers /\ init \in Threads
    BY SchedulerAssumption, ThreadSets DEF Prios
  <1>1. ASSUME NEW c \in CPUs, Tick(c)  PROVE Sleepers' /\ NotTooSoon /\ NotTooLate
    BY Zenon, <1>1, TickSleeps
  <1>2. ASSUME NEW t \in Threads, sched_schedule(t)
        PROVE  Sleepers' /\ NotTooSoon /\ NotTooLate
    BY Zenon, <1>2, ScheduleSleeps
  <1>3. ASSUME NEW t \in Workers, NEW ms \in Sleeps, sched_sleep(t, ms)
        PROVE  Sleepers' /\ NotTooSoon /\ NotTooLate
    BY Zenon, <1>3, SleepSleeps
  <1>4. CASE UNCHANGED vars
    <2>1. Elsewhere
      BY Zenon, <1>4 DEF vars, Elsewhere
    <2> QED  BY Zenon, <2>1, ElsewhereSleeps
  <1>5. ASSUME NEW t \in Workers, NEW u \in Workers, NEW p \in Prios,
               \/ sched_create_kernel_thread(t, u) \/ sched_unlock_thread(t, u)
               \/ sched_wait_thread(t, u) \/ sched_set_priority(t, p)
               \/ sched_lock_thread(t) \/ thread_exit(t)
        PROVE  Sleepers' /\ NotTooSoon /\ NotTooLate
    BY Zenon, <1>5, CallsElsewhere, ElsewhereSleeps
  <1>6. ASSUME NEW t \in Threads,
               \/ UnlockPush(t) \/ SetJoining(t) \/ RegisterJoiner(t)
               \/ sched_clean_joined_thread(t)
               \/ ExitTables(t) \/ ExitWake(t) \/ ExitPush(t)
               \/ InitStart \/ InitWait \/ InitReap \/ InitHalt
        PROVE  Sleepers' /\ NotTooSoon /\ NotTooLate
    BY Zenon, <1>6, StepsElsewhere, ElsewhereSleeps
  <1> HIDE DEF Sleepers, NotTooSoon, NotTooLate
  <1>7. CASE \E t \in Threads : Step(t)
    BY Zenon, <1>2, <1>6, <1>7 DEF Step
  <1>8. CASE \/ \E t, u \in Workers : \/ sched_create_kernel_thread(t, u)
                                      \/ sched_unlock_thread(t, u)
                                      \/ sched_wait_thread(t, u)
             \/ \E t \in Workers, p \in Prios : sched_set_priority(t, p)
             \/ \E t \in Workers : sched_lock_thread(t) \/ thread_exit(t)
    BY Zenon, <1>0, <1>5, <1>8
  <1>9. CASE InitStart \/ InitWait \/ InitReap \/ InitHalt
    BY Zenon, <1>0, <1>6, <1>9
  <1> QED  BY Zenon, <1>1, <1>3, <1>4, <1>7, <1>8, <1>9 DEF Next

\* Nobody sleeps at first.
LEMMA InitSleeps ==
    ASSUME Init
    PROVE  Sleepers
  <1>1. SleepingSorted
    <2>1. \A c \in CPUs : sleeping[c] = <<>>
      BY Zenon DEF Init
    <2>2. DOMAIN <<>> = {}
      OBVIOUS
    <2> QED  BY Zenon, <2>1, <2>2 DEF SleepingSorted
  <1>2. \A t \in Threads : wakeup_time[t] < Word32
    BY SchedulerAssumption DEF Init
  <1>3. \A t \in Threads : state[t] # "SLEEPING"
    BY Zenon DEF Init
  <1>4. Slice \in Nat /\ 0 = 0 * Slice
    BY SchedulerAssumption
  <1>5. \A c \in CPUs : uptime[c] = 0 * Slice
    BY Zenon, <1>4 DEF Init
  <1>6. \A t \in Threads : asleep[t][1] = 0 * Slice
    BY Zenon, <1>4 DEF Init
  <1>7. 0 \in Nat
    BY Zenon
  <1> QED  BY Zenon, <1>1, <1>2, <1>3, <1>5, <1>6, <1>7 DEF Sleepers, WakeTimes
-----------------------------------------------------------------------------
(* The links of a thread's node *)

ReadyLinks(t) ==
    {x \in CPUs \X Prios \X (1 .. Cardinality(Threads)) :
        /\ x[3] <= Len(ready[x[1]][x[2]])
        /\ ready[x[1]][x[2]][x[3]] = t}

SleepLinks(t) ==
    {x \in CPUs \X (1 .. Cardinality(Threads)) :
        x[2] <= Len(sleeping[x[1]]) /\ sleeping[x[1]][x[2]] = t}

ZombieLinks(t) == {i \in DOMAIN zombies : zombies[i] = t}

\* A node is linked in the tables that hold its thread, once in each, and the
\* state of the thread says in which.
LEMMA LinkPlaces ==
    ASSUME Inv, NEW t \in Threads
    PROVE  /\ Links(t) = Cardinality(ReadyLinks(t)) + Cardinality(SleepLinks(t))
                             + Cardinality(ZombieLinks(t))
           /\ \A x, y \in ReadyLinks(t) : x = y
           /\ \A x, y \in SleepLinks(t) : x = y
           /\ \A x, y \in ZombieLinks(t) : x = y
           /\ ReadyLinks(t) # {} => state[t] = "READY"
           /\ SleepLinks(t) # {} => state[t] = "SLEEPING"
           /\ ZombieLinks(t) # {} =>
                  state[t] \in {"ZOMBIE", "DEAD", "FREED"} /\ t \in Range(zombies)
  <1>0. Types /\ Tables /\ ZombieTable /\ Stands(t)
    BY Zenon DEF Inv
  <1>1. Links(t) = Cardinality(ReadyLinks(t)) + Cardinality(SleepLinks(t))
                       + Cardinality(ZombieLinks(t))
    BY Zenon DEF Links, ReadyLinks, SleepLinks, ZombieLinks
  <1>2. ASSUME NEW x \in ReadyLinks(t)
        PROVE  \E i \in 1 .. Cardinality(Threads) :
                   /\ x = <<Home(t), priority[t], i>>
                   /\ i \in DOMAIN ready[Home(t)][priority[t]]
                   /\ ready[Home(t)][priority[t]][i] = t
                   /\ Distinct(ready[Home(t)][priority[t]]) /\ state[t] = "READY"
    <2>1. PICK c \in CPUs, p \in Prios, i \in 1 .. Cardinality(Threads) :
              x = <<c, p, i>> /\ i <= Len(ready[c][p]) /\ ready[c][p][i] = t
      BY DEF ReadyLinks
    <2>2. ready[c][p] \in Seq(Threads)
      BY Zenon, <1>0 DEF Types
    <2>3. i \in DOMAIN ready[c][p]
      BY <2>1, <2>2
    <2>4. t \in Range(ready[c][p])
      BY Zenon, <2>1, <2>3 DEF Range
    <2>5. Home(t) = c /\ priority[t] = p /\ state[t] = "READY" /\ Distinct(ready[c][p])
      BY Zenon, <1>0, <2>4 DEF Tables, ReadyTable
    <2> QED  BY Zenon, <2>1, <2>3, <2>5
  <1>3. \A x, y \in ReadyLinks(t) : x = y
    BY Zenon, <1>2 DEF Distinct
  <1>4. ASSUME NEW x \in SleepLinks(t)
        PROVE  \E i \in 1 .. Cardinality(Threads) :
                   /\ x = <<Home(t), i>>
                   /\ i \in DOMAIN sleeping[Home(t)] /\ sleeping[Home(t)][i] = t
                   /\ Distinct(sleeping[Home(t)]) /\ state[t] = "SLEEPING"
    <2>1. PICK c \in CPUs, i \in 1 .. Cardinality(Threads) :
              x = <<c, i>> /\ i <= Len(sleeping[c]) /\ sleeping[c][i] = t
      BY DEF SleepLinks
    <2>2. sleeping[c] \in Seq(Threads)
      BY Zenon, <1>0 DEF Types
    <2>3. i \in DOMAIN sleeping[c]
      BY <2>1, <2>2
    <2>4. t \in Range(sleeping[c])
      BY Zenon, <2>1, <2>3 DEF Range
    <2>5. Home(t) = c /\ state[t] = "SLEEPING" /\ Distinct(sleeping[c])
      BY Zenon, <1>0, <2>4 DEF Tables, SleepingTable
    <2> QED  BY Zenon, <2>1, <2>3, <2>5
  <1>5. \A x, y \in SleepLinks(t) : x = y
    BY Zenon, <1>4 DEF Distinct
  <1>6. \A x, y \in ZombieLinks(t) : x = y
    BY Zenon, <1>0 DEF ZombieLinks, ZombieTable, Distinct
  <1>7. ASSUME ZombieLinks(t) # {}
        PROVE  state[t] \in {"ZOMBIE", "DEAD", "FREED"} /\ t \in Range(zombies)
    <2>1. t \in Range(zombies)
      BY Zenon, <1>7 DEF ZombieLinks, Range
    <2>2. pc[t] \in LateExit
      BY Zenon, <1>0, <2>1 DEF ZombieTable
    <2>3. pc[t] \in ExitLabels
      BY Zenon, <2>2 DEF LateExit, ExitLabels
    <2> QED  BY Zenon, <1>0, <2>1, <2>3 DEF Stands
  <1> QED  BY Zenon, <1>1, <1>2, <1>3, <1>4, <1>5, <1>6, <1>7

\* The idle thread of a CPU runs there or is ready, so that there is always a
\* thread to choose.
LEMMA IdleThreads == ASSUME Inv PROVE IdleReady
  <1> SUFFICES ASSUME NEW c \in CPUs
               PROVE  active[c] = idle[c] \/ idle[c] \in Range(ready[c][Lowest])
    BY Zenon DEF IdleReady
  <1> DEFINE t == idle[c]
  <1>1. t \in Idles /\ t \in Threads /\ Home(t) = c /\ t \notin Workers \cup {init}
    BY Zenon, ThreadSets
  <1>2. Placed(t) /\ Roles(t) /\ \A u \in Threads : Waker(u, t)
    BY Zenon, <1>1 DEF Inv
  <1>3. state[t] \in {"READY", "RUNNING"} /\ priority[t] = Lowest
    BY Zenon, <1>1, <1>2 DEF Roles
  <1>4. \A u \in Threads : ~ Wakes(u, t)
    BY Zenon, <1>1, <1>2 DEF Waker
  <1> QED  BY Zenon, <1>1, <1>2, <1>3, <1>4 DEF Placed, Running
=============================================================================
