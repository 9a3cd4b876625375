---------------------------- MODULE KernelProofs ----------------------------
(***************************************************************************)
(* Theorems about the semaphore, the mutex and the list of page fault      *)
(* handlers, for any finite set of threads, any levels, priorities and     *)
(* addresses: their inductive invariants, the steps that preserve them,    *)
(* and what follows from them.                                             *)
(***************************************************************************)
EXTENDS Semaphore, Mutex, FaultHandlers, Numbers, TLAPS
-----------------------------------------------------------------------------
(***************************************************************************)
(* The invariants of Semaphore hold for any finite set of threads and any  *)
(* initial levels.  Together they are inductive: OneWaker tells that the   *)
(* thread sem_post pops is in the queue once and is WAITING, so that one   *)
(* more thread is woken for one more level.                                *)
(***************************************************************************)
SemInv == TypeOK /\ OneWaker /\ NoLostWakeup

LEMMA InitSemInv == Init => SemInv
  <1> SUFFICES ASSUME Init PROVE SemInv
    BY Zenon
  <1>1. TypeOK
    <2>1. AboveFloor
      <3>1. 0 \in Levels \cup {0} /\ sem_level >= 0
        BY DEF Init
      <3> QED BY Zenon, <3>1 DEF AboveFloor
    <2>0. init \in BOOLEAN
      BY Zenon DEF Init
    <2>2. /\ sem_level \in Int
          /\ waiting_threads \in Seq(Threads) /\ masked \subseteq Threads
      BY DEF Init
    <2>3. /\ state \in [Threads -> {"RUNNING", "READY", "WAITING"}]
          /\ pc \in [Threads -> {"user", "blocked", "unlock", "schedule"}]
          /\ node \in [Threads -> Threads \cup {NULL}]
      BY Zenon DEF Init
    <2> QED BY Zenon, <2>0, <2>1, <2>2, <2>3 DEF TypeOK
  <1>2. OneWaker
    BY ThreadsAssumption DEF Init, OneWaker, InQueue
  <1>3. NoLostWakeup
    BY Zenon DEF Init, NoLostWakeup
  <1> QED BY Zenon, <1>1, <1>2, <1>3 DEF SemInv

\* The number of woken threads is a natural number.
LEMMA WokenCounted ==
    ASSUME Counted(Threads)
    PROVE  /\ Woken \in SUBSET Threads /\ Cardinality(Woken) \in Nat
           /\ Woken' \in SUBSET Threads /\ Cardinality(Woken') \in Nat
  <1>1. Woken \in SUBSET Threads /\ Woken' \in SUBSET Threads
    BY Zenon DEF Woken
  <1> QED BY Zenon, <1>1 DEF Counted

\* A thread that is running user code, or was unlocked, has no waker left.
LEMMA Free ==
    ASSUME SemInv, NEW t \in Threads,
           pc[t] = "user" \/ (pc[t] = "blocked" /\ state[t] = "READY")
    PROVE  ~InQueue(t) /\ \A u \in Threads : node[u] # t
  <1>1. ~InQueue(t)
    BY Zenon DEF SemInv, OneWaker
  <1>2. ASSUME NEW u \in Threads, node[u] = t PROVE FALSE
    <2>1. node[u] # NULL
      BY Zenon, <1>2, ThreadsAssumption
    <2>2. pc[u] = "unlock"
      BY Zenon, <2>1 DEF SemInv, OneWaker
    <2> QED BY Zenon, <2>2, <1>2 DEF SemInv, OneWaker
  <1> QED BY Zenon, <1>1, <1>2

LEMMA BlockInv ==
    ASSUME Counted(Threads), SemInv, NEW t \in Threads, init,
           pc[t] = "user" \/ (pc[t] = "blocked" /\ state[t] = "READY"),
           Block(t)
    PROVE  SemInv'
  <1> USE DEF Block
  <1>0. ~InQueue(t) /\ \A u \in Threads : node[u] # t
    BY Zenon, Free
  <1>1. TypeOK'
    BY DEF SemInv, TypeOK, AboveFloor
  <1>2. /\ pc'[t] = "blocked" /\ state'[t] = "WAITING"
        /\ \A u \in Threads : u # t => pc'[u] = pc[u] /\ state'[u] = state[u]
    BY Zenon DEF SemInv, TypeOK
  <1>3. /\ Len(waiting_threads') = Len(waiting_threads) + 1
        /\ Len(waiting_threads) \in Nat
        /\ waiting_threads'[Len(waiting_threads) + 1] = t
        /\ \A i \in 1 .. Len(waiting_threads) :
               waiting_threads'[i] = waiting_threads[i]
    BY DEF SemInv, TypeOK
  <1>4. \A u \in Threads : InQueue(u)' <=> (InQueue(u) \/ u = t)
    BY <1>3 DEF InQueue
  <1>5. OneWaker'
    <2>1. \A i, j \in 1 .. Len(waiting_threads') :
              waiting_threads'[i] = waiting_threads'[j] => i = j
      BY <1>0, <1>3 DEF SemInv, OneWaker, InQueue
    <2>2. ASSUME NEW u \in Threads, InQueue(u)'
          PROVE /\ pc'[u] = "blocked" /\ state'[u] = "WAITING"
                /\ \A v \in Threads : node'[v] # u
      BY <1>0, <1>2, <1>4, <2>2 DEF SemInv, OneWaker
    <2>3. ASSUME NEW u \in Threads, pc'[u] = "unlock"
          PROVE /\ node'[u] \in Threads
                /\ pc'[node'[u]] = "blocked" /\ state'[node'[u]] = "WAITING"
                /\ \A v \in Threads : node'[v] = node'[u] => v = u
      BY <1>0, <1>2, <2>3 DEF SemInv, OneWaker
    <2>4. ASSUME NEW u \in Threads, pc'[u] # "unlock" PROVE node'[u] = NULL
      BY <1>2, <2>4 DEF SemInv, OneWaker
    <2> QED BY Zenon, <2>1, <2>2, <2>3, <2>4 DEF OneWaker
  <1>6. NoLostWakeup'
    <2>1. sem_level' <= 0 /\ sem_level' \in Int
      BY DEF SemInv, TypeOK
    <2> QED BY <2>1, WokenCounted DEF NoLostWakeup
  <1> QED BY Zenon, <1>1, <1>5, <1>6 DEF SemInv

LEMMA AcquireInv ==
    ASSUME Counted(Threads), SemInv, NEW t \in Threads, init,
           pc[t] = "user" \/ (pc[t] = "blocked" /\ state[t] = "READY"),
           Acquire(t)
    PROVE  SemInv'
  <1> USE DEF Acquire
  <1>0. ~InQueue(t) /\ \A u \in Threads : node[u] # t
    BY Zenon, Free
  <1>1. TypeOK'
    <2>1. AboveFloor'
      <3>1. 0 \in Levels \cup {0} /\ sem_level' >= 0
        BY DEF SemInv, TypeOK
      <3> QED BY Zenon, <3>1 DEF AboveFloor
    <2> QED BY <2>1 DEF SemInv, TypeOK
  <1>2. /\ pc'[t] = "user"
        /\ \A u \in Threads : u # t => pc'[u] = pc[u] /\ state'[u] = state[u]
    BY Zenon DEF SemInv, TypeOK
  <1>3. \A u \in Threads : InQueue(u)' <=> InQueue(u)
    BY Zenon DEF InQueue
  <1>4. OneWaker'
    <2>2. ASSUME NEW u \in Threads, InQueue(u)'
          PROVE /\ pc'[u] = "blocked" /\ state'[u] = "WAITING"
                /\ \A v \in Threads : node'[v] # u
      BY <1>0, <1>2, <1>3, <2>2 DEF SemInv, OneWaker
    <2>3. ASSUME NEW u \in Threads, pc'[u] = "unlock"
          PROVE /\ node'[u] \in Threads
                /\ pc'[node'[u]] = "blocked" /\ state'[node'[u]] = "WAITING"
                /\ \A v \in Threads : node'[v] = node'[u] => v = u
      BY <1>0, <1>2, <2>3 DEF SemInv, OneWaker
    <2>4. ASSUME NEW u \in Threads, pc'[u] # "unlock" PROVE node'[u] = NULL
      BY <1>2, <2>4 DEF SemInv, OneWaker
    <2>1. \A i, j \in 1 .. Len(waiting_threads') :
              waiting_threads'[i] = waiting_threads'[j] => i = j
      BY DEF SemInv, OneWaker
    <2> QED BY Zenon, <2>1, <2>2, <2>3, <2>4 DEF OneWaker
  <1>5. NoLostWakeup'
    <2>1. Woken' = Woken \ {t}
      BY Zenon, <1>2, <1>3 DEF Woken
    <2>2. Cardinality(Woken') >= Cardinality(Woken) - 1
      <3>1. \/ Cardinality(Woken') = Cardinality(Woken) - 1
            \/ Cardinality(Woken') = Cardinality(Woken)
        <4>1. CASE t \in Woken
          BY Zenon, <2>1, <4>1, WokenCounted DEF Counted
        <4>2. CASE t \notin Woken
          <5>1. Woken' = Woken
            BY Zenon, <2>1, <4>2
          <5> QED BY Zenon, <5>1
        <4> QED BY Zenon, <4>1, <4>2
      <3> QED BY <3>1, WokenCounted
    <2>3. ASSUME waiting_threads' # <<>>
          PROVE  sem_level' <= Cardinality(Woken')
      <3>1. sem_level <= Cardinality(Woken)
        BY Zenon, <2>3 DEF SemInv, NoLostWakeup
      <3> QED BY <3>1, <2>2, WokenCounted DEF SemInv, TypeOK
    <2> QED BY Zenon, <2>3 DEF NoLostWakeup
  <1> QED BY Zenon, <1>1, <1>4, <1>5 DEF SemInv

LEMMA PostInv ==
    ASSUME Counted(Threads), SemInv, NEW t \in Threads, NEW off \in BOOLEAN, sem_post(t, off)
    PROVE  SemInv'
  <1>a. sem_level \in Int /\ sem_level' = sem_level + 1 /\ init' = init
    BY Zenon DEF SemInv, TypeOK, sem_post
  <1>b. waiting_threads \in Seq(Threads) /\ masked' \subseteq Threads
    BY Zenon DEF SemInv, TypeOK, sem_post
  <1>c. pc[t] = "user" /\ state' = state
    BY Zenon DEF sem_post
  <1>d. ~InQueue(t) /\ \A u \in Threads : node[u] # t
    <2>1. pc[t] = "user" \/ (pc[t] = "blocked" /\ state[t] = "READY")
      BY Zenon, <1>c
    <2> QED BY Zenon, <2>1, Free
  <1>0. ~InQueue(t) /\ (\A u \in Threads : node[u] # t)
        /\ sem_level \in Int /\ sem_level' = sem_level + 1
        /\ init' = init /\ state' = state
    BY Zenon, <1>a, <1>c, <1>d
  <1>1. AboveFloor'
    <2>1. PICK l \in Levels \cup {0} : sem_level >= l
      BY Zenon DEF SemInv, TypeOK, AboveFloor
    <2>2. l \in Int /\ sem_level' >= l
      BY <1>0, <2>1, LevelsAssumption
    <2> QED BY Zenon, <2>2 DEF AboveFloor
  <1>2. CASE sem_level' > 0 /\ waiting_threads # <<>>
    <2> DEFINE h == Head(waiting_threads)
    <2>0. waiting_threads' = Tail(waiting_threads)
      BY Zenon, <1>2 DEF sem_post
    <2>1. /\ h \in Threads /\ InQueue(h) /\ h = waiting_threads[1]
          /\ Len(waiting_threads) \in Nat \ {0}
          /\ waiting_threads' \in Seq(Threads)
          /\ Len(waiting_threads') = Len(waiting_threads) - 1
          /\ \A i \in 1 .. Len(waiting_threads') :
                 waiting_threads'[i] = waiting_threads[i + 1]
      <3>1. Len(waiting_threads) \in Nat \ {0} /\ h = waiting_threads[1]
            /\ h \in Threads
        BY <1>2, <1>b
      <3>2. InQueue(h)
        BY <3>1 DEF InQueue
      <3>3. /\ waiting_threads' \in Seq(Threads)
            /\ Len(waiting_threads') = Len(waiting_threads) - 1
            /\ \A i \in 1 .. Len(waiting_threads') :
                   waiting_threads'[i] = waiting_threads[i + 1]
        BY <1>2, <1>b, <2>0
      <3> QED BY Zenon, <3>1, <3>2, <3>3
    <2>2. \A u \in Threads : InQueue(u)' <=> InQueue(u) /\ u # h
      <3>1. ASSUME NEW u \in Threads, InQueue(u)' PROVE InQueue(u) /\ u # h
        <4>1. PICK i \in 1 .. Len(waiting_threads') : waiting_threads'[i] = u
          BY Zenon, <3>1 DEF InQueue
        <4>2. i + 1 \in 1 .. Len(waiting_threads) /\ i + 1 # 1
              /\ waiting_threads[i + 1] = u
          BY <2>1, <4>1
        <4> QED BY <2>1, <4>2 DEF SemInv, OneWaker, InQueue
      <3>2. ASSUME NEW u \in Threads, InQueue(u), u # h PROVE InQueue(u)'
        <4>1. PICK i \in 1 .. Len(waiting_threads) : waiting_threads[i] = u
          BY Zenon, <3>2 DEF InQueue
        <4>2. i # 1 /\ i - 1 \in 1 .. Len(waiting_threads')
              /\ waiting_threads'[i - 1] = u
          BY <2>1, <3>2, <4>1
        <4> QED BY Zenon, <4>2 DEF InQueue
      <3> QED BY Zenon, <3>1, <3>2
    <2>a. /\ pc' = [pc EXCEPT ![t] = "unlock"]
          /\ node' = [node EXCEPT ![t] = h]
      BY Zenon, <1>2 DEF sem_post
    <2>b. /\ pc \in [Threads -> {"user", "blocked", "unlock", "schedule"}]
          /\ node \in [Threads -> Threads \cup {NULL}]
      BY Zenon DEF SemInv, TypeOK
    <2>3. /\ pc'[t] = "unlock" /\ node'[t] = h
          /\ \A u \in Threads : u # t => pc'[u] = pc[u] /\ node'[u] = node[u]
      BY Zenon, <2>a, <2>b
    <2>4. TypeOK'
      <3>1. pc' \in [Threads -> {"user", "blocked", "unlock", "schedule"}]
        BY Zenon, <2>a, <2>b
      <3>2. node' \in [Threads -> Threads \cup {NULL}]
        BY Zenon, <2>a, <2>b, <2>1
      <3> QED BY <1>0, <1>1, <1>b, <2>1, <3>1, <3>2 DEF SemInv, TypeOK
    <2>5. OneWaker'
      <3>1. \A i, j \in 1 .. Len(waiting_threads') :
                waiting_threads'[i] = waiting_threads'[j] => i = j
        <4>1. ASSUME NEW i \in 1 .. Len(waiting_threads'),
                     NEW j \in 1 .. Len(waiting_threads'),
                     waiting_threads'[i] = waiting_threads'[j]
              PROVE  i = j
          <5>1. /\ i + 1 \in 1 .. Len(waiting_threads)
                /\ j + 1 \in 1 .. Len(waiting_threads)
                /\ waiting_threads[i + 1] = waiting_threads[j + 1]
            <6>1. i + 1 \in 1 .. Len(waiting_threads) /\ j + 1 \in 1 .. Len(waiting_threads)
              BY <2>1
            <6>2. waiting_threads[i + 1] = waiting_threads[j + 1]
              BY Zenon, <2>1, <4>1
            <6> QED BY Zenon, <6>1, <6>2
          <5>2. i + 1 = j + 1
            BY Zenon, <5>1 DEF SemInv, OneWaker
          <5> QED BY <2>1, <5>2
        <4> QED BY Zenon, <4>1
      <3>2. ASSUME NEW u \in Threads, InQueue(u)'
            PROVE /\ pc'[u] = "blocked" /\ state'[u] = "WAITING"
                  /\ \A v \in Threads : node'[v] # u
        BY <1>0, <2>2, <2>3, <3>2 DEF SemInv, OneWaker
      <3>3. ASSUME NEW u \in Threads, pc'[u] = "unlock"
            PROVE /\ node'[u] \in Threads
                  /\ pc'[node'[u]] = "blocked" /\ state'[node'[u]] = "WAITING"
                  /\ \A v \in Threads : node'[v] = node'[u] => v = u
        BY <1>0, <2>1, <2>3, <3>3 DEF SemInv, OneWaker
      <3>4. ASSUME NEW u \in Threads, pc'[u] # "unlock" PROVE node'[u] = NULL
        BY <2>3, <3>4 DEF SemInv, OneWaker
      <3> QED BY Zenon, <3>1, <3>2, <3>3, <3>4 DEF OneWaker
    <2>6. NoLostWakeup'
      <3>1. Woken' = Woken \cup {h} /\ h \notin Woken
        <4>1. pc[h] = "blocked" /\ h # t
          BY Zenon, <1>0, <2>1 DEF SemInv, OneWaker
        <4>2. \A u \in Threads :
                  pc'[u] = "blocked" /\ ~InQueue(u)'
                      <=> (pc[u] = "blocked" /\ ~InQueue(u)) \/ u = h
          BY Zenon, <1>c, <2>2, <2>3, <4>1
        <4> QED BY Zenon, <2>1, <4>2 DEF Woken
      <3>2. Cardinality(Woken') = Cardinality(Woken) + 1
        BY Zenon, <1>0, <2>1, <3>1, WokenCounted DEF Counted
      <3>3. sem_level <= Cardinality(Woken)
        BY Zenon, <1>2 DEF SemInv, NoLostWakeup, sem_post
      <3> QED BY <1>0, <3>2, <3>3, WokenCounted DEF NoLostWakeup
    <2> QED BY Zenon, <2>4, <2>5, <2>6 DEF SemInv
  <1>3. CASE ~(sem_level' > 0 /\ waiting_threads # <<>>)
    <2>1. UNCHANGED <<init, waiting_threads, state, pc, node>>
      BY Zenon, <1>3 DEF sem_post
    <2>2. TypeOK'
      BY <1>0, <1>1, <1>b, <2>1 DEF SemInv, TypeOK
    <2>3. OneWaker'
      BY <2>1 DEF SemInv, OneWaker, InQueue
    <2>4. NoLostWakeup'
      <3>1. waiting_threads' # <<>> => sem_level' <= 0
        BY <1>0, <1>3, <2>1
      <3> QED BY <1>0, <3>1, WokenCounted DEF NoLostWakeup
    <2> QED BY Zenon, <2>2, <2>3, <2>4 DEF SemInv
  <1> QED BY Zenon, <1>2, <1>3

LEMMA ResumeFailsInv ==
    ASSUME SemInv, NEW t \in Threads, ResumeFails(t)
    PROVE  SemInv'
  <1>0. /\ pc[t] = "blocked" /\ state[t] = "READY" /\ ~init
        /\ UNCHANGED <<init, sem_level, waiting_threads, node, masked>>
    BY Zenon DEF ResumeFails
  <1>1. ~InQueue(t) /\ \A u \in Threads : node[u] # t
    BY Zenon, <1>0, Free
  <1>2. TypeOK'
    BY Zenon, <1>0 DEF SemInv, TypeOK, AboveFloor, ResumeFails
  <1>3. /\ pc'[t] = "user"
        /\ \A u \in Threads : u # t => pc'[u] = pc[u] /\ state'[u] = state[u]
    BY Zenon DEF SemInv, TypeOK, ResumeFails
  <1>4. OneWaker'
    BY <1>0, <1>1, <1>3 DEF SemInv, OneWaker, InQueue
  <1>5. NoLostWakeup'
    BY Zenon, <1>0 DEF NoLostWakeup
  <1> QED BY Zenon, <1>2, <1>4, <1>5 DEF SemInv

LEMMA UnlockInv ==
    ASSUME SemInv, NEW t \in Threads, Unlock(t)
    PROVE  SemInv'
  <1> DEFINE u == node[t]
  <1>0. /\ pc[t] = "unlock"
        /\ UNCHANGED <<init, sem_level, waiting_threads, masked>>
    BY Zenon DEF Unlock
  <1>1. /\ u \in Threads /\ pc[u] = "blocked"
        /\ \A v \in Threads : node[v] = u => v = t
        /\ u # t
    BY Zenon, <1>0 DEF SemInv, OneWaker
  <1>2. ~InQueue(u)
    BY Zenon, <1>1 DEF SemInv, OneWaker
  <1>3. TypeOK'
    <2>1. pc' \in [Threads -> {"user", "blocked", "unlock", "schedule"}]
      BY Zenon DEF SemInv, TypeOK, Unlock
    <2>2. /\ state' \in [Threads -> {"RUNNING", "READY", "WAITING"}]
          /\ node' \in [Threads -> Threads \cup {NULL}]
      BY Zenon, <1>1 DEF SemInv, TypeOK, Unlock
    <2> QED BY Zenon, <1>0, <2>1, <2>2 DEF SemInv, TypeOK, AboveFloor
  <1>4. /\ pc'[t] \in {"user", "schedule"} /\ node'[t] = NULL
        /\ \A v \in Threads : v # t => pc'[v] = pc[v] /\ node'[v] = node[v]
    BY Zenon DEF SemInv, TypeOK, Unlock
  <1>5. \A v \in Threads : v # u => state'[v] = state[v]
    BY Zenon DEF SemInv, TypeOK, Unlock
  <1>6. \A v \in Threads : InQueue(v)' <=> InQueue(v)
    BY Zenon, <1>0 DEF InQueue
  <1>7. OneWaker'
    <2>1. \A i, j \in 1 .. Len(waiting_threads') :
              waiting_threads'[i] = waiting_threads'[j] => i = j
      BY <1>0 DEF SemInv, OneWaker
    <2>2. ASSUME NEW v \in Threads, InQueue(v)'
          PROVE /\ pc'[v] = "blocked" /\ state'[v] = "WAITING"
                /\ \A w \in Threads : node'[w] # v
      <3>1. /\ InQueue(v) /\ v # u /\ pc[v] = "blocked"
            /\ state[v] = "WAITING" /\ \A w \in Threads : node[w] # v
        BY <1>2, <1>6, <2>2 DEF SemInv, OneWaker
      <3>2. v # t
        BY Zenon, <1>0, <3>1
      <3> QED BY Zenon, <1>4, <1>5, <3>1, <3>2, ThreadsAssumption
    <2>3. ASSUME NEW v \in Threads, pc'[v] = "unlock"
          PROVE /\ node'[v] \in Threads
                /\ pc'[node'[v]] = "blocked" /\ state'[node'[v]] = "WAITING"
                /\ \A w \in Threads : node'[w] = node'[v] => w = v
      <3>1. v # t /\ pc[v] = "unlock" /\ node'[v] = node[v]
        BY Zenon, <1>4, <2>3
      <3>2. /\ node[v] \in Threads /\ pc[node[v]] = "blocked"
            /\ state[node[v]] = "WAITING"
            /\ \A w \in Threads : node[w] = node[v] => w = v
        BY Zenon, <3>1 DEF SemInv, OneWaker
      <3>3. node[v] # u /\ node[v] # t
        BY Zenon, <1>0, <1>1, <3>1, <3>2
      <3> QED BY Zenon, <1>4, <1>5, <3>1, <3>2, <3>3, ThreadsAssumption
    <2>4. ASSUME NEW v \in Threads, pc'[v] # "unlock" PROVE node'[v] = NULL
      BY Zenon, <1>4, <2>4 DEF SemInv, OneWaker
    <2> QED BY Zenon, <2>1, <2>2, <2>3, <2>4 DEF OneWaker
  <1>8. NoLostWakeup'
    <2>1. Woken' = Woken
      BY Zenon, <1>0, <1>4, <1>6 DEF Woken
    <2> QED BY Zenon, <1>0, <2>1 DEF SemInv, NoLostWakeup
  <1> QED BY Zenon, <1>3, <1>7, <1>8 DEF SemInv

LEMMA ScheduleInv ==
    ASSUME SemInv, NEW t \in Threads, Schedule(t)
    PROVE  SemInv'
  <1>0. /\ pc[t] = "schedule"
        /\ UNCHANGED <<init, sem_level, waiting_threads, state, node, masked>>
    BY Zenon DEF Schedule
  <1>1. TypeOK'
    BY Zenon, <1>0 DEF SemInv, TypeOK, AboveFloor, Schedule
  <1>2. /\ pc'[t] = "user" /\ \A u \in Threads : u # t => pc'[u] = pc[u]
    BY Zenon DEF SemInv, TypeOK, Schedule
  <1>3. \A v \in Threads : InQueue(v)' <=> InQueue(v)
    BY Zenon, <1>0 DEF InQueue
  <1>4. OneWaker'
    BY <1>0, <1>2, <1>3 DEF SemInv, OneWaker
  <1>5. Woken' = Woken
    BY Zenon, <1>0, <1>2, <1>3 DEF Woken
  <1> QED BY Zenon, <1>0, <1>1, <1>4, <1>5 DEF SemInv, NoLostWakeup

LEMMA DestroyInv ==
    ASSUME SemInv, NEW t \in Threads, sem_destroy(t)
    PROVE  SemInv'
  <1>0. /\ waiting_threads' = <<>> /\ init' = FALSE
        /\ UNCHANGED <<sem_level, pc, node, masked>>
        /\ state' = [u \in Threads |-> IF InQueue(u) THEN "READY" ELSE state[u]]
    BY Zenon DEF sem_destroy
  <1>1. TypeOK'
    <2>1. state' \in [Threads -> {"RUNNING", "READY", "WAITING"}]
      BY Zenon, <1>0 DEF SemInv, TypeOK
    <2>2. init' \in BOOLEAN
      BY <1>0, Zenon
    <2> QED BY <1>0, <2>1, <2>2 DEF SemInv, TypeOK, AboveFloor
  <1>2. \A u \in Threads : ~InQueue(u)'
    BY <1>0 DEF InQueue
  <1>3. OneWaker'
    <2>1. ASSUME NEW v \in Threads, pc'[v] = "unlock"
          PROVE /\ node'[v] \in Threads
                /\ pc'[node'[v]] = "blocked" /\ state'[node'[v]] = "WAITING"
                /\ \A w \in Threads : node'[w] = node'[v] => w = v
      <3>1. /\ node[v] \in Threads /\ pc[node[v]] = "blocked"
            /\ state[node[v]] = "WAITING" /\ ~InQueue(node[v])
            /\ \A w \in Threads : node[w] = node[v] => w = v
        BY Zenon, <1>0, <2>1 DEF SemInv, OneWaker
      <3> QED BY Zenon, <1>0, <3>1
    <2>2. ASSUME NEW v \in Threads, pc'[v] # "unlock" PROVE node'[v] = NULL
      BY Zenon, <1>0, <2>2 DEF SemInv, OneWaker
    <2>3. \A i, j \in 1 .. Len(waiting_threads') :
              waiting_threads'[i] = waiting_threads'[j] => i = j
      BY <1>0
    <2> QED BY Zenon, <1>2, <2>1, <2>2, <2>3 DEF OneWaker
  <1>4. NoLostWakeup'
    BY Zenon, <1>0 DEF NoLostWakeup
  <1> QED BY Zenon, <1>1, <1>3, <1>4 DEF SemInv

LEMMA SemInitInv ==
    ASSUME SemInv, NEW l \in Levels, sem_init(l)
    PROVE  SemInv'
  <1>0. /\ waiting_threads' = <<>> /\ init' = TRUE /\ sem_level' = l
        /\ UNCHANGED <<state, pc, node, masked>>
        /\ \A t \in Threads : pc[t] = "user"
    BY Zenon DEF sem_init
  <1>1. TypeOK'
    <2>1. l \in Int /\ sem_level' >= l /\ l \in Levels \cup {0}
      BY <1>0, LevelsAssumption
    <2>2. AboveFloor'
      BY Zenon, <2>1 DEF AboveFloor
    <2>3. init' \in BOOLEAN
      BY <1>0, Zenon
    <2> QED BY <1>0, <2>1, <2>2, <2>3 DEF SemInv, TypeOK
  <1>2. \A u \in Threads : ~InQueue(u)'
    BY <1>0 DEF InQueue
  <1>3. OneWaker'
    BY <1>0, <1>2 DEF SemInv, OneWaker
  <1>4. NoLostWakeup'
    BY Zenon, <1>0 DEF NoLostWakeup
  <1> QED BY Zenon, <1>1, <1>3, <1>4 DEF SemInv

LEMMA NextSemInv ==
    ASSUME Counted(Threads), SemInv, [Next]_vars
    PROVE  SemInv'
  <1>1. ASSUME NEW l \in Levels, sem_init(l) PROVE SemInv'
    BY Zenon, <1>1, SemInitInv
  <1>2. ASSUME NEW t \in Threads, sem_pend(t) PROVE SemInv'
    BY Zenon, <1>2, BlockInv, AcquireInv DEF sem_pend
  <1>3. ASSUME NEW t \in Threads, sem_try_pend(t) PROVE SemInv'
    BY Zenon, <1>3, AcquireInv DEF sem_try_pend
  <1>4. ASSUME NEW t \in Threads, sem_destroy(t) PROVE SemInv'
    BY Zenon, <1>4, DestroyInv
  <1>5. ASSUME NEW t \in Threads, NEW off \in BOOLEAN, sem_post(t, off)
        PROVE  SemInv'
    BY Zenon, <1>5, PostInv
  <1>6. ASSUME NEW t \in Threads, Resume(t) PROVE SemInv'
    BY Zenon, <1>6, BlockInv, AcquireInv DEF Resume
  <1>7. ASSUME NEW t \in Threads, ResumeFails(t) PROVE SemInv'
    BY Zenon, <1>7, ResumeFailsInv
  <1>8. ASSUME NEW t \in Threads, Unlock(t) PROVE SemInv'
    BY Zenon, <1>8, UnlockInv
  <1>9. ASSUME NEW t \in Threads, Schedule(t) PROVE SemInv'
    BY Zenon, <1>9, ScheduleInv
  <1>10. CASE UNCHANGED vars
    <2>1. Woken' = Woken
      BY Zenon, <1>10 DEF vars, Woken, InQueue
    <2>2. TypeOK' /\ OneWaker'
      BY <1>10 DEF SemInv, vars, TypeOK, OneWaker, InQueue, AboveFloor
    <2> QED BY Zenon, <1>10, <2>1, <2>2 DEF SemInv, vars, NoLostWakeup
  <1> QED BY Zenon, <1>1, <1>2, <1>3, <1>4, <1>5, <1>6, <1>7, <1>8, <1>9, <1>10
          DEF Next, Continue

\* the mapped pending set
Pending == {t \in Threads : pc[t] = "blocked"}

LEMMA StepRefines == SemInv /\ [Next]_vars => [Abstract!Next]_(Abstract!vars)
  <1> SUFFICES ASSUME SemInv, [Next]_vars PROVE [Abstract!Next]_(Abstract!vars)
    BY Zenon
  <1>0. pc \in [Threads -> {"user", "blocked", "unlock", "schedule"}]
    BY Zenon DEF SemInv, TypeOK
  <1>1. ASSUME NEW l \in Levels, sem_init(l) PROVE Abstract!Next
    <2>1. Abstract!Initialize(l)
      BY Zenon, <1>0, <1>1 DEF sem_init, Abstract!Initialize
    <2> QED BY Zenon, <2>1 DEF Abstract!Next
  <1>2. ASSUME NEW t \in Threads, init, Block(t) PROVE Abstract!Next
    <2>1. Abstract!Wait(t)
      BY Zenon, <1>0, <1>2 DEF Block, Abstract!Wait
    <2> QED BY Zenon, <2>1 DEF Abstract!Next
  <1>3. ASSUME NEW t \in Threads, init, Acquire(t) PROVE Abstract!Next
    <2>1. sem_level > 0 /\ sem_level \in Int
      BY <1>3 DEF Acquire, SemInv, TypeOK
    <2>2. Abstract!Take(t)
      BY Zenon, <1>0, <1>3, <2>1 DEF Acquire, Abstract!Take
    <2> QED BY Zenon, <2>2 DEF Abstract!Next
  <1>4. ASSUME NEW t \in Threads, sem_destroy(t) PROVE Abstract!Next
    <2>1. Abstract!Destroy
      BY Zenon, <1>4 DEF sem_destroy, Abstract!Destroy
    <2> QED BY Zenon, <2>1 DEF Abstract!Next
  <1>5. ASSUME NEW t \in Threads, NEW off \in BOOLEAN, sem_post(t, off)
        PROVE  Abstract!Next
    <2>1. pc[t] = "user" /\ (pc' = pc \/ pc' = [pc EXCEPT ![t] = "unlock"])
      BY <1>5, Zenon DEF sem_post
    <2>2. Pending' = Pending
      BY Zenon, <1>0, <2>1 DEF Pending
    <2>3. Abstract!Post
      BY Zenon, <1>5, <2>2 DEF sem_post, Abstract!Post, Pending
    <2> QED BY Zenon, <2>3 DEF Abstract!Next
  <1>6. ASSUME NEW t \in Threads, ResumeFails(t) PROVE Abstract!Next
    <2>1. Abstract!Fail(t)
      BY Zenon, <1>0, <1>6 DEF ResumeFails, Abstract!Fail
    <2> QED BY Zenon, <2>1 DEF Abstract!Next
  <1>7. ASSUME NEW t \in Threads, Unlock(t) \/ Schedule(t)
        PROVE  UNCHANGED Abstract!vars
    <2>1. /\ pc[t] \in {"unlock", "schedule"}
          /\ \E x \in {"user", "schedule"} : pc' = [pc EXCEPT ![t] = x]
          /\ UNCHANGED <<init, sem_level>>
      BY Zenon, <1>7 DEF Unlock, Schedule
    <2>2. Pending' = Pending
      BY Zenon, <1>0, <2>1 DEF Pending
    <2> QED BY Zenon, <2>1, <2>2 DEF Abstract!vars, Pending
  <1>8. CASE UNCHANGED vars
    BY Zenon, <1>8 DEF vars, Abstract!vars
  <1> QED BY Zenon, <1>1, <1>2, <1>3, <1>4, <1>5, <1>6, <1>7, <1>8
          DEF Next, Continue, sem_pend, sem_try_pend, Resume
-----------------------------------------------------------------------------
(***************************************************************************)
(* The invariants of Mutex for any finite set of threads, any priorities   *)
(* and any elevation.  They fall into two halves that share no variable:   *)
(* Waking (the queue, where the threads are and what the scheduler knows   *)
(* of them) holds for every mutex, Holding (who holds the mutex, and which *)
(* priority is to be given back) for one that is not recursive.            *)
(***************************************************************************)
QueueType ==
    /\ m_waiting_threads \in Seq(Callers)
    /\ m_state \in [Callers -> {"RUNNING", "READY", "WAITING"}]
    /\ m_pc \in [Callers -> {"user", "blocked", "unlock", "schedule"}]
    /\ m_node \in [Callers -> Callers \cup {NONE}]

Waking == QueueType /\ WakersKept

FieldsType ==
    /\ m_init \in BOOLEAN /\ free \in BOOLEAN
    /\ locker_tid \in Callers \cup {NONE}
    /\ acquired_thread_priority \in 0 .. Lowest
    /\ priority \in [Callers -> 0 .. Lowest]
    /\ held \in [Callers -> 0 .. 1]
    /\ before \in [Callers -> 0 .. Lowest \cup {NONE}]
    /\ elevation \in Elevations \cup {NONE}

\* A mutex that does not exist is not held
HeldExists == m_init \/ \A t \in Callers : held[t] = 0

\* What mutex_post gives back is what mutex_pend found: the priority is in the
\* mutex when it was changed, and still the thread's own when it was not
Lent ==
    \A t \in Callers : held[t] > 0 /\ before[t] # NONE =>
        IF elevation = NONE THEN priority[t] = before[t]
        ELSE acquired_thread_priority = before[t]

Holding == FieldsType /\ Exclusion /\ HeldExists /\ Lent
-----------------------------------------------------------------------------
\* A thread that runs user code, or was unlocked, has no waker left.
LEMMA Unwaited ==
    ASSUME MutexAssumption, Waking, NEW t \in Callers,
           m_pc[t] = "user" \/ (m_pc[t] = "blocked" /\ m_state[t] = "READY")
    PROVE  ~MutexInQueue(t) /\ \A u \in Callers : m_node[u] # t
  <1>1. ~MutexInQueue(t)
    BY Zenon DEF Waking, WakersKept, MutexOneWaker
  <1>2. ASSUME NEW u \in Callers, m_node[u] = t PROVE FALSE
    <2>1. m_node[u] # NONE
      BY Zenon, <1>2 DEF MutexAssumption
    <2>2. m_pc[u] = "unlock"
      BY Zenon, <2>1 DEF Waking, WakersKept, MutexOneWaker
    <2> QED BY Zenon, <2>2, <1>2 DEF Waking, WakersKept, MutexOneWaker
  <1> QED BY Zenon, <1>1, <1>2

LEMMA BlockWaking ==
    ASSUME MutexAssumption, Waking, NEW t \in Callers,
           m_pc[t] = "user" \/ (m_pc[t] = "blocked" /\ m_state[t] = "READY"),
           MutexBlock(t)
    PROVE  Waking'
  <1> USE DEF MutexBlock, Goto
  <1>0. ~MutexInQueue(t) /\ \A u \in Callers : m_node[u] # t
    BY Zenon, Unwaited
  <1>1. QueueType'
    BY DEF Waking, QueueType
  <1>2. /\ m_pc'[t] = "blocked" /\ m_state'[t] = "WAITING" /\ m_node' = m_node
        /\ \A u \in Callers : u # t => m_pc'[u] = m_pc[u] /\ m_state'[u] = m_state[u]
    BY Zenon DEF Waking, QueueType
  <1>3. /\ Len(m_waiting_threads') = Len(m_waiting_threads) + 1
        /\ Len(m_waiting_threads) \in Nat
        /\ m_waiting_threads'[Len(m_waiting_threads) + 1] = t
        /\ \A i \in 1 .. Len(m_waiting_threads) :
               m_waiting_threads'[i] = m_waiting_threads[i]
    BY DEF Waking, QueueType
  <1>4. \A u \in Callers : MutexInQueue(u)' <=> (MutexInQueue(u) \/ u = t)
    BY <1>3 DEF MutexInQueue
  <1>5. MutexOneWaker'
    <2>1. \A i, j \in 1 .. Len(m_waiting_threads') :
              m_waiting_threads'[i] = m_waiting_threads'[j] => i = j
      BY <1>0, <1>3 DEF Waking, WakersKept, MutexOneWaker, MutexInQueue
    <2>2. ASSUME NEW u \in Callers, MutexInQueue(u)'
          PROVE /\ m_pc'[u] = "blocked" /\ m_state'[u] = "WAITING"
                /\ \A v \in Callers : m_node'[v] # u
      BY <1>0, <1>2, <1>4, <2>2 DEF Waking, WakersKept, MutexOneWaker
    <2>3. ASSUME NEW u \in Callers, m_pc'[u] = "unlock"
          PROVE /\ m_node'[u] \in Callers
                /\ m_pc'[m_node'[u]] = "blocked" /\ m_state'[m_node'[u]] = "WAITING"
                /\ \A v \in Callers : m_node'[v] = m_node'[u] => v = u
      BY <1>0, <1>2, <2>3 DEF Waking, WakersKept, MutexOneWaker
    <2>4. ASSUME NEW u \in Callers, m_pc'[u] # "unlock" PROVE m_node'[u] = NONE
      BY <1>2, <2>4 DEF Waking, WakersKept, MutexOneWaker
    <2> QED BY Zenon, <2>1, <2>2, <2>3, <2>4 DEF MutexOneWaker
  <1>6. MutexNoLostWakeup'
    BY Zenon DEF MutexNoLostWakeup
  <1> QED BY Zenon, <1>1, <1>5, <1>6 DEF Waking, WakersKept

\* A thread leaves the loop of mutex_pend, with the mutex or with an error: it
\* is nobody's business any more.
LEMMA LeaveWaking ==
    ASSUME MutexAssumption, Waking, NEW t \in Callers,
           m_pc[t] = "user" \/ (m_pc[t] = "blocked" /\ m_state[t] = "READY"),
           m_state' = [m_state EXCEPT ![t] = "RUNNING"], Goto(t, "user"),
           UNCHANGED <<m_waiting_threads, m_node>>, ~m_init' \/ ~free'
    PROVE  Waking'
  <1> USE DEF Goto
  <1>0. ~MutexInQueue(t) /\ \A u \in Callers : m_node[u] # t
    BY Zenon, Unwaited
  <1>1. QueueType'
    BY Zenon DEF Waking, QueueType
  <1>2. /\ m_pc'[t] = "user"
        /\ \A u \in Callers : u # t => m_pc'[u] = m_pc[u] /\ m_state'[u] = m_state[u]
    BY Zenon DEF Waking, QueueType
  <1>3. \A u \in Callers : MutexInQueue(u)' <=> MutexInQueue(u)
    BY Zenon DEF MutexInQueue
  <1>4. MutexOneWaker'
    <2>1. \A i, j \in 1 .. Len(m_waiting_threads') :
              m_waiting_threads'[i] = m_waiting_threads'[j] => i = j
      BY DEF Waking, WakersKept, MutexOneWaker
    <2>2. ASSUME NEW u \in Callers, MutexInQueue(u)'
          PROVE /\ m_pc'[u] = "blocked" /\ m_state'[u] = "WAITING"
                /\ \A v \in Callers : m_node'[v] # u
      BY <1>0, <1>2, <1>3, <2>2 DEF Waking, WakersKept, MutexOneWaker
    <2>3. ASSUME NEW u \in Callers, m_pc'[u] = "unlock"
          PROVE /\ m_node'[u] \in Callers
                /\ m_pc'[m_node'[u]] = "blocked" /\ m_state'[m_node'[u]] = "WAITING"
                /\ \A v \in Callers : m_node'[v] = m_node'[u] => v = u
      BY <1>0, <1>2, <2>3 DEF Waking, WakersKept, MutexOneWaker
    <2>4. ASSUME NEW u \in Callers, m_pc'[u] # "unlock" PROVE m_node'[u] = NONE
      <3>1. CASE u = t
        <4>1. m_pc[t] # "unlock"
          BY Zenon
        <4> QED BY Zenon, <3>1, <4>1 DEF Waking, WakersKept, MutexOneWaker
      <3> QED BY <1>2, <2>4, <3>1 DEF Waking, WakersKept, MutexOneWaker
    <2> QED BY Zenon, <2>1, <2>2, <2>3, <2>4 DEF MutexOneWaker
  <1>5. MutexNoLostWakeup'
    BY Zenon DEF MutexNoLostWakeup
  <1> QED BY Zenon, <1>1, <1>4, <1>5 DEF Waking, WakersKept

\* The head of the queue was there once: what is left is the others.
LEMMA MutexPopped ==
    ASSUME Waking, m_waiting_threads # <<>>, m_waiting_threads' = Tail(m_waiting_threads)
    PROVE  /\ Head(m_waiting_threads) \in Callers /\ MutexInQueue(Head(m_waiting_threads))
           /\ m_waiting_threads' \in Seq(Callers)
           /\ \A i, j \in 1 .. Len(m_waiting_threads') :
                  m_waiting_threads'[i] = m_waiting_threads'[j] => i = j
           /\ \A u \in Callers : MutexInQueue(u)' <=> MutexInQueue(u) /\ u # Head(m_waiting_threads)
  <1> DEFINE h == Head(m_waiting_threads)
  <1>0. m_waiting_threads \in Seq(Callers)
    BY Zenon DEF Waking, QueueType
  <1>1. Len(m_waiting_threads) \in Nat \ {0} /\ h = m_waiting_threads[1] /\ h \in Callers
    BY <1>0
  <1>2. MutexInQueue(h)
    BY <1>1 DEF MutexInQueue
  <1>3. /\ m_waiting_threads' \in Seq(Callers)
        /\ Len(m_waiting_threads') = Len(m_waiting_threads) - 1
        /\ \A i \in 1 .. Len(m_waiting_threads') :
               m_waiting_threads'[i] = m_waiting_threads[i + 1]
    BY <1>0
  <1>4. ASSUME NEW i \in 1 .. Len(m_waiting_threads'), NEW j \in 1 .. Len(m_waiting_threads'),
               m_waiting_threads'[i] = m_waiting_threads'[j]
        PROVE  i = j
    <2>1. /\ i + 1 \in 1 .. Len(m_waiting_threads) /\ j + 1 \in 1 .. Len(m_waiting_threads)
          /\ m_waiting_threads[i + 1] = m_waiting_threads[j + 1]
      BY <1>1, <1>3, <1>4
    <2>2. i + 1 = j + 1
      BY Zenon, <2>1 DEF Waking, WakersKept, MutexOneWaker
    <2> QED BY <1>1, <1>3, <2>2
  <1>5. ASSUME NEW u \in Callers, MutexInQueue(u)' PROVE MutexInQueue(u) /\ u # h
    <2>1. PICK i \in 1 .. Len(m_waiting_threads') : m_waiting_threads'[i] = u
      BY Zenon, <1>5 DEF MutexInQueue
    <2>2. /\ i + 1 \in 1 .. Len(m_waiting_threads) /\ i + 1 # 1
          /\ m_waiting_threads[i + 1] = u
      BY <1>1, <1>3, <2>1
    <2> QED BY <1>1, <2>2 DEF Waking, WakersKept, MutexOneWaker, MutexInQueue
  <1>6. ASSUME NEW u \in Callers, MutexInQueue(u), u # h PROVE MutexInQueue(u)'
    <2>1. PICK i \in 1 .. Len(m_waiting_threads) : m_waiting_threads[i] = u
      BY Zenon, <1>6 DEF MutexInQueue
    <2>2. i # 1 /\ i - 1 \in 1 .. Len(m_waiting_threads') /\ m_waiting_threads'[i - 1] = u
      BY <1>1, <1>3, <1>6, <2>1
    <2> QED BY Zenon, <2>2 DEF MutexInQueue
  <1> QED BY Zenon, <1>1, <1>2, <1>3, <1>4, <1>5, <1>6

LEMMA PostWaking ==
    ASSUME MutexAssumption, Waking, NEW t \in Callers, mutex_post(t)
    PROVE  Waking'
  <1> DEFINE h == Head(m_waiting_threads)
  <1>0. m_pc[t] = "user" /\ Pop(t) /\ m_state' = m_state
    BY Zenon DEF mutex_post, Call
  <1>1. ~MutexInQueue(t) /\ \A u \in Callers : m_node[u] # t
    BY Zenon, <1>0, Unwaited
  <1>2. CASE m_waiting_threads # <<>>
    <2>0. /\ m_node' = [m_node EXCEPT ![t] = h]
          /\ m_waiting_threads' = Tail(m_waiting_threads)
          /\ m_pc' = [m_pc EXCEPT ![t] = "unlock"]
      BY Zenon, <1>0, <1>2 DEF Pop, Goto
    <2>1. /\ h \in Callers /\ MutexInQueue(h)
          /\ m_waiting_threads' \in Seq(Callers)
          /\ \A i, j \in 1 .. Len(m_waiting_threads') :
                 m_waiting_threads'[i] = m_waiting_threads'[j] => i = j
          /\ \A u \in Callers : MutexInQueue(u)' <=> MutexInQueue(u) /\ u # h
      BY Zenon, <1>2, <2>0, MutexPopped
    <2>2. QueueType'
      BY Zenon, <1>0, <2>0, <2>1 DEF Waking, QueueType
    <2>3. /\ m_pc'[t] = "unlock" /\ m_node'[t] = h
          /\ \A u \in Callers : u # t => m_pc'[u] = m_pc[u] /\ m_node'[u] = m_node[u]
      BY Zenon, <2>0 DEF Waking, QueueType
    <2>4. m_pc[h] = "blocked" /\ m_state[h] = "WAITING" /\ h # t
      BY Zenon, <1>1, <2>1 DEF Waking, WakersKept, MutexOneWaker
    <2>5. MutexOneWaker'
      <3>1. ASSUME NEW u \in Callers, MutexInQueue(u)'
            PROVE /\ m_pc'[u] = "blocked" /\ m_state'[u] = "WAITING"
                  /\ \A v \in Callers : m_node'[v] # u
        BY <1>0, <1>1, <2>1, <2>3, <3>1 DEF Waking, WakersKept, MutexOneWaker
      <3>2. ASSUME NEW u \in Callers, m_pc'[u] = "unlock"
            PROVE /\ m_node'[u] \in Callers
                  /\ m_pc'[m_node'[u]] = "blocked" /\ m_state'[m_node'[u]] = "WAITING"
                  /\ \A v \in Callers : m_node'[v] = m_node'[u] => v = u
        BY <1>0, <1>1, <2>1, <2>3, <2>4, <3>2 DEF Waking, WakersKept, MutexOneWaker
      <3>3. ASSUME NEW u \in Callers, m_pc'[u] # "unlock" PROVE m_node'[u] = NONE
        BY <2>3, <3>3 DEF Waking, WakersKept, MutexOneWaker
      <3> QED BY Zenon, <2>1, <3>1, <3>2, <3>3 DEF MutexOneWaker
    <2>6. h \in MutexWoken'
      BY Zenon, <2>1, <2>3, <2>4 DEF MutexWoken
    <2> QED BY Zenon, <2>2, <2>5, <2>6 DEF Waking, WakersKept, MutexNoLostWakeup
  <1>3. CASE m_waiting_threads = <<>>
    <2>0. /\ UNCHANGED <<m_node, m_waiting_threads>>
          /\ \E l \in {"user", "schedule"} : m_pc' = [m_pc EXCEPT ![t] = l]
      BY Zenon, <1>0, <1>3 DEF Pop, Goto
    <2>1. QueueType'
      BY Zenon, <1>0, <2>0 DEF Waking, QueueType
    <2>2. /\ m_pc'[t] \in {"user", "schedule"}
          /\ \A u \in Callers : u # t => m_pc'[u] = m_pc[u]
      BY Zenon, <2>0 DEF Waking, QueueType
    <2>3. MutexOneWaker'
      BY <1>0, <1>1, <2>0, <2>2 DEF Waking, WakersKept, MutexOneWaker, MutexInQueue
    <2>4. MutexNoLostWakeup'
      BY Zenon, <1>3, <2>0 DEF MutexNoLostWakeup
    <2> QED BY Zenon, <2>1, <2>3, <2>4 DEF Waking, WakersKept
  <1> QED BY Zenon, <1>2, <1>3

LEMMA UnlockWaking ==
    ASSUME MutexAssumption, Waking, NEW t \in Callers, MutexUnlock(t)
    PROVE  Waking'
  <1> DEFINE u == m_node[t]
  <1>0. m_pc[t] = "unlock" /\ UNCHANGED <<m_init, free, m_waiting_threads>>
    BY Zenon DEF MutexUnlock
  <1>1. /\ u \in Callers /\ m_pc[u] = "blocked" /\ u # t /\ ~MutexInQueue(u)
        /\ \A v \in Callers : m_node[v] = u => v = t
    BY Zenon, <1>0 DEF Waking, WakersKept, MutexOneWaker
  <1>2. QueueType'
    BY Zenon, <1>0, <1>1 DEF Waking, QueueType, MutexUnlock, Goto
  <1>3. /\ m_pc'[t] = "schedule" /\ m_node'[t] = NONE
        /\ \A v \in Callers : v # t => m_pc'[v] = m_pc[v] /\ m_node'[v] = m_node[v]
        /\ \A v \in Callers : v # u => m_state'[v] = m_state[v]
    BY Zenon DEF Waking, QueueType, MutexUnlock, Goto
  <1>4. \A v \in Callers : MutexInQueue(v)' <=> MutexInQueue(v)
    BY Zenon, <1>0 DEF MutexInQueue
  <1>5. MutexOneWaker'
    <2>1. \A i, j \in 1 .. Len(m_waiting_threads') :
              m_waiting_threads'[i] = m_waiting_threads'[j] => i = j
      BY <1>0 DEF Waking, WakersKept, MutexOneWaker
    <2>2. ASSUME NEW v \in Callers, MutexInQueue(v)'
          PROVE /\ m_pc'[v] = "blocked" /\ m_state'[v] = "WAITING"
                /\ \A w \in Callers : m_node'[w] # v
      <3>1. /\ v # u /\ m_pc[v] = "blocked" /\ m_state[v] = "WAITING"
            /\ \A w \in Callers : m_node[w] # v
        BY <1>1, <1>4, <2>2 DEF Waking, WakersKept, MutexOneWaker
      <3>2. v # t
        BY Zenon, <1>0, <3>1
      <3> QED BY Zenon, <1>3, <3>1, <3>2 DEF MutexAssumption
    <2>3. ASSUME NEW v \in Callers, m_pc'[v] = "unlock"
          PROVE /\ m_node'[v] \in Callers
                /\ m_pc'[m_node'[v]] = "blocked" /\ m_state'[m_node'[v]] = "WAITING"
                /\ \A w \in Callers : m_node'[w] = m_node'[v] => w = v
      <3>1. v # t /\ m_pc[v] = "unlock" /\ m_node'[v] = m_node[v]
        BY Zenon, <1>3, <2>3
      <3>2. /\ m_node[v] \in Callers /\ m_pc[m_node[v]] = "blocked"
            /\ m_state[m_node[v]] = "WAITING"
            /\ \A w \in Callers : m_node[w] = m_node[v] => w = v
        BY Zenon, <3>1 DEF Waking, WakersKept, MutexOneWaker
      <3>3. m_node[v] # u /\ m_node[v] # t
        BY Zenon, <1>0, <1>1, <3>1, <3>2
      <3> QED BY Zenon, <1>3, <3>1, <3>2, <3>3 DEF MutexAssumption
    <2>4. ASSUME NEW v \in Callers, m_pc'[v] # "unlock" PROVE m_node'[v] = NONE
      BY <1>3, <2>4 DEF Waking, WakersKept, MutexOneWaker
    <2> QED BY Zenon, <2>1, <2>2, <2>3, <2>4 DEF MutexOneWaker
  <1>6. MutexWoken' = MutexWoken
    BY Zenon, <1>0, <1>3, <1>4 DEF MutexWoken
  <1> QED BY Zenon, <1>0, <1>2, <1>5, <1>6 DEF Waking, WakersKept, MutexNoLostWakeup

LEMMA DestroyWaking ==
    ASSUME Waking, NEW t \in Callers, mutex_destroy(t)
    PROVE  Waking'
  <1>0. /\ m_waiting_threads' = <<>> /\ m_init' = FALSE /\ UNCHANGED <<m_pc, m_node>>
        /\ m_state' = [u \in Callers |-> IF MutexInQueue(u) THEN "READY" ELSE m_state[u]]
    BY Zenon DEF mutex_destroy
  <1>1. QueueType'
    BY <1>0 DEF Waking, QueueType
  <1>2. \A u \in Callers : ~MutexInQueue(u)'
    BY <1>0 DEF MutexInQueue
  <1>3. MutexOneWaker'
    <2>1. ASSUME NEW v \in Callers, m_pc'[v] = "unlock"
          PROVE /\ m_node'[v] \in Callers
                /\ m_pc'[m_node'[v]] = "blocked" /\ m_state'[m_node'[v]] = "WAITING"
                /\ \A w \in Callers : m_node'[w] = m_node'[v] => w = v
      <3>1. /\ m_node[v] \in Callers /\ m_pc[m_node[v]] = "blocked"
            /\ m_state[m_node[v]] = "WAITING" /\ ~MutexInQueue(m_node[v])
            /\ \A w \in Callers : m_node[w] = m_node[v] => w = v
        BY Zenon, <1>0, <2>1 DEF Waking, WakersKept, MutexOneWaker
      <3> QED BY Zenon, <1>0, <3>1
    <2>2. ASSUME NEW v \in Callers, m_pc'[v] # "unlock" PROVE m_node'[v] = NONE
      BY Zenon, <1>0, <2>2 DEF Waking, WakersKept, MutexOneWaker
    <2>3. \A i, j \in 1 .. Len(m_waiting_threads') :
              m_waiting_threads'[i] = m_waiting_threads'[j] => i = j
      BY <1>0
    <2> QED BY Zenon, <1>2, <2>1, <2>2, <2>3 DEF MutexOneWaker
  <1>4. MutexNoLostWakeup'
    BY Zenon, <1>0 DEF MutexNoLostWakeup
  <1> QED BY Zenon, <1>1, <1>3, <1>4 DEF Waking, WakersKept

LEMMA NextWaking ==
    ASSUME MutexAssumption, Waking, [MutexNext]_mutexVars
    PROVE  Waking'
  <1>1. ASSUME NEW t \in Callers, Enter(t),
               m_pc[t] = "user" \/ (m_pc[t] = "blocked" /\ m_state[t] = "READY")
        PROVE  Waking'
    <2>1. CASE MutexBlock(t)
      BY Zenon, <1>1, <2>1, BlockWaking
    <2>2. CASE MutexAcquire(t)
      <3>1. /\ m_state' = [m_state EXCEPT ![t] = "RUNNING"] /\ Goto(t, "user")
            /\ UNCHANGED <<m_waiting_threads, m_node>> /\ ~free'
        BY Zenon, <2>2 DEF MutexAcquire
      <3> QED BY Zenon, <1>1, <3>1, LeaveWaking
    <2> QED BY Zenon, <1>1, <2>1, <2>2 DEF Enter
  <1>2. ASSUME NEW prio \in Elevations, mutex_init(prio) PROVE Waking'
    <2>1. /\ m_waiting_threads' = <<>> /\ UNCHANGED <<m_state, m_pc, m_node>>
          /\ \A t \in Callers : m_pc[t] = "user"
      BY Zenon, <1>2 DEF mutex_init
    <2>2. QueueType'
      BY <2>1 DEF Waking, QueueType
    <2>3. \A u \in Callers : ~MutexInQueue(u)'
      BY <2>1 DEF MutexInQueue
    <2>4. MutexOneWaker'
      BY <2>1, <2>3 DEF Waking, WakersKept, MutexOneWaker
    <2> QED BY Zenon, <2>1, <2>2, <2>4 DEF Waking, WakersKept, MutexNoLostWakeup
  <1>3. ASSUME NEW t \in Callers, mutex_try_pend(t) PROVE Waking'
    <2>1. UNCHANGED <<m_waiting_threads, m_state, m_pc, m_node>> /\ ~free'
      BY Zenon, <1>3 DEF mutex_try_pend, queue
    <2>2. QueueType' /\ MutexOneWaker'
      BY <2>1 DEF Waking, WakersKept, QueueType, MutexOneWaker, MutexInQueue
    <2> QED BY Zenon, <2>1, <2>2 DEF Waking, WakersKept, MutexNoLostWakeup
  <1>4. ASSUME NEW t \in Callers, MutexResumeFails(t) PROVE Waking'
    <2>1. /\ m_pc[t] = "blocked" /\ m_state[t] = "READY"
          /\ m_state' = [m_state EXCEPT ![t] = "RUNNING"] /\ Goto(t, "user")
          /\ UNCHANGED <<m_waiting_threads, m_node>> /\ ~m_init'
      BY Zenon, <1>4 DEF MutexResumeFails
    <2> QED BY Zenon, <2>1, LeaveWaking
  <1>5. ASSUME NEW t \in Callers, MutexSchedule(t) PROVE Waking'
    <2>1. /\ m_pc[t] = "schedule" /\ UNCHANGED <<m_init, free, m_waiting_threads, m_state, m_node>>
          /\ m_pc' = [m_pc EXCEPT ![t] = "user"]
      BY Zenon, <1>5 DEF MutexSchedule, Goto, queue
    <2>2. QueueType'
      BY Zenon, <2>1 DEF Waking, QueueType
    <2>3. m_pc'[t] = "user" /\ \A u \in Callers : u # t => m_pc'[u] = m_pc[u]
      BY Zenon, <2>1 DEF Waking, QueueType
    <2>4. \A v \in Callers : MutexInQueue(v)' <=> MutexInQueue(v)
      BY Zenon, <2>1 DEF MutexInQueue
    <2>5. MutexOneWaker'
      BY <2>1, <2>3, <2>4 DEF Waking, WakersKept, MutexOneWaker
    <2>6. MutexWoken' = MutexWoken
      BY Zenon, <2>1, <2>3, <2>4 DEF MutexWoken
    <2> QED BY Zenon, <2>1, <2>2, <2>5, <2>6 DEF Waking, WakersKept, MutexNoLostWakeup
  <1>6. CASE UNCHANGED mutexVars
    <2>1. MutexWoken' = MutexWoken
      BY Zenon, <1>6 DEF mutexVars, MutexWoken, MutexInQueue
    <2>2. QueueType' /\ MutexOneWaker'
      BY <1>6 DEF Waking, WakersKept, mutexVars, QueueType, MutexOneWaker, MutexInQueue
    <2> QED BY Zenon, <1>6, <2>1, <2>2 DEF Waking, WakersKept, mutexVars, MutexNoLostWakeup
  <1> QED BY Zenon, <1>1, <1>2, <1>3, <1>4, <1>5, <1>6, PostWaking, UnlockWaking, DestroyWaking
          DEF MutexNext, MutexContinue, mutex_pend, MutexResume, Call
-----------------------------------------------------------------------------
\* Nobody holds a free mutex, so its new holder is the only one.
LEMMA TakeHolding ==
    ASSUME MutexAssumption, Holding, m_init, free, NEW t \in Callers,
           free' = FALSE, UNCHANGED <<m_init, elevation>>,
           held' = [held EXCEPT ![t] = @ + 1],
           locker_tid' \in Callers \cup {NONE},
           \/ /\ before' = [before EXCEPT ![t] = NONE]
              /\ UNCHANGED <<acquired_thread_priority, priority>>
           \/ /\ before' = [before EXCEPT ![t] = priority[t]]
              /\ IF elevation = NONE
                 THEN UNCHANGED <<acquired_thread_priority, priority>>
                 ELSE /\ acquired_thread_priority' = priority[t]
                      /\ SetPriority(t, elevation \div 256)
    PROVE  Holding'
  <1>0. \A u \in Callers : held[u] = 0
    BY DEF Holding, FieldsType, Exclusion
  <1>1. held' \in [Callers -> 0 .. 1] /\ \A u \in Callers : held'[u] > 0 => u = t
    BY <1>0 DEF Holding, FieldsType
  <1>2. before' \in [Callers -> 0 .. Lowest \cup {NONE}]
    BY Zenon DEF Holding, FieldsType
  <1>3. /\ acquired_thread_priority' \in 0 .. Lowest
        /\ priority' \in [Callers -> 0 .. Lowest]
    <2>1. elevation # NONE => elevation \div 256 \in 0 .. Lowest
      BY DEF Holding, FieldsType, MutexAssumption
    <2> QED BY <2>1 DEF Holding, FieldsType, SetPriority
  <1>4. FieldsType'
    <2>1. free' \in BOOLEAN /\ m_init' \in BOOLEAN
      BY Zenon DEF Holding, FieldsType
    <2> QED BY Zenon, <1>1, <1>2, <1>3, <2>1 DEF Holding, FieldsType
  <1>5. Exclusion' /\ HeldExists'
    BY Zenon, <1>1 DEF Exclusion, HeldExists
  <1>6. Lent'
    <2>1. ASSUME before'[t] # NONE
          PROVE  IF elevation' = NONE THEN priority'[t] = before'[t]
                 ELSE acquired_thread_priority' = before'[t]
      BY Zenon, <2>1 DEF Holding, FieldsType
    <2> QED BY Zenon, <1>1, <2>1 DEF Lent
  <1> QED BY Zenon, <1>4, <1>5, <1>6 DEF Holding

LEMMA PostHolding ==
    ASSUME MutexAssumption, Holding, NEW t \in Callers, mutex_post(t)
    PROVE  Holding'
  <1>0. /\ m_init /\ held[t] > 0 /\ free' = TRUE /\ RestorePriority(t)
        /\ held' = [held EXCEPT ![t] = @ - 1]
        /\ before' = [before EXCEPT ![t] = NONE]
        /\ UNCHANGED <<m_init, elevation, locker_tid>>
    BY Zenon DEF mutex_post, Call
  <1>1. held' \in [Callers -> 0 .. 1] /\ \A u \in Callers : held'[u] = 0
    BY <1>0 DEF Holding, FieldsType, Exclusion
  <1>2. FieldsType'
    <2>1. free' \in BOOLEAN /\ m_init' \in BOOLEAN
      BY <1>0, Zenon DEF Holding, FieldsType
    <2>2. before' \in [Callers -> 0 .. Lowest \cup {NONE}]
      BY Zenon, <1>0 DEF Holding, FieldsType
    <2>3. /\ acquired_thread_priority' \in 0 .. Lowest
          /\ priority' \in [Callers -> 0 .. Lowest]
      <3>1. /\ acquired_thread_priority \in 0 .. Lowest /\ Lowest \in Nat
            /\ priority \in [Callers -> 0 .. Lowest]
        BY Zenon DEF Holding, FieldsType, MutexAssumption
      <3>2. Lowest \in 0 .. Lowest
        BY <3>1
      <3> QED BY Zenon, <1>0, <3>1, <3>2 DEF RestorePriority, SetPriority
    <2> QED BY Zenon, <1>0, <1>1, <2>1, <2>2, <2>3 DEF Holding, FieldsType
  <1> QED BY <1>1, <1>2 DEF Holding, Exclusion, HeldExists, Lent

LEMMA NextHolding ==
    ASSUME MutexAssumption, ~Recursive, Holding, [MutexNext]_mutexVars
    PROVE  Holding'
  <1>1. ASSUME UNCHANGED <<m_init, free, elevation, locker_tid, acquired_thread_priority,
                           priority, held, before>>
        PROVE  Holding'
    BY Zenon, <1>1 DEF Holding, FieldsType, Exclusion, HeldExists, Lent
  <1>2. ASSUME NEW prio \in Elevations, mutex_init(prio) PROVE Holding'
    <2>1. /\ ~m_init /\ m_init' = TRUE /\ free' = TRUE /\ elevation' = prio
          /\ locker_tid' = NONE /\ acquired_thread_priority' = 0
          /\ UNCHANGED <<priority, held, before>>
      BY Zenon, <1>2 DEF mutex_init
    <2>2. \A t \in Callers : held'[t] = 0
      BY Zenon, <2>1 DEF Holding, HeldExists
    <2>3. free' \in BOOLEAN /\ m_init' \in BOOLEAN
      BY <2>1, Zenon
    <2>4. FieldsType'
      BY <2>1, <2>3 DEF Holding, FieldsType, MutexAssumption
    <2> QED BY <2>2, <2>4 DEF Holding, Exclusion, HeldExists, Lent
  <1>3. ASSUME NEW t \in Callers, m_init, Enter(t) PROVE Holding'
    <2>1. CASE MutexBlock(t)
      BY Zenon, <1>1, <2>1 DEF MutexBlock
    <2>2. CASE free /\ MutexAcquire(t)
      <3>1. /\ free' = FALSE /\ UNCHANGED <<m_init, elevation>>
            /\ held' = [held EXCEPT ![t] = @ + 1] /\ locker_tid' = t
            /\ before' = [before EXCEPT ![t] = priority[t]]
            /\ IF elevation = NONE
               THEN UNCHANGED <<acquired_thread_priority, priority>>
               ELSE /\ acquired_thread_priority' = priority[t]
                    /\ SetPriority(t, elevation \div 256)
        BY Zenon, <2>2 DEF MutexAcquire
      <3> QED BY Zenon, <1>3, <2>2, <3>1, TakeHolding
    <2> QED BY Zenon, <1>3, <2>1, <2>2 DEF Enter
  <1>4. ASSUME NEW t \in Callers, mutex_try_pend(t) PROVE Holding'
    <2>1. /\ m_init /\ free /\ free' = FALSE
          /\ UNCHANGED <<m_init, elevation, locker_tid, acquired_thread_priority, priority>>
          /\ held' = [held EXCEPT ![t] = @ + 1]
          /\ before' = [before EXCEPT ![t] = NONE]
      BY Zenon, <1>4 DEF mutex_try_pend, Call
    <2>2. locker_tid' \in Callers \cup {NONE}
      BY Zenon, <2>1 DEF Holding, FieldsType
    <2> QED BY Zenon, <2>1, <2>2, TakeHolding
  <1>5. ASSUME NEW t \in Callers, mutex_destroy(t) PROVE Holding'
    <2>1. /\ m_init' = FALSE /\ held' = [u \in Callers |-> 0]
          /\ before' = [u \in Callers |-> NONE]
          /\ UNCHANGED <<free, elevation, locker_tid, acquired_thread_priority, priority>>
      BY Zenon, <1>5 DEF mutex_destroy
    <2>2. free' \in BOOLEAN /\ m_init' \in BOOLEAN
      BY <2>1, Zenon DEF Holding, FieldsType
    <2>3. FieldsType'
      BY <2>1, <2>2 DEF Holding, FieldsType
    <2> QED BY <2>1, <2>3 DEF Holding, Exclusion, HeldExists, Lent
  <1>6. ASSUME NEW t \in Callers, MutexResumeFails(t) \/ MutexUnlock(t) \/ MutexSchedule(t)
        PROVE  Holding'
    BY Zenon, <1>1, <1>6 DEF MutexResumeFails, MutexUnlock, MutexSchedule
  <1>7. CASE UNCHANGED mutexVars
    BY Zenon, <1>1, <1>7 DEF mutexVars
  <1> QED BY Zenon, <1>2, <1>3, <1>4, <1>5, <1>6, <1>7, PostHolding
          DEF MutexNext, MutexContinue, mutex_pend, MutexResume, Call

LEMMA InitMutexInv == ASSUME MutexAssumption, MutexInit PROVE Waking /\ Holding
  <1>1. QueueType
    BY DEF MutexInit, QueueType
  <1>2. WakersKept
    BY DEF MutexInit, WakersKept, MutexOneWaker, MutexNoLostWakeup, MutexInQueue, MutexAssumption
  <1>3. FieldsType
    <2>1. m_init \in BOOLEAN /\ free \in BOOLEAN
      BY Zenon DEF MutexInit
    <2> QED BY <2>1 DEF MutexInit, FieldsType, MutexAssumption
  <1>4. Exclusion /\ HeldExists /\ Lent
    BY DEF MutexInit, Exclusion, HeldExists, Lent
  <1> QED BY Zenon, <1>1, <1>2, <1>3, <1>4 DEF Waking, Holding
-----------------------------------------------------------------------------
\* A thread that waits for a mutex has exactly one waker, which finds it WAITING,
\* and a free mutex with threads queued has a woken thread on its way to it, for
\* any threads and any elevation, recursive or not.
THEOREM WakersAreKept == ASSUME MutexAssumption PROVE MutexSpec => []WakersKept
  <1>1. MutexInit => Waking
    BY Zenon, InitMutexInv
  <1>2. Waking /\ [MutexNext]_mutexVars => Waking'
    BY Zenon, NextWaking
  <1>3. Waking => WakersKept
    BY Zenon DEF Waking
  <1> QED BY <1>1, <1>2, <1>3, PTL DEF MutexSpec

\* The fields of a mutex that is not recursive, and what the scheduler keeps of
\* its threads, are well typed.
THEOREM MutexTypes == ASSUME MutexAssumption, ~Recursive PROVE MutexSpec => []MutexTypeOK
  <1>1. MutexInit => Waking /\ Holding
    BY Zenon, InitMutexInv
  <1>2. (Waking /\ Holding) /\ [MutexNext]_mutexVars => (Waking /\ Holding)'
    BY Zenon, NextWaking, NextHolding
  <1>3. Waking /\ Holding => MutexTypeOK
    <2>1. ASSUME Holding PROVE held \in [Callers -> 0 .. MaxHeld]
      BY <2>1 DEF Holding, FieldsType, MutexAssumption
    <2> QED BY Zenon, <2>1 DEF Waking, QueueType, Holding, FieldsType, MutexTypeOK
  <1> QED BY <1>1, <1>2, <1>3, PTL DEF MutexSpec

\* At most one thread holds a mutex that is not recursive, and it is locked then,
\* for any number of threads that pend, try, post and destroy.
THEOREM OneHolder == ASSUME MutexAssumption, ~Recursive PROVE MutexSpec => []Exclusion
  <1>1. MutexInit => Holding
    BY Zenon, InitMutexInv
  <1>2. Holding /\ [MutexNext]_mutexVars => Holding'
    BY Zenon, NextHolding
  <1>3. Holding => Exclusion
    BY Zenon DEF Holding
  <1> QED BY <1>1, <1>2, <1>3, PTL DEF MutexSpec

\* mutex_post gives a thread back the priority mutex_pend found, with or without
\* elevation.
THEOREM PriorityGivenBack == ASSUME MutexAssumption, ~Recursive PROVE MutexSpec => PostRestores
  <1>1. MutexInit => Holding
    BY Zenon, InitMutexInv
  <1>2. Holding /\ [MutexNext]_mutexVars => Holding'
    BY Zenon, NextHolding
  <1>3. ASSUME Holding, [MutexNext]_mutexVars, NEW t \in Callers,
               m_init', held[t] > held'[t], before[t] # NONE
        PROVE  priority'[t] = before[t]
    <2>1. \A u \in Callers : held[u] \in 0 .. 1
      BY Zenon, <1>3 DEF Holding, FieldsType
    <2>2. ASSUME NEW u \in Callers, mutex_post(u) PROVE priority'[t] = before[t]
      <3>1. u = t
        BY <1>3, <2>1, <2>2 DEF mutex_post, Holding, FieldsType
      <3>2. IF elevation = NONE THEN priority[t] = before[t]
            ELSE acquired_thread_priority = before[t]
        BY Zenon, <1>3, <2>2, <3>1 DEF mutex_post, Holding, Lent
      <3> QED BY Zenon, <1>3, <2>2, <3>1, <3>2
              DEF mutex_post, RestorePriority, SetPriority, Holding, FieldsType
    <2>3. ASSUME held' = held PROVE FALSE
      BY <1>3, <2>1, <2>3
    <2>4. ASSUME NEW u \in Callers, held' = [held EXCEPT ![u] = @ + 1] PROVE FALSE
      BY <1>3, <2>1, <2>4 DEF Holding, FieldsType
    <2> QED BY Zenon, <1>3, <2>2, <2>3, <2>4
            DEF MutexNext, MutexContinue, mutex_init, mutex_pend, MutexResume, Enter, MutexBlock, MutexAcquire,
                mutex_try_pend, mutex_destroy, MutexResumeFails, MutexUnlock, MutexSchedule, mutexVars
  <1>4. Holding /\ [MutexNext]_mutexVars =>
            [\A t \in Callers : m_init' /\ held[t] > held'[t] /\ before[t] # NONE =>
                 priority'[t] = before[t]]_mutexVars
    BY Zenon, <1>3
  <1> QED BY <1>1, <1>2, <1>4, PTL DEF MutexSpec, PostRestores
-----------------------------------------------------------------------------
(***************************************************************************)
(* Comparing a new range with two neighbours is enough, for any addresses  *)
(* and any number of handlers, because the list is sorted: its ranges are  *)
(* not empty and each ends before the next one starts.                     *)
(***************************************************************************)
\* The ranges of list s are not empty and in the order of their addresses.
Sorted(s) ==
    /\ \A i \in 1 .. Len(s) : s[i].start < s[i].end
    /\ \A i, j \in 1 .. Len(s) : i < j => s[i].end <= s[j].start

ListInv == handler_list \in Seq(Ranges) /\ Sorted(handler_list)
-----------------------------------------------------------------------------
LEMMA RangeTypes ==
    ASSUME AddressesAssumption, NEW r \in Ranges
    PROVE  r.start \in Nat /\ r.end \in Nat
  BY Zenon DEF AddressesAssumption, Ranges

\* The search stops somewhere: at the first range that starts after r.
LEMMA CursorFound ==
    ASSUME AddressesAssumption, WellOrdered, ListInv, NEW r \in Ranges
    PROVE  LET k == HandlerCursor(r)
           IN  /\ k \in 1 .. Len(handler_list) + 1
               /\ \A j \in 1 .. k - 1 : handler_list[j].start <= r.start
               /\ k <= Len(handler_list) => handler_list[k].start > r.start
  <1> DEFINE n == Len(handler_list)
             T == {k \in 1 .. n + 1 : k <= n => handler_list[k].start > r.start}
  <1>1. n \in Nat
    BY DEF ListInv
  <1>2. n + 1 \in T /\ T \subseteq Nat
    BY <1>1
  <1>3. PICK k \in T : \A j \in T : k <= j
    BY Zenon, <1>2 DEF WellOrdered
  <1>4. ASSUME NEW j \in 1 .. k - 1 PROVE handler_list[j].start <= r.start
    <2>1. j \in 1 .. n /\ j \notin T
      BY <1>1, <1>3
    <2>2. ~(handler_list[j].start > r.start)
      BY <1>1, <2>1
    <2>3. handler_list[j].start \in Nat /\ r.start \in Nat
      BY <2>1, RangeTypes DEF ListInv
    <2> QED BY <2>2, <2>3
  <1>5. \E m \in 1 .. (n + 1) :
            /\ \A j \in 1 .. (m - 1) : handler_list[j].start <= r.start
            /\ m <= n => handler_list[m].start > r.start
    BY Zenon, <1>3, <1>4
  <1> QED BY Zenon, <1>5 DEF HandlerCursor

\* Two ranges have an address in common
Overlap(r, s) == s.start < r.end /\ r.start < s.end

LEMMA NeighboursSuffice ==
    ASSUME AddressesAssumption, WellOrdered, ListInv, NEW r \in Ranges, r.end > r.start
    PROVE  Collides(r) <=> \E k \in 1 .. Len(handler_list) : Overlap(r, handler_list[k])
  <1> DEFINE n == Len(handler_list)
             k == HandlerCursor(r)
  <1>1. /\ n \in Nat /\ k \in 1 .. n + 1
        /\ \A j \in 1 .. k - 1 : handler_list[j].start <= r.start
        /\ k <= n => handler_list[k].start > r.start
    BY CursorFound DEF ListInv
  <1>2. /\ \A i \in 1 .. n : /\ handler_list[i].start \in Nat /\ handler_list[i].end \in Nat
                             /\ handler_list[i].start < handler_list[i].end
        /\ \A i, j \in 1 .. n : i < j => handler_list[i].end <= handler_list[j].start
        /\ r.start \in Nat /\ r.end \in Nat
    BY RangeTypes DEF ListInv, Sorted
  <1>3. Collides(r) <=> \/ k > 1 /\ handler_list[k - 1].end > r.start
                        \/ k <= n /\ handler_list[k].start < r.end
    BY Zenon DEF Collides
  <1> HIDE DEF k, n
  <1>4. ASSUME k > 1, handler_list[k - 1].end > r.start
        PROVE  \E i \in 1 .. n : Overlap(r, handler_list[i])
    <2>1. k - 1 \in 1 .. n /\ k - 1 \in 1 .. k - 1
      BY <1>1, <1>4
    <2>2. handler_list[k - 1].start < r.end
      BY <1>1, <1>2, <2>1
    <2> QED BY Zenon, <1>4, <2>1, <2>2 DEF Overlap
  <1>5. ASSUME k <= n, handler_list[k].start < r.end
        PROVE  \E i \in 1 .. n : Overlap(r, handler_list[i])
    <2>1. k \in 1 .. n
      BY <1>1, <1>5
    <2>2. r.start < handler_list[k].end
      BY <1>1, <1>2, <1>5, <2>1
    <2> QED BY Zenon, <1>5, <2>1, <2>2 DEF Overlap
  <1>6. ASSUME NEW i \in 1 .. n, Overlap(r, handler_list[i]), i < k
        PROVE  k > 1 /\ handler_list[k - 1].end > r.start
    <2>1. k - 1 \in 1 .. n /\ (i = k - 1 \/ i < k - 1)
      BY <1>1, <1>6
    <2>2. handler_list[i].end <= handler_list[k - 1].end
      BY <1>2, <2>1
    <2> QED BY <1>1, <1>2, <1>6, <2>1, <2>2 DEF Overlap
  <1>7. ASSUME NEW i \in 1 .. n, Overlap(r, handler_list[i]), i >= k
        PROVE  k <= n /\ handler_list[k].start < r.end
    <2>1. k \in 1 .. n /\ (i = k \/ k < i)
      BY <1>1, <1>7
    <2>2. handler_list[k].start <= handler_list[i].start
      BY <1>2, <2>1
    <2> QED BY <1>2, <1>7, <2>1, <2>2 DEF Overlap
  <1>8. \A i \in 1 .. n : i < k \/ i >= k
    BY <1>1
  <1> QED BY Zenon, <1>3, <1>4, <1>5, <1>6, <1>7, <1>8 DEF n
-----------------------------------------------------------------------------
\* The list with r at position k.
LEMMA Inserted ==
    ASSUME NEW S, NEW s \in Seq(S), NEW r \in S, NEW k \in 1 .. Len(s) + 1
    PROVE  LET u == Linked(s, k, r)
           IN  /\ u \in Seq(S) /\ Len(u) = Len(s) + 1
               /\ \A i \in 1 .. Len(s) + 1 :
                     u[i] = IF i < k THEN s[i] ELSE IF i = k THEN r ELSE s[i - 1]
  <1> DEFINE n == Len(s)
             a == SubSeq(s, 1, k - 1)
             b == SubSeq(s, k, n)
  <1>1. n \in Nat /\ k \in 1 .. n + 1 /\ \A i \in 1 .. n : s[i] \in S
    OBVIOUS
  <1>2. /\ a \in Seq(S) /\ Len(a) = k - 1
        /\ \A i \in 1 .. k - 1 : a[i] = s[i]
    BY <1>1
  <1>3. /\ b \in Seq(S) /\ Len(b) = n - k + 1
        /\ \A i \in 1 .. n - k + 1 : b[i] = s[k + i - 1]
    BY <1>1
  <1> HIDE DEF a, b, n
  <1>4. <<r>> \in Seq(S) /\ Len(<<r>>) = 1 /\ <<r>>[1] = r
    OBVIOUS
  <1>5. /\ a \o <<r>> \in Seq(S) /\ Len(a \o <<r>>) = k
        /\ \A i \in 1 .. k : (a \o <<r>>)[i] = IF i < k THEN s[i] ELSE r
    BY <1>1, <1>2, <1>4
  <1> DEFINE c == a \o <<r>>
  <1>c. /\ c \in Seq(S) /\ Len(c) = k
        /\ \A i \in 1 .. k : c[i] = IF i < k THEN s[i] ELSE r
    BY Zenon, <1>5
  <1> HIDE DEF c
  <1>6. /\ c \o b \in Seq(S) /\ Len(c \o b) = n + 1
        /\ \A i \in 1 .. n + 1 : (c \o b)[i] = IF i <= k THEN c[i] ELSE b[i - k]
    <2>1. /\ c \o b \in Seq(S) /\ Len(c \o b) = Len(c) + Len(b)
          /\ \A i \in 1 .. Len(c) + Len(b) :
                (c \o b)[i] = IF i <= Len(c) THEN c[i] ELSE b[i - Len(c)]
      <3>1. c \in Seq(S) /\ b \in Seq(S)
        BY Zenon, <1>3, <1>c
      <3> QED BY <3>1
    <2>2. Len(c) + Len(b) = n + 1
      BY <1>1, <1>3, <1>c
    <2> QED BY Zenon, <1>c, <2>1, <2>2
  <1>7. ASSUME NEW i \in 1 .. n + 1
        PROVE  (c \o b)[i] = IF i < k THEN s[i] ELSE IF i = k THEN r ELSE s[i - 1]
    <2>1. CASE i <= k
      <3>1. i \in 1 .. k /\ (c \o b)[i] = c[i]
        BY <1>1, <1>6, <2>1
      <3> QED BY <1>1, <1>c, <2>1, <3>1
    <2>2. CASE i > k
      <3>1. i - k \in 1 .. n - k + 1 /\ k + (i - k) - 1 = i - 1
        BY <1>1, <2>2
      <3>2. b[i - k] = s[i - 1]
        BY Zenon, <1>3, <3>1
      <3>3. (c \o b)[i] = b[i - k]
        BY <1>1, <1>6, <2>2
      <3>4. ~(i < k) /\ i # k
        BY <1>1, <2>2
      <3> QED BY Zenon, <3>2, <3>3, <3>4
    <2>3. i <= k \/ i > k
      BY <1>1
    <2> QED BY <2>1, <2>2, <2>3, Zenon
  <1>8. Linked(s, k, r) = c \o b
    BY Zenon DEF Linked, a, b, c, n
  <1> QED BY Zenon, <1>6, <1>7, <1>8 DEF n

\* A range that collides with none is put where the list stays sorted.
LEMMA InsertSorted ==
    ASSUME AddressesAssumption, WellOrdered, ListInv, NEW r \in Ranges, r.end > r.start, ~Collides(r)
    PROVE  LET u == Linked(handler_list, HandlerCursor(r), r)
           IN  u \in Seq(Ranges) /\ Sorted(u)
  <1> DEFINE n == Len(handler_list)
             k == HandlerCursor(r)
             u == Linked(handler_list, k, r)
  <1>1. /\ n \in Nat /\ k \in 1 .. n + 1
        /\ \A j \in 1 .. k - 1 : handler_list[j].start <= r.start
        /\ k <= n => handler_list[k].start > r.start
    BY CursorFound DEF ListInv
  <1>2. /\ \A i \in 1 .. n : /\ handler_list[i].start \in Nat /\ handler_list[i].end \in Nat
                             /\ handler_list[i].start < handler_list[i].end
        /\ \A i, j \in 1 .. n : i < j => handler_list[i].end <= handler_list[j].start
        /\ r.start \in Nat /\ r.end \in Nat
    BY RangeTypes DEF ListInv, Sorted
  <1>3. \A i \in 1 .. n : ~Overlap(r, handler_list[i])
    BY Zenon, NeighboursSuffice
  <1> HIDE DEF k
  <1>4. /\ u \in Seq(Ranges) /\ Len(u) = n + 1
        /\ \A i \in 1 .. n + 1 :
              u[i] = IF i < k THEN handler_list[i] ELSE IF i = k THEN r ELSE handler_list[i - 1]
    BY <1>1, Inserted DEF ListInv
  <1> HIDE DEF n, u
  <1>5. \A i \in 1 .. k - 1 : i \in 1 .. n /\ handler_list[i].end <= r.start
    <2>1. ASSUME NEW i \in 1 .. k - 1 PROVE i \in 1 .. n /\ handler_list[i].end <= r.start
      <3>1. i \in 1 .. n
        BY <1>1
      <3>2. handler_list[i].start < r.end
        BY <1>1, <1>2, <3>1
      <3> QED BY <1>2, <1>3, <3>1, <3>2 DEF Overlap
    <2> QED BY Zenon, <2>1
  <1>6. \A i \in k .. n : i \in 1 .. n /\ r.end <= handler_list[i].start
    <2>1. ASSUME NEW i \in k .. n PROVE i \in 1 .. n /\ r.end <= handler_list[i].start
      <3>1. i \in 1 .. n /\ k \in 1 .. n /\ (i = k \/ k < i)
        BY <1>1
      <3>2. handler_list[k].start <= handler_list[i].start
        BY <1>2, <3>1
      <3>3. r.start < handler_list[i].end
        BY <1>1, <1>2, <3>1, <3>2
      <3> QED BY <1>2, <1>3, <3>1, <3>3 DEF Overlap
    <2> QED BY Zenon, <2>1
  <1>7. ASSUME NEW i \in 1 .. n + 1 PROVE u[i].start < u[i].end
    <2>1. CASE i < k
      BY <1>1, <1>2, <1>4, <2>1
    <2>2. CASE i = k
      BY <1>1, <1>4, <2>2
    <2>3. CASE i > k
      <3>1. i - 1 \in 1 .. n
        BY <1>1, <2>3
      <3>2. u[i] = handler_list[i - 1]
        BY <1>1, <1>4, <2>3
      <3> QED BY Zenon, <1>2, <3>1, <3>2
    <2> QED BY <1>1, <2>1, <2>2, <2>3
  <1>8. ASSUME NEW i \in 1 .. n + 1, NEW j \in 1 .. n + 1, i < j
        PROVE  u[i].end <= u[j].start
    <2>1. CASE j < k
      <3>1. i \in 1 .. n /\ j \in 1 .. n /\ u[i] = handler_list[i] /\ u[j] = handler_list[j]
        BY <1>1, <1>4, <1>8, <2>1
      <3> QED BY Zenon, <1>2, <1>8, <3>1
    <2>2. CASE j = k
      <3>1. i \in 1 .. k - 1 /\ u[i] = handler_list[i] /\ u[j] = r
        BY <1>1, <1>4, <1>8, <2>2
      <3> QED BY Zenon, <1>5, <3>1
    <2>3. CASE j > k
      <3>1. j - 1 \in k .. n /\ j - 1 \in 1 .. n /\ u[j] = handler_list[j - 1]
        BY <1>1, <1>4, <2>3
      <3>2. CASE i = k
        <4>1. u[i] = r
          BY <1>1, <1>4, <3>2
        <4> QED BY Zenon, <1>6, <3>1, <4>1
      <3>3. CASE i < k
        <4>1. i \in 1 .. n /\ i < j - 1 /\ u[i] = handler_list[i]
          BY <1>1, <1>4, <2>3, <3>3
        <4> QED BY Zenon, <1>2, <3>1, <4>1
      <3>4. CASE i > k
        <4>1. i - 1 \in 1 .. n /\ i - 1 < j - 1 /\ u[i] = handler_list[i - 1]
          BY <1>1, <1>4, <1>8, <3>4
        <4> QED BY Zenon, <1>2, <3>1, <4>1
      <3> QED BY <1>1, <3>2, <3>3, <3>4
    <2> QED BY <1>1, <2>1, <2>2, <2>3
  <1> QED BY Zenon, <1>4, <1>7, <1>8 DEF Sorted, u, k

LEMMA ListNextInv ==
    ASSUME AddressesAssumption, WellOrdered, ListInv, [HandlersNext]_handlerVars
    PROVE  ListInv'
  <1>1. CASE UNCHANGED handler_list
    BY Zenon, <1>1 DEF ListInv, Sorted
  <1>2. ASSUME NEW r \in Ranges, NEW mem \in BOOLEAN, paging_register_fault_handler(r, mem),
               handler_list' # handler_list
        PROVE  ListInv'
    <2>1. /\ r.end > r.start /\ ~Collides(r)
          /\ handler_list' = Linked(handler_list, HandlerCursor(r), r)
      BY Zenon, <1>2 DEF paging_register_fault_handler
    <2> QED BY Zenon, <2>1, InsertSorted DEF ListInv, Sorted
  <1>3. ASSUME NEW a \in Addresses, paging_fault_general_handler(a)
        PROVE  UNCHANGED handler_list
    BY Zenon, <1>3 DEF paging_fault_general_handler
  <1> QED BY Zenon, <1>1, <1>2, <1>3 DEF HandlersNext, handlerVars
-----------------------------------------------------------------------------
(* The theorems about the semaphore and the fault handlers.  The facts about *)
(* numbers that the invariants take as hypotheses follow from the library's. *)
INSTANCE FiniteSetTheorems
INSTANCE WellFoundedInduction

LEMMA FiniteCounted == ASSUME NEW S, IsFiniteSet(S) PROVE Counted(S)
  <1>1. Cardinality({}) = 0
    BY Zenon, FS_EmptySet
  <1>2. ASSUME NEW T \in SUBSET S
        PROVE  IsFiniteSet(T) /\ Cardinality(T) \in Nat
    <2>1. IsFiniteSet(T)
      BY Zenon, FS_Subset
    <2> QED BY Zenon, <2>1, FS_CardinalityType
  <1>3. ASSUME NEW T \in SUBSET S, NEW e \in S
        PROVE  /\ e \notin T => Cardinality(T \cup {e}) = Cardinality(T) + 1
               /\ e \in T => Cardinality(T \ {e}) = Cardinality(T) - 1
    BY Zenon, <1>2, FS_AddElement, FS_RemoveElement
  <1> QED BY Zenon, <1>1, <1>2, <1>3 DEF Counted

LEMMA LeastNumber == WellOrdered
  <1> SUFFICES ASSUME NEW T, T \subseteq Nat, T # {}
               PROVE  \E n \in T : \A m \in T : n <= m
    BY Zenon DEF WellOrdered
  <1> DEFINE R == OpToRel(<, Nat)
  <1>1. IsWellFoundedOn(R, Nat)
    BY Zenon, NatLessThanWellFounded
  <1>2. \A i, j \in Nat : i < j => <<i, j>> \in R
    BY Zenon DEF OpToRel
  <1> HIDE DEF R
  <1>3. PICK n \in T : \A m \in T : ~ (<<m, n>> \in R)
    BY Zenon, <1>1, WFMin
  <1>4. ASSUME NEW m \in T  PROVE n <= m
    <2>1. n \in Nat /\ m \in Nat
      BY Zenon
    <2>2. ~ (m < n)
      BY Zenon, <1>2, <1>3, <2>1
    <2> QED BY <2>1, <2>2
  <1> QED BY Zenon, <1>4
-----------------------------------------------------------------------------
LEMMA SemInvariant == Spec => []SemInv
  <1>1. SemInv /\ [Next]_vars => SemInv'
    <2>1. Counted(Threads)
      BY Zenon, FiniteCounted, ThreadsAssumption
    <2> QED BY Zenon, <2>1, NextSemInv
  <1> QED BY <1>1, InitSemInv, PTL DEF Spec

\* The state of the semaphore and of its threads is well typed, and sem_pend
\* never takes the level below its floor, for any number of threads.
THEOREM SemaphoreTypes == Spec => []TypeOK
  <1>1. SemInv => TypeOK
    BY Zenon DEF SemInv
  <1> QED BY <1>1, SemInvariant, PTL

\* Every thread blocked in sem_pend has exactly one waker, so sched_unlock_thread
\* never meets a thread that does not wait: sem_post and sem_destroy do not
\* panic, for any number of threads.
THEOREM ExactlyOneWaker == Spec => []OneWaker
  <1>1. SemInv => OneWaker
    BY Zenon DEF SemInv
  <1> QED BY <1>1, SemInvariant, PTL

\* No wake-up of sem_post is lost, for any number of threads and any levels.
THEOREM WakeupsKept == Spec => []NoLostWakeup
  <1>1. SemInv => NoLostWakeup
    BY Zenon DEF SemInv
  <1> QED BY <1>1, SemInvariant, PTL

\* semaphore.c implements the abstract counting semaphore, for any number of
\* threads and any levels.
THEOREM Refinement == Spec => ImplementsAbstract
  <1>1. Init => Abstract!Init
    BY Zenon DEF Init, Abstract!Init
  <1> QED BY <1>1, StepRefines, SemInvariant, PTL
          DEF Spec, ImplementsAbstract, Abstract!Spec
-----------------------------------------------------------------------------
\* Ranges are accepted exactly when they overlap no registered one, and a fault
\* has at most one handler, for any addresses and any number of handlers.
THEOREM NeighboursAreEnough ==
    ASSUME AddressesAssumption PROVE HandlersSpec => []HandlersDecided
  <1>1. HandlersInit => ListInv
    BY DEF HandlersInit, ListInv, Sorted
  <1>2. ListInv /\ [HandlersNext]_handlerVars => ListInv'
    BY Zenon, LeastNumber, ListNextInv
  <1>3. ListInv => HandlersDecided
    <2> SUFFICES ASSUME ListInv PROVE HandlersDecided
      BY Zenon
    <2>1. DOMAIN handler_list = 1 .. Len(handler_list)
      BY DEF ListInv
    <2>2. OneHandlerPerFault
      <3>1. ASSUME NEW i \in 1 .. Len(handler_list), NEW j \in 1 .. Len(handler_list), i # j
            PROVE  \/ handler_list[i].end <= handler_list[j].start
                   \/ handler_list[j].end <= handler_list[i].start
        <4>1. i < j \/ j < i
          BY <3>1 DEF ListInv
        <4> QED BY Zenon, <4>1 DEF ListInv, Sorted
      <3> QED BY <2>1, <3>1 DEF OneHandlerPerFault
    <2>3. NeighboursDecide
      BY <2>1, LeastNumber, NeighboursSuffice DEF NeighboursDecide, Overlap
    <2> QED BY <2>2, <2>3 DEF HandlersDecided
  <1> QED BY <1>1, <1>2, <1>3, PTL DEF HandlersSpec
=============================================================================
