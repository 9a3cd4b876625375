----------------------------- MODULE CommProofs -----------------------------
(***************************************************************************)
(* The communication queue implements a bounded FIFO buffer, for any       *)
(* finite set of threads, any values and any size.  The invariant that     *)
(* makes the step of a reader take the head of the buffer, and that of a   *)
(* writer find a free slot, is that the four counts agree: the levels of   *)
(* the semaphores, the threads that are past them, and size.  A destroyed  *)
(* queue keeps it as an inequality: a writer that was past its semaphore   *)
(* still stores its element.                                               *)
(***************************************************************************)
EXTENDS Comm, Numbers, TLAPS

QueueTokens ==
    /\ q_read_level + Cardinality(Past("got")) <= size
    /\ q_write_level + Cardinality(Past("room")) + size <= Size
    /\ q_init => /\ q_read_level + Cardinality(Past("got")) = size
                 /\ q_write_level + Cardinality(Past("room")) + size = Size
    /\ index_top = (index_bot + size) % Size

QueueFields ==
    /\ q_init \in BOOLEAN /\ q_sems = q_init
    /\ container \in [Slots -> Values \cup {EMPTY}]
    /\ index_top \in Slots /\ index_bot \in Slots
    /\ size \in Nat /\ q_read_level \in Nat /\ q_write_level \in Nat

QueueUsers ==
    /\ q_readers \subseteq Users /\ q_writers \subseteq Users
    /\ q_pc \in [Users -> {"user", "pend", "got", "post", "room"}]
    /\ q_element \in [Users -> Values \cup {EMPTY}]
    /\ \A t \in Users : q_pc[t] \in {"post", "room"} => q_element[t] \in Values

QueueInv == QueueFields /\ QueueUsers /\ QueueTokens
-----------------------------------------------------------------------------
\* An index that has passed the end of the array once wraps by one length.
LEMMA Wrap ==
    ASSUME NEW n \in Nat \ {0}, NEW x \in 0 .. 2 * n - 1
    PROVE  x % n = IF x < n THEN x ELSE x - n
  <1>1. CASE x < n
    BY <1>1, SMT
  <1>2. CASE x >= n
    <2>1. x = n * 1 + (x - n) /\ x - n \in 0 .. n - 1
      BY <1>2, SMT
    <2> QED BY <1>2, <2>1, SMT
  <1> QED BY <1>1, <1>2, SMT

\* The threads at a place are finitely many ...
LEMMA QueueCounted ==
    ASSUME Counted(Users), NEW l
    PROVE  Past(l) \in SUBSET Users /\ Cardinality(Past(l)) \in Nat
  <1>1. Past(l) \in SUBSET Users
    BY Zenon DEF Past
  <1> QED BY Zenon, <1>1 DEF Counted

\* ... one more when a thread arrives, one less when it leaves.
LEMMA QueueArrive ==
    ASSUME CommAssumption, Counted(Users), QueueUsers, NEW t \in Users,
           NEW l, q_pc[t] # l, QueueGoto(t, l)
    PROVE  Cardinality(Past(l)') = Cardinality(Past(l)) + 1
  <1>1. Past(l)' = Past(l) \cup {t} /\ t \notin Past(l)
    BY Zenon DEF Past, QueueGoto, QueueUsers
  <1> QED BY Zenon, <1>1, QueueCounted DEF Counted

LEMMA QueueDepart ==
    ASSUME CommAssumption, Counted(Users), QueueUsers, NEW t \in Users, NEW l, NEW m,
           q_pc[t] = l, m # l, QueueGoto(t, m)
    PROVE  /\ Cardinality(Past(l)') = Cardinality(Past(l)) - 1
           /\ Cardinality(Past(l)) > 0
  <1>1. Past(l)' = Past(l) \ {t} /\ t \in Past(l)
    BY Zenon DEF Past, QueueGoto, QueueUsers
  <1>2. /\ Cardinality(Past(l)') = Cardinality(Past(l)) - 1
        /\ Cardinality(Past(l)) \in Nat /\ Cardinality(Past(l)') \in Nat
    BY Zenon, <1>1, QueueCounted DEF Counted
  <1> QED BY <1>2

LEMMA QueueSome ==
    ASSUME Counted(Users), NEW l, NEW t \in Past(l)
    PROVE  Cardinality(Past(l)) # 0
  <1>1. t \in Users /\ Past(l) \ {t} \in SUBSET Users
    BY Zenon DEF Past
  <1>2. /\ Cardinality(Past(l)) \in Nat /\ Cardinality(Past(l) \ {t}) \in Nat
        /\ Cardinality(Past(l) \ {t}) = Cardinality(Past(l)) - 1
    BY Zenon, <1>1, QueueCounted DEF Counted
  <1> QED BY <1>2

LEMMA QueueElsewhere ==
    ASSUME QueueUsers, NEW t \in Users, NEW l, NEW m, q_pc[t] # l, m # l, QueueGoto(t, m)
    PROVE  Past(l)' = Past(l)
  BY Zenon DEF Past, QueueGoto, QueueUsers

\* The counts keep size within the array.
LEMMA Bounded ==
    ASSUME CommAssumption, Counted(Users), QueueInv
    PROVE  /\ size \in 0 .. Size /\ q_read_level \in 0 .. Size /\ q_write_level \in 0 .. Size
           /\ \A t \in Users : q_pc[t] = "got" => size > 0
           /\ \A t \in Users : q_pc[t] = "room" => size < Size
  <1>1. /\ Cardinality(Past("got")) \in Nat
        /\ Cardinality(Past("room")) \in Nat
    BY Zenon, QueueCounted
  <1>2. ASSUME NEW l, NEW t \in Users, q_pc[t] = l
        PROVE  Cardinality(Past(l)) # 0
    <2>1. t \in Past(l)
      BY Zenon, <1>2 DEF Past
    <2> QED BY Zenon, <2>1, QueueSome
  <1>3. /\ \A t \in Users : q_pc[t] = "got" => Cardinality(Past("got")) # 0
        /\ \A t \in Users : q_pc[t] = "room" => Cardinality(Past("room")) # 0
    BY Zenon, <1>2
  <1> QED BY <1>1, <1>3 DEF QueueInv, QueueFields, QueueTokens, CommAssumption

\* The slot after the one at distance n of index_bot, which wraps at most once.
LEMMA Slot ==
    ASSUME CommAssumption, NEW b \in Slots, NEW n \in 0 .. Size
    PROVE  /\ (b + n) % Size = IF b + n < Size THEN b + n ELSE b + n - Size
           /\ (b + n) % Size \in Slots
  <1>1. Size \in Nat \ {0} /\ b + n \in 0 .. 2 * Size - 1
    BY DEF CommAssumption, Slots
  <1>2. \A x \in 0 .. 2 * Size - 1 : x % Size = IF x < Size THEN x ELSE x - Size
    BY Zenon, <1>1, Wrap
  <1> QED BY <1>1, <1>2 DEF Slots
-----------------------------------------------------------------------------
LEMMA QueueInitInv == ASSUME CommAssumption, Counted(Users), QueueInit PROVE QueueInv
  <1>1. QueueFields
    <2>1. q_init \in BOOLEAN /\ q_sems = q_init
      BY Zenon DEF QueueInit
    <2> QED BY <2>1 DEF QueueInit, QueueFields, Slots, CommAssumption
  <1>2. QueueUsers
    BY Zenon DEF QueueInit, QueueUsers
  <1>3. Past("got") = {} /\ Past("room") = {}
    BY Zenon DEF QueueInit, Past
  <1>4. index_top = (index_bot + size) % Size
    BY Slot DEF QueueInit, Slots, CommAssumption
  <1>5. Cardinality(Past("got")) = 0 /\ Cardinality(Past("room")) = 0
    BY Zenon, <1>3 DEF Counted
  <1> QED BY <1>1, <1>2, <1>4, <1>5 DEF QueueInit, QueueInv, QueueTokens, CommAssumption

LEMMA InitialiseInv ==
    ASSUME CommAssumption, Counted(Users), QueueInv, queue_init
    PROVE  QueueInv'
  <1>1. QueueFields'
    <2>1. q_init' \in BOOLEAN /\ q_sems' = q_init'
      BY Zenon DEF queue_init
    <2> QED BY <2>1 DEF queue_init, QueueFields, Slots, CommAssumption
  <1>2. QueueUsers'
    BY Zenon DEF queue_init, QueueInv, QueueUsers
  <1>3. Past("got")' = {} /\ Past("room")' = {}
    BY Zenon DEF queue_init, Past
  <1>4. index_top' = (index_bot' + size') % Size
    BY Slot DEF queue_init, Slots, CommAssumption
  <1>5. Cardinality(Past("got")') = 0 /\ Cardinality(Past("room")') = 0
    BY Zenon, <1>3 DEF Counted
  <1> QED BY <1>1, <1>2, <1>4, <1>5 DEF queue_init, QueueInv, QueueTokens, CommAssumption

\* A step that moves a thread to and from places that carry no token.
LEMMA QueueQuietInv ==
    ASSUME CommAssumption, Counted(Users), QueueInv, NEW t \in Users,
           NEW m \in {"user", "pend", "post"},
           q_pc[t] \in {"user", "pend", "post"}, QueueGoto(t, m) \/ UNCHANGED q_pc,
           UNCHANGED <<ring, q_read_level, q_write_level>>,
           q_sems' = q_init', q_init' = q_init \/ q_init' = FALSE,
           q_readers' \subseteq Users, q_writers' \subseteq Users,
           q_element' \in [Users -> Values \cup {EMPTY}],
           \A u \in Users : q_pc'[u] \in {"post", "room"} => q_element'[u] \in Values
    PROVE  QueueInv'
  <1>1. QueueFields'
    <2>1. q_init' \in BOOLEAN
      BY Zenon DEF QueueInv, QueueFields
    <2> QED BY Zenon, <2>1 DEF QueueInv, QueueFields, ring
  <1>2. QueueUsers'
    BY Zenon DEF QueueInv, QueueUsers, QueueGoto
  <1>3. Past("got")' = Past("got") /\ Past("room")' = Past("room")
    <2>1. CASE QueueGoto(t, m)
      BY Zenon, <2>1, QueueElsewhere DEF QueueInv
    <2>2. CASE UNCHANGED q_pc
      BY Zenon, <2>2 DEF Past
    <2> QED BY Zenon, <2>1, <2>2
  <1>4. q_init' => q_init
    BY Zenon
  <1> QED BY Zenon, <1>1, <1>2, <1>3, <1>4 DEF QueueInv, QueueTokens, ring

LEMMA PendElementInv ==
    ASSUME CommAssumption, Counted(Users), QueueInv, NEW t \in Users, PendElement(t)
    PROVE  QueueInv'
  <1>0. /\ q_pc[t] = "pend" /\ UNCHANGED <<q_init, ring, q_write_level, q_writers, q_element>>
    BY Zenon DEF PendElement, ring
  <1>1. CASE ReadSem!Take(t) /\ QueueGoto(t, "got")
    <2>1. /\ q_read_level > 0 /\ q_read_level' = q_read_level - 1
          /\ q_readers' = q_readers \ {t} /\ q_sems' = q_sems
      BY Zenon, <1>1 DEF ReadSem!Take
    <2>2. /\ Cardinality(Past("got")') = Cardinality(Past("got")) + 1
          /\ Past("room")' = Past("room")
      BY Zenon, <1>0, <1>1, QueueArrive, QueueElsewhere DEF QueueInv
    <2>3. QueueFields'
      <3>1. q_init' \in BOOLEAN /\ q_sems' = q_init'
        BY <1>0, <2>1, Zenon DEF QueueInv, QueueFields
      <3> QED BY <1>0, <2>1, <3>1 DEF QueueInv, QueueFields, ring
    <2>4. QueueUsers'
      BY Zenon, <1>0, <1>1, <2>1 DEF QueueInv, QueueUsers, QueueGoto
    <2>5. q_init' => q_init
      BY <1>0, Zenon
    <2>6. QueueTokens'
      BY <1>0, <2>1, <2>2, <2>5, QueueCounted DEF QueueInv, QueueFields, QueueTokens, ring
    <2> QED BY Zenon, <2>3, <2>4, <2>6 DEF QueueInv
  <1>2. CASE ReadSem!Wait(t) /\ UNCHANGED q_pc
    <2>1. /\ q_readers' = q_readers \cup {t} /\ q_sems' = q_sems /\ q_read_level' = q_read_level
      BY Zenon, <1>2 DEF ReadSem!Wait
    <2> QED BY Zenon, <1>0, <1>2, <2>1, QueueQuietInv DEF QueueInv, QueueFields, QueueUsers
  <1>3. CASE ReadSem!Fail(t) /\ QueueGoto(t, "user")
    <2>1. /\ q_readers' = q_readers \ {t} /\ q_sems' = q_sems /\ q_read_level' = q_read_level
      BY Zenon, <1>3 DEF ReadSem!Fail
    <2>2. \A u \in Users : q_pc'[u] \in {"post", "room"} => q_element'[u] \in Values
      BY Zenon, <1>0, <1>3 DEF QueueInv, QueueUsers, QueueGoto
    <2> QED BY Zenon, <1>0, <1>3, <2>1, <2>2, QueueQuietInv DEF QueueInv, QueueFields, QueueUsers
  <1> QED BY Zenon, <1>1, <1>2, <1>3 DEF PendElement

LEMMA QueuePendRoomInv ==
    ASSUME CommAssumption, Counted(Users), QueueInv, NEW t \in Users, PendRoom(t)
    PROVE  QueueInv'
  <1>0. /\ q_pc[t] = "post" /\ UNCHANGED <<q_init, ring, q_read_level, q_readers>>
    BY Zenon DEF PendRoom, ring
  <1>1. CASE WriteSem!Take(t) /\ QueueGoto(t, "room") /\ UNCHANGED q_element
    <2>1. /\ q_write_level > 0 /\ q_write_level' = q_write_level - 1
          /\ q_writers' = q_writers \ {t} /\ q_sems' = q_sems
      BY Zenon, <1>1 DEF WriteSem!Take
    <2>2. /\ Cardinality(Past("room")') = Cardinality(Past("room")) + 1
          /\ Past("got")' = Past("got")
      BY Zenon, <1>0, <1>1, QueueArrive, QueueElsewhere DEF QueueInv
    <2>3. QueueFields'
      <3>1. q_init' \in BOOLEAN /\ q_sems' = q_init'
        BY <1>0, <2>1, Zenon DEF QueueInv, QueueFields
      <3> QED BY <1>0, <2>1, <3>1 DEF QueueInv, QueueFields, ring
    <2>4. QueueUsers'
      BY Zenon, <1>0, <1>1, <2>1 DEF QueueInv, QueueUsers, QueueGoto
    <2>5. q_init' => q_init
      BY <1>0, Zenon
    <2>6. QueueTokens'
      BY <1>0, <2>1, <2>2, <2>5, QueueCounted DEF QueueInv, QueueFields, QueueTokens, ring
    <2> QED BY Zenon, <2>3, <2>4, <2>6 DEF QueueInv
  <1>2. CASE WriteSem!Wait(t) /\ UNCHANGED <<q_pc, q_element>>
    <2>1. /\ q_writers' = q_writers \cup {t} /\ q_sems' = q_sems /\ q_write_level' = q_write_level
      BY Zenon, <1>2 DEF WriteSem!Wait
    <2> QED BY Zenon, <1>0, <1>2, <2>1, QueueQuietInv DEF QueueInv, QueueFields, QueueUsers
  <1>3. CASE WriteSem!Fail(t) /\ QueueGoto(t, "user") /\ q_element' = [q_element EXCEPT ![t] = EMPTY]
    <2>1. /\ q_writers' = q_writers \ {t} /\ q_sems' = q_sems /\ q_write_level' = q_write_level
      BY Zenon, <1>3 DEF WriteSem!Fail
    <2>2. /\ q_element' \in [Users -> Values \cup {EMPTY}]
          /\ \A u \in Users : q_pc'[u] \in {"post", "room"} => q_element'[u] \in Values
      BY Zenon, <1>0, <1>3 DEF QueueInv, QueueUsers, QueueGoto
    <2> QED BY Zenon, <1>0, <1>3, <2>1, <2>2, QueueQuietInv DEF QueueInv, QueueFields, QueueUsers
  <1> QED BY Zenon, <1>1, <1>2, <1>3 DEF PendRoom

LEMMA TakeElementInv ==
    ASSUME CommAssumption, Counted(Users), QueueInv, NEW t \in Users, TakeElement(t)
    PROVE  QueueInv'
  <1>0. /\ q_pc[t] = "got" /\ q_init /\ QueueGoto(t, "user")
        /\ index_bot' = (index_bot + 1) % Size /\ size' = size - 1
        /\ q_write_level' = q_write_level + 1 /\ q_sems' = q_sems
        /\ UNCHANGED <<container, index_top, q_init, q_read_level, q_readers,
                       q_writers, q_element>>
    BY Zenon DEF TakeElement, ReadSlot, WriteSem!Post
  <1>1. /\ Cardinality(Past("got")') = Cardinality(Past("got")) - 1
        /\ Past("room")' = Past("room")
    BY Zenon, <1>0, QueueDepart, QueueElsewhere DEF QueueInv
  <1>2. size \in 1 .. Size
    BY <1>0, Bounded
  <1>3. index_bot' \in Slots /\ index_top' = (index_bot' + size') % Size
    <2>1. /\ index_bot' = IF index_bot + 1 < Size THEN index_bot + 1 ELSE index_bot + 1 - Size
          /\ index_bot' \in Slots
      BY <1>0, Slot DEF QueueInv, QueueFields, CommAssumption
    <2>2. (index_bot + size) % Size =
              IF index_bot + size < Size THEN index_bot + size ELSE index_bot + size - Size
      BY <1>2, Slot DEF QueueInv, QueueFields
    <2>3. (index_bot' + size') % Size =
              IF index_bot' + size' < Size THEN index_bot' + size'
              ELSE index_bot' + size' - Size
      <3>1. index_bot' \in Slots /\ size' \in 0 .. Size
        BY <1>0, <1>2, <2>1 DEF CommAssumption
      <3> QED BY Zenon, <3>1, Slot
    <2>4. index_bot \in 0 .. Size - 1 /\ Size \in Nat
      BY Zenon DEF QueueInv, QueueFields, Slots, CommAssumption
    <2>5. index_top' = (index_bot + size) % Size
      BY Zenon, <1>0 DEF QueueInv, QueueTokens
    <2> HIDE DEF Slots
    <2>6. index_bot' \in 0 .. Size - 1
      BY Zenon, <2>1 DEF Slots
    <2>7. IF index_bot + size < Size
          THEN index_bot' + size' < Size /\ index_bot' + size' = index_bot + size
          ELSE \/ index_bot' + size' = index_bot + size - Size
               \/ index_bot' + size' = index_bot + size /\ index_bot' + size' >= Size
      BY <1>0, <1>2, <2>1, <2>4
    <2>8. IF index_bot + size < Size THEN TRUE ELSE index_bot + size - Size < Size
      BY <1>2, <2>4
    <2> QED BY Zenon, <2>1, <2>2, <2>3, <2>5, <2>7, <2>8
  <1>4. QueueFields'
    <2>1. q_init' \in BOOLEAN /\ q_sems' = q_init'
      BY <1>0, Zenon DEF QueueInv, QueueFields
    <2> QED BY <1>0, <1>2, <1>3, <2>1 DEF QueueInv, QueueFields
  <1>5. QueueUsers'
    BY Zenon, <1>0 DEF QueueInv, QueueUsers, QueueGoto
  <1>6. QueueTokens'
    BY <1>0, <1>1, <1>3, QueueCounted
            DEF QueueInv, QueueFields, QueueTokens, CommAssumption
  <1> QED BY Zenon, <1>4, <1>5, <1>6 DEF QueueInv

LEMMA PutElementInv ==
    ASSUME CommAssumption, Counted(Users), QueueInv, NEW t \in Users, PutElement(t)
    PROVE  QueueInv'
  <1>0. /\ q_pc[t] = "room" /\ QueueGoto(t, "user")
        /\ container' = [container EXCEPT ![index_top] = q_element[t]]
        /\ index_top' = (index_top + 1) % Size /\ size' = size + 1
        /\ q_element' = [q_element EXCEPT ![t] = EMPTY]
        /\ UNCHANGED <<q_init, index_bot, q_write_level, q_writers>>
    BY Zenon DEF PutElement
  <1>1. /\ q_sems' = q_sems /\ q_readers' = q_readers
        /\ IF q_init THEN q_read_level' = q_read_level + 1 ELSE q_read_level' = q_read_level
    BY Zenon DEF PutElement, ReadSem!Post, QueueInv, QueueFields
  <1>2. /\ Cardinality(Past("room")') = Cardinality(Past("room")) - 1
        /\ Past("got")' = Past("got")
    BY Zenon, <1>0, QueueDepart, QueueElsewhere DEF QueueInv
  <1>3. size \in 0 .. Size - 1
    BY <1>0, Bounded DEF CommAssumption
  <1>4. index_top' \in Slots /\ index_top' = (index_bot' + size') % Size
    <2>1. /\ (index_top + 1) % Size = IF index_top + 1 < Size THEN index_top + 1
                                       ELSE index_top + 1 - Size
          /\ (index_top + 1) % Size \in Slots
      BY Slot DEF QueueInv, QueueFields, CommAssumption
    <2>2. (index_bot + size) % Size =
              IF index_bot + size < Size THEN index_bot + size ELSE index_bot + size - Size
      <3>1. index_bot \in Slots /\ size \in 0 .. Size
        BY <1>3 DEF QueueInv, QueueFields, CommAssumption
      <3> QED BY Zenon, <3>1, Slot
    <2>3. (index_bot + (size + 1)) % Size =
              IF index_bot + (size + 1) < Size THEN index_bot + (size + 1)
              ELSE index_bot + (size + 1) - Size
      <3>1. index_bot \in Slots /\ size + 1 \in 0 .. Size
        BY <1>3 DEF QueueInv, QueueFields, CommAssumption
      <3> QED BY Zenon, <3>1, Slot
    <2>4. index_bot \in 0 .. Size - 1 /\ Size \in Nat
      BY Zenon DEF QueueInv, QueueFields, Slots, CommAssumption
    <2>5. index_top = (index_bot + size) % Size
      BY Zenon DEF QueueInv, QueueTokens
    <2> QED BY <1>0, <1>3, <2>1, <2>2, <2>3, <2>4, <2>5
  <1>5. QueueFields'
    <2>1. q_init' \in BOOLEAN /\ q_sems' = q_init'
      BY <1>0, <1>1, Zenon DEF QueueInv, QueueFields
    <2>2. container' \in [Slots -> Values \cup {EMPTY}]
      BY Zenon, <1>0 DEF QueueInv, QueueFields, QueueUsers
    <2>3. q_read_level' \in Nat
      BY <1>1 DEF QueueInv, QueueFields
    <2> QED BY <1>0, <1>3, <1>4, <2>1, <2>2, <2>3 DEF QueueInv, QueueFields
  <1>6. QueueUsers'
    BY Zenon, <1>0, <1>1 DEF QueueInv, QueueUsers, QueueGoto
  <1>7. QueueTokens'
    <2>1. q_init' = q_init
      BY Zenon, <1>0
    <2> QED BY <1>0, <1>1, <1>2, <1>4, <2>1, QueueCounted
            DEF QueueInv, QueueFields, QueueTokens, CommAssumption
  <1> QED BY Zenon, <1>5, <1>6, <1>7 DEF QueueInv

LEMMA PendLateInv ==
    ASSUME CommAssumption, Counted(Users), QueueInv, NEW t \in Users, PendLate(t)
    PROVE  QueueInv'
  <1>0. /\ q_pc[t] = "got" /\ ~q_init /\ QueueGoto(t, "user")
        /\ UNCHANGED <<q_init, container, index_top, index_bot, size, q_sems, q_read_level,
                       q_readers, q_write_level, q_writers, q_element>>
    BY Zenon DEF PendLate, ring, q_semaphores
  <1>1. /\ Cardinality(Past("got")') = Cardinality(Past("got")) - 1
        /\ Past("room")' = Past("room")
    BY Zenon, <1>0, QueueDepart, QueueElsewhere DEF QueueInv
  <1>2. QueueFields'
    BY Zenon, <1>0 DEF QueueInv, QueueFields
  <1>3. QueueUsers'
    BY Zenon, <1>0 DEF QueueInv, QueueUsers, QueueGoto
  <1>4. QueueTokens'
    BY <1>0, <1>1, QueueCounted DEF QueueInv, QueueFields, QueueTokens
  <1> QED BY Zenon, <1>2, <1>3, <1>4 DEF QueueInv

LEMMA QueueNextInv ==
    ASSUME CommAssumption, Counted(Users), QueueInv, [QueueNext]_queueVars
    PROVE  QueueInv'
  <1>1. ASSUME NEW t \in Users, queue_destroy(t) PROVE QueueInv'
    <2>1. /\ q_pc[t] = "user" /\ q_init' = FALSE /\ q_sems' = q_init'
          /\ UNCHANGED <<ring, q_read_level, q_readers, q_write_level, q_writers,
                         q_pc, q_element>>
      BY Zenon, <1>1 DEF queue_destroy, ring
    <2> QED BY Zenon, <2>1, QueueQuietInv DEF QueueInv, QueueUsers
  <1>2. ASSUME NEW t \in Users, queue_pend(t) PROVE QueueInv'
    <2>1. /\ q_pc[t] = "user" /\ QueueGoto(t, "pend")
          /\ UNCHANGED <<q_init, ring, q_sems, q_read_level, q_readers, q_write_level,
                         q_writers, q_element>>
      BY Zenon, <1>2 DEF queue_pend, ring, q_semaphores
    <2>2. \A u \in Users : q_pc'[u] \in {"post", "room"} => q_element'[u] \in Values
      BY Zenon, <2>1 DEF QueueInv, QueueUsers, QueueGoto
    <2> QED BY Zenon, <2>1, <2>2, QueueQuietInv DEF QueueInv, QueueFields, QueueUsers
  <1>3. ASSUME NEW t \in Users, NEW v \in Values, queue_post(t, v) PROVE QueueInv'
    <2>1. /\ q_pc[t] = "user" /\ QueueGoto(t, "post")
          /\ q_element' = [q_element EXCEPT ![t] = v]
          /\ UNCHANGED <<q_init, ring, q_sems, q_read_level, q_readers,
                         q_write_level, q_writers>>
      BY Zenon, <1>3 DEF queue_post, ring, q_semaphores
    <2>2. /\ q_element' \in [Users -> Values \cup {EMPTY}]
          /\ \A u \in Users : q_pc'[u] \in {"post", "room"} => q_element'[u] \in Values
      BY Zenon, <2>1 DEF QueueInv, QueueUsers, QueueGoto
    <2> QED BY Zenon, <2>1, <2>2, QueueQuietInv DEF QueueInv, QueueFields, QueueUsers
  <1>4. CASE UNCHANGED queueVars
    BY Zenon, <1>4 DEF queueVars, QueueInv, QueueFields, QueueUsers, QueueTokens, Past
  <1> QED BY Zenon, <1>1, <1>2, <1>3, <1>4, InitialiseInv, PendElementInv, QueuePendRoomInv,
             TakeElementInv, PutElementInv, PendLateInv DEF QueueNext, QueueContinue
-----------------------------------------------------------------------------
\* What a slot holds, and the slot of an index that has wrapped at most once
Cell == Values \cup {EMPTY}
Wrapped(k) == IF k < Size THEN k ELSE k - Size

\* The n elements of array c from slot b on, oldest first
Ring(c, b, n) == [i \in 1 .. n |-> c[(b + i - 1) % Size]]

LEMMA SlotWrapped ==
    ASSUME CommAssumption, NEW b \in Slots, NEW n \in 0 .. Size
    PROVE  (b + n) % Size = Wrapped(b + n) /\ (b + n) % Size \in Slots
  <1>1. (b + n) % Size \in Slots
    BY Zenon, Slot
  <1>2. Size \in Nat /\ b \in Int /\ n \in Int
    BY DEF Slots, CommAssumption
  <1>3. CASE b + n < Size
    <2>1. (b + n) % Size = b + n
      BY Zenon, <1>3, Slot
    <2> QED BY Zenon, <1>1, <1>3, <2>1 DEF Wrapped
  <1>4. CASE ~(b + n < Size)
    <2>1. (b + n) % Size = b + n - Size
      BY Zenon, <1>4, Slot
    <2>2. Wrapped(b + n) = b + n - Size
      BY <1>2, <1>4 DEF Wrapped
    <2> QED BY Zenon, <1>1, <2>1, <2>2
  <1> QED BY Zenon, <1>3, <1>4

LEMMA RingSeq ==
    ASSUME CommAssumption, NEW c \in [Slots -> Cell], NEW b \in Slots, NEW n \in 0 .. Size
    PROVE  /\ Ring(c, b, n) \in Seq(Cell) /\ Len(Ring(c, b, n)) = n
           /\ \A i \in 1 .. n : Ring(c, b, n)[i] = c[Wrapped(b + i - 1)]
  <1>1. Size \in Nat /\ b \in 0 .. Size - 1
    BY Zenon DEF CommAssumption, Slots
  <1>2. ASSUME NEW i \in 1 .. n
        PROVE  (b + i - 1) % Size = Wrapped(b + i - 1) /\ (b + i - 1) % Size \in Slots
    <2> DEFINE j == i - 1
    <2>1. j \in 0 .. Size
      BY <1>1
    <2>2. b + i - 1 = b + j
      BY Zenon, <1>1
    <2> HIDE DEF j
    <2>3. (b + j) % Size = Wrapped(b + j) /\ (b + j) % Size \in Slots
      BY Zenon, <2>1, SlotWrapped
    <2> QED BY Zenon, <2>2, <2>3
  <1>3. Ring(c, b, n) \in [1 .. n -> Cell]
    BY Zenon, <1>2 DEF Ring
  <1>4. Ring(c, b, n) \in Seq(Cell)
    BY <1>1, <1>3
  <1>5. Len(Ring(c, b, n)) = n
    BY <1>1, <1>3, <1>4
  <1>6. \A i \in 1 .. n : Ring(c, b, n)[i] = c[(b + i - 1) % Size]
    BY Zenon DEF Ring
  <1> QED BY Zenon, <1>2, <1>4, <1>5, <1>6

\* A reader takes the head.
LEMMA RingTail ==
    ASSUME CommAssumption, NEW c \in [Slots -> Cell], NEW b \in Slots, NEW n \in 1 .. Size
    PROVE  /\ Ring(c, b, n) # <<>> /\ Head(Ring(c, b, n)) = c[b]
           /\ Tail(Ring(c, b, n)) = Ring(c, (b + 1) % Size, n - 1)
  <1> DEFINE next == (b + 1) % Size
             R == Ring(c, b, n)
             T == Ring(c, next, n - 1)
  <1>1. Size \in Nat \ {0} /\ b \in 0 .. Size - 1
    BY Zenon DEF CommAssumption, Slots
  <1>2. next = Wrapped(b + 1) /\ next \in Slots
    BY <1>1, Slot DEF Wrapped
  <1>3. /\ R \in Seq(Cell) /\ Len(R) = n
        /\ \A i \in 1 .. n : R[i] = c[Wrapped(b + i - 1)]
    <2>1. n \in 0 .. Size
      BY <1>1
    <2> QED BY Zenon, <2>1, RingSeq
  <1> HIDE DEF next
  <1>4. /\ T \in Seq(Cell) /\ Len(T) = n - 1
        /\ \A i \in 1 .. n - 1 : T[i] = c[Wrapped(next + i - 1)]
    <2> DEFINE m == n - 1
    <2>1. m \in 0 .. Size
      BY <1>1
    <2> HIDE DEF m
    <2>2. /\ Ring(c, next, m) \in Seq(Cell) /\ Len(Ring(c, next, m)) = m
          /\ \A i \in 1 .. m : Ring(c, next, m)[i] = c[Wrapped(next + i - 1)]
      BY Zenon, <1>2, <2>1, RingSeq
    <2> QED BY Zenon, <2>2 DEF m
  <1> HIDE DEF R, T
  <1>5. R # <<>>
    BY <1>1, <1>3
  <1>6. Head(R) = c[b]
    <2>1. Head(R) = R[1]
      BY <1>3, <1>5
    <2>2. 1 \in 1 .. n /\ Wrapped(b + 1 - 1) = b
      BY <1>1 DEF Wrapped
    <2> QED BY Zenon, <1>3, <2>1, <2>2
  <1>7. /\ Tail(R) \in Seq(Cell) /\ Len(Tail(R)) = n - 1
        /\ \A i \in 1 .. n - 1 : Tail(R)[i] = R[i + 1]
    BY <1>3, <1>5
  <1>8. ASSUME NEW i \in 1 .. n - 1 PROVE Tail(R)[i] = T[i]
    <2>1. i + 1 \in 1 .. n
      BY <1>1
    <2>2. Wrapped(b + (i + 1) - 1) = Wrapped(next + i - 1)
      BY <1>1, <1>2 DEF Wrapped
    <2> QED BY Zenon, <1>3, <1>4, <1>7, <2>1, <2>2
  <1>9. Tail(R) = T
    BY <1>4, <1>7, <1>8
  <1> QED BY Zenon, <1>5, <1>6, <1>9 DEF R, T, next

\* A writer appends: the slot it stores to is none of those in use.
LEMMA RingAppend ==
    ASSUME CommAssumption, NEW c \in [Slots -> Cell], NEW b \in Slots,
           NEW n \in 0 .. Size - 1, NEW v \in Cell
    PROVE  Ring([c EXCEPT ![(b + n) % Size] = v], b, n + 1) = Append(Ring(c, b, n), v)
  <1> DEFINE top == (b + n) % Size
             d == [c EXCEPT ![top] = v]
             R == Ring(c, b, n)
             A == Ring(d, b, n + 1)
  <1>1. Size \in Nat \ {0} /\ b \in 0 .. Size - 1 /\ n \in 0 .. Size
    BY DEF CommAssumption, Slots
  <1>2. top = Wrapped(b + n) /\ top \in Slots
    BY <1>1, Slot DEF Wrapped
  <1>3. /\ R \in Seq(Cell) /\ Len(R) = n
        /\ \A i \in 1 .. n : R[i] = c[Wrapped(b + i - 1)]
    BY Zenon, <1>1, RingSeq
  <1> HIDE DEF top
  <1>4. /\ d \in [Slots -> Cell] /\ d[top] = v
        /\ \A s \in Slots : s # top => d[s] = c[s]
    BY Zenon, <1>2
  <1> HIDE DEF d
  <1>5. /\ A \in Seq(Cell) /\ Len(A) = n + 1
        /\ \A i \in 1 .. n + 1 : A[i] = d[Wrapped(b + i - 1)]
    <2> DEFINE m == n + 1
    <2>1. m \in 0 .. Size
      BY <1>1
    <2> HIDE DEF m
    <2>2. /\ Ring(d, b, m) \in Seq(Cell) /\ Len(Ring(d, b, m)) = m
          /\ \A i \in 1 .. m : Ring(d, b, m)[i] = d[Wrapped(b + i - 1)]
      BY Zenon, <1>4, <2>1, RingSeq
    <2> QED BY Zenon, <2>2 DEF m
  <1> HIDE DEF R, A
  <1>6. /\ Append(R, v) \in Seq(Cell) /\ Len(Append(R, v)) = n + 1
        /\ \A i \in 1 .. n : Append(R, v)[i] = R[i]
        /\ Append(R, v)[n + 1] = v
    BY <1>3
  <1>7. ASSUME NEW i \in 1 .. n + 1 PROVE A[i] = Append(R, v)[i]
    <2>1. A[i] = d[Wrapped(b + i - 1)]
      BY Zenon, <1>5
    <2>2. CASE i = n + 1
      <3>1. Wrapped(b + i - 1) = top
        BY <1>1, <1>2, <2>2 DEF Wrapped
      <3> QED BY Zenon, <1>4, <1>6, <2>1, <2>2, <3>1
    <2>3. CASE i # n + 1
      <3>1. /\ i \in 1 .. n
            /\ Wrapped(b + i - 1) \in Slots /\ Wrapped(b + i - 1) # top
        BY <1>1, <1>2, <2>3 DEF Slots, Wrapped
      <3>2. Append(R, v)[i] = c[Wrapped(b + i - 1)]
        BY Zenon, <1>3, <1>6, <3>1
      <3> QED BY Zenon, <1>4, <2>1, <3>1, <3>2
    <2> QED BY Zenon, <2>2, <2>3
  <1>8. A = Append(R, v)
    BY <1>5, <1>6, <1>7
  <1> QED BY Zenon, <1>8 DEF A, R, d, top
-----------------------------------------------------------------------------
QueueBuffer == IF q_init THEN Ring(container, index_bot, size) ELSE <<>>

\* A reader's step is Receive of the abstract queue, a writer's is Send, and
\* nothing else touches the buffer of a queue that exists.
LEMMA QueueStepImplements ==
    ASSUME CommAssumption, Counted(Users), QueueInv, [QueueNext]_queueVars
    PROVE  [QueueAbstract!Next]_(QueueAbstract!vars)
  <1> DEFINE Stays == UNCHANGED <<q_init, QueueBuffer, q_received>>
  <1>0. container \in [Slots -> Cell] /\ index_bot \in Slots /\ q_init \in BOOLEAN
    BY Zenon DEF QueueInv, QueueFields, Cell
  <1>1. ASSUME Stays PROVE UNCHANGED QueueAbstract!vars
    BY <1>1, Zenon DEF QueueAbstract!vars, QueueBuffer, Ring
  <1>2. ASSUME UNCHANGED <<q_init, ring, q_received>> PROVE UNCHANGED QueueAbstract!vars
    BY Zenon, <1>1, <1>2 DEF QueueBuffer, Ring, ring
  <1>3. ASSUME NEW t \in Users, TakeElement(t) PROVE QueueAbstract!Receive
    <2>1. /\ q_pc[t] = "got" /\ q_init /\ q_init' /\ q_received' = container[index_bot]
          /\ index_bot' = (index_bot + 1) % Size /\ size' = size - 1
          /\ container' = container /\ q_init' = q_init
      BY Zenon, <1>3 DEF TakeElement, ReadSlot
    <2>2. size \in 1 .. Size
      BY <2>1, Bounded
    <2>3. /\ Ring(container, index_bot, size) # <<>>
          /\ Head(Ring(container, index_bot, size)) = container[index_bot]
          /\ Tail(Ring(container, index_bot, size))
                 = Ring(container, (index_bot + 1) % Size, size - 1)
      BY Zenon, <1>0, <2>2, RingTail
    <2>4. /\ QueueBuffer = Ring(container, index_bot, size)
          /\ QueueBuffer' = Ring(container, (index_bot + 1) % Size, size - 1)
      BY Zenon, <2>1 DEF QueueBuffer, Ring
    <2>5. QueueBuffer # <<>> /\ q_received' = Head(QueueBuffer) /\ QueueBuffer' = Tail(QueueBuffer)
      BY Zenon, <2>1, <2>3, <2>4
    <2> QED BY <2>1, <2>5, Zenon DEF QueueAbstract!Receive, QueueBuffer, Ring
  <1>4. ASSUME NEW t \in Users, PutElement(t), q_init PROVE QueueAbstract!Send(q_element[t])
    <2>1. /\ q_pc[t] = "room" /\ q_init' = q_init /\ q_received' = q_received
          /\ container' = [container EXCEPT ![index_top] = q_element[t]]
          /\ size' = size + 1 /\ index_bot' = index_bot
      BY Zenon, <1>4 DEF PutElement
    <2>2. size \in 0 .. Size - 1 /\ size \in 0 .. Size
      BY <2>1, Bounded DEF CommAssumption
    <2>3. q_element[t] \in Cell /\ index_top = (index_bot + size) % Size
      BY Zenon DEF QueueInv, QueueUsers, QueueTokens, Cell
    <2>4. Ring([container EXCEPT ![(index_bot + size) % Size] = q_element[t]], index_bot, size + 1)
              = Append(Ring(container, index_bot, size), q_element[t])
      BY Zenon, <1>0, <2>2, <2>3, RingAppend
    <2>5. /\ QueueBuffer = Ring(container, index_bot, size)
          /\ QueueBuffer' = Ring(container', index_bot', size')
      BY Zenon, <1>4, <2>1 DEF QueueBuffer, Ring
    <2>6. QueueBuffer' = Append(QueueBuffer, q_element[t])
      BY Zenon, <2>1, <2>3, <2>4, <2>5
    <2>7. Len(QueueBuffer) < Size
      <3>1. Len(QueueBuffer) = size
        BY Zenon, <1>0, <2>2, <2>5, RingSeq
      <3> QED BY <2>2, <3>1 DEF CommAssumption
    <2> QED BY <1>4, <2>1, <2>6, <2>7, Zenon DEF QueueAbstract!Send, QueueBuffer, Ring
  <1>5. ASSUME NEW t \in Users, PutElement(t), ~q_init PROVE UNCHANGED QueueAbstract!vars
    <2>1. q_init' = q_init /\ q_received' = q_received
      BY Zenon, <1>5 DEF PutElement
    <2>2. Stays
      BY Zenon, <1>5, <2>1 DEF QueueBuffer
    <2> QED BY Zenon, <1>1, <2>2
  <1>6. ASSUME queue_init PROVE QueueAbstract!Open
    <2>1. ~q_init /\ q_init' /\ q_init' = TRUE /\ q_received' = q_received /\ size' = 0
          /\ index_bot' = 0
      BY Zenon, <1>6 DEF queue_init
    <2>2. Ring(container', index_bot', size') = <<>>
      BY <2>1 DEF Ring
    <2>3. QueueBuffer' = <<>>
      BY Zenon, <2>1, <2>2 DEF QueueBuffer, Ring
    <2> QED BY <2>1, <2>3, Zenon DEF QueueAbstract!Open, QueueBuffer, Ring
  <1>7. ASSUME NEW t \in Users, queue_destroy(t) PROVE QueueAbstract!Close
    <2>1. q_init /\ q_init' = FALSE /\ q_received' = q_received
      BY Zenon, <1>7 DEF queue_destroy
    <2> QED BY <2>1, Zenon DEF QueueAbstract!Close
  <1>8. ASSUME NEW t \in Users,
               queue_pend(t) \/ PendElement(t) \/ PendLate(t) \/ PendRoom(t)
                   \/ \E v \in Values : queue_post(t, v)
        PROVE  UNCHANGED QueueAbstract!vars
    BY Zenon, <1>2, <1>8 DEF queue_pend, PendElement, PendLate, PendRoom, queue_post, ring
  <1>9. CASE UNCHANGED queueVars
    BY Zenon, <1>2, <1>9 DEF queueVars, ring
  <1>10. ASSUME NEW t \in Users, PutElement(t)
         PROVE  QueueAbstract!Next \/ UNCHANGED QueueAbstract!vars
    <2>1. q_element[t] \in Values
      BY Zenon, <1>10 DEF PutElement, QueueInv, QueueUsers
    <2>2. CASE q_init
      <3>1. QueueAbstract!Send(q_element[t])
        BY Zenon, <1>4, <1>10, <2>2
      <3> QED BY Zenon, <2>1, <3>1 DEF QueueAbstract!Next, QueueAbstract!Send
    <2>3. CASE ~q_init
      BY Zenon, <1>5, <1>10, <2>3
    <2> QED BY Zenon, <2>2, <2>3
  <1> QED BY Zenon, <1>3, <1>6, <1>7, <1>8, <1>9, <1>10 DEF QueueNext, QueueContinue, QueueAbstract!Next
-----------------------------------------------------------------------------
(***************************************************************************)
(* The mailbox implements a FIFO buffer of one place, for any finite set   *)
(* of threads and any values.  There is one token: a unit of one of the    *)
(* two semaphores, or a thread that has taken it; it may vanish when the   *)
(* mailbox was destroyed.                                                  *)
(***************************************************************************)
BoxFields ==
    /\ b_init \in BOOLEAN /\ b_sems = b_init
    /\ b_read_level \in Nat /\ b_write_level \in Nat

BoxUsers ==
    /\ b_pc \in [Users -> {"user", "pend", "got", "post", "room"}]
    /\ \A t \in Users : b_element[t] \in Values \/ b_pc[t] \notin {"post", "room"}
    /\ b_element \in [Users -> Values \cup {EMPTY}]

BoxTokens == b_write_level + Cardinality(At("room")) + b_read_level + Cardinality(At("got"))

BoxInv == BoxFields /\ BoxUsers /\ BoxTokens <= 1 /\ (b_init => BoxTokens = 1)
-----------------------------------------------------------------------------
\* The threads at a place are finitely many ...
LEMMA BoxCounted ==
    ASSUME Counted(Users), NEW l
    PROVE  At(l) \in SUBSET Users /\ Cardinality(At(l)) \in Nat
  <1>1. At(l) \in SUBSET Users
    BY Zenon DEF At
  <1> QED BY Zenon, <1>1 DEF Counted

\* ... one more when a thread arrives, one less when it leaves.
LEMMA BoxArrive ==
    ASSUME MailboxAssumption, Counted(Users), BoxUsers, NEW t \in Users,
           NEW l, b_pc[t] # l, BoxGoto(t, l)
    PROVE  Cardinality(At(l)') = Cardinality(At(l)) + 1
  <1>1. At(l)' = At(l) \cup {t} /\ t \notin At(l)
    BY Zenon DEF At, BoxGoto, BoxUsers
  <1> QED BY Zenon, <1>1, BoxCounted DEF Counted

LEMMA BoxDepart ==
    ASSUME MailboxAssumption, Counted(Users), BoxUsers, NEW t \in Users, NEW l, NEW m,
           b_pc[t] = l, m # l, BoxGoto(t, m)
    PROVE  /\ Cardinality(At(l)') = Cardinality(At(l)) - 1
           /\ Cardinality(At(l)) > 0
  <1>1. At(l)' = At(l) \ {t} /\ t \in At(l)
    BY Zenon DEF At, BoxGoto, BoxUsers
  <1>2. /\ Cardinality(At(l)') = Cardinality(At(l)) - 1
        /\ Cardinality(At(l)) \in Nat /\ Cardinality(At(l)') \in Nat
    BY Zenon, <1>1, BoxCounted DEF Counted
  <1> QED BY <1>2

LEMMA BoxSome ==
    ASSUME Counted(Users), NEW l, NEW t \in At(l)
    PROVE  Cardinality(At(l)) # 0
  <1>1. t \in Users /\ At(l) \ {t} \in SUBSET Users
    BY Zenon DEF At
  <1>2. /\ Cardinality(At(l)) \in Nat /\ Cardinality(At(l) \ {t}) \in Nat
        /\ Cardinality(At(l) \ {t}) = Cardinality(At(l)) - 1
    BY Zenon, <1>1, BoxCounted DEF Counted
  <1> QED BY <1>2

LEMMA BoxElsewhere ==
    ASSUME BoxUsers, NEW t \in Users, NEW l, NEW m, b_pc[t] # l, m # l, BoxGoto(t, m)
    PROVE  At(l)' = At(l)
  BY Zenon DEF At, BoxGoto, BoxUsers

\* A thread past its semaphore has the only token.
LEMMA BoxOnly ==
    ASSUME MailboxAssumption, Counted(Users), BoxInv
    PROVE  /\ \A t \in Users : b_pc[t] = "got" =>
                 /\ b_read_level = 0 /\ Cardinality(At("got")) = 1
                 /\ b_write_level = 0 /\ Cardinality(At("room")) = 0
           /\ \A t \in Users : b_pc[t] = "room" =>
                 /\ b_read_level = 0 /\ Cardinality(At("got")) = 0
                 /\ b_write_level = 0 /\ Cardinality(At("room")) = 1
  <1>1. Cardinality(At("got")) \in Nat /\ Cardinality(At("room")) \in Nat
    BY Zenon, BoxCounted
  <1>2. ASSUME NEW l, NEW t \in Users, b_pc[t] = l PROVE Cardinality(At(l)) # 0
    <2>1. t \in At(l)
      BY Zenon, <1>2 DEF At
    <2> QED BY Zenon, <2>1, BoxSome
  <1>3. /\ \A t \in Users : b_pc[t] = "got" => Cardinality(At("got")) # 0
        /\ \A t \in Users : b_pc[t] = "room" => Cardinality(At("room")) # 0
    BY Zenon, <1>2
  <1>4. /\ b_write_level + Cardinality(At("room")) + b_read_level + Cardinality(At("got")) <= 1
        /\ b_read_level \in Nat /\ b_write_level \in Nat
    BY Zenon DEF BoxInv, BoxFields, BoxTokens
  <1> QED BY <1>1, <1>3, <1>4

LEMMA BoxInitInv == ASSUME MailboxAssumption, Counted(Users), BoxInit PROVE BoxInv
  <1>1. b_init \in BOOLEAN /\ b_sems = b_init /\ ~b_init
    BY Zenon DEF BoxInit
  <1>2. At("got") = {} /\ At("room") = {}
    BY Zenon DEF BoxInit, At
  <1>3. BoxFields /\ BoxUsers
    BY Zenon, <1>1 DEF BoxInit, BoxFields, BoxUsers
  <1>4. Cardinality(At("got")) = 0 /\ Cardinality(At("room")) = 0
    BY Zenon, <1>2 DEF Counted
  <1> QED BY <1>1, <1>3, <1>4 DEF BoxInit, BoxInv, BoxTokens

\* A step that moves no token.
LEMMA BoxQuietInv ==
    ASSUME MailboxAssumption, Counted(Users), BoxInv, NEW t \in Users,
           NEW m \in {"user", "pend", "post"},
           b_pc[t] \in {"user", "pend", "post"}, BoxGoto(t, m) \/ UNCHANGED b_pc,
           UNCHANGED <<b_read_level, b_write_level>>,
           b_sems' = b_init', b_init' = b_init \/ b_init' = FALSE,
           b_element' \in [Users -> Values \cup {EMPTY}],
           \A u \in Users : b_element'[u] \in Values \/ b_pc'[u] \notin {"post", "room"}
    PROVE  BoxInv'
  <1>1. BoxFields'
    <2>1. b_init' \in BOOLEAN
      BY Zenon DEF BoxInv, BoxFields
    <2> QED BY Zenon, <2>1 DEF BoxInv, BoxFields
  <1>2. BoxUsers'
    BY Zenon DEF BoxInv, BoxUsers, BoxGoto
  <1>3. At("got")' = At("got") /\ At("room")' = At("room")
    <2>1. CASE BoxGoto(t, m)
      BY Zenon, <2>1, BoxElsewhere DEF BoxInv
    <2>2. CASE UNCHANGED b_pc
      BY Zenon, <2>2 DEF At
    <2> QED BY Zenon, <2>1, <2>2
  <1>4. b_init' => b_init
    BY Zenon
  <1> QED BY Zenon, <1>1, <1>2, <1>3, <1>4 DEF BoxInv, BoxTokens

LEMMA OpenInv ==
    ASSUME MailboxAssumption, Counted(Users), BoxInv, mailbox_init
    PROVE  BoxInv'
  <1>1. b_init' \in BOOLEAN /\ b_sems' = b_init'
    BY Zenon DEF mailbox_init
  <1>2. At("got")' = {} /\ At("room")' = {}
    BY Zenon DEF mailbox_init, At
  <1>3. BoxFields' /\ BoxUsers'
    BY Zenon, <1>1 DEF mailbox_init, BoxInv, BoxFields, BoxUsers
  <1>4. Cardinality(At("got")') = 0 /\ Cardinality(At("room")') = 0
    BY Zenon, <1>2 DEF Counted
  <1> QED BY <1>3, <1>4 DEF mailbox_init, BoxInv, BoxTokens

LEMMA PendValueInv ==
    ASSUME MailboxAssumption, Counted(Users), BoxInv, NEW t \in Users, PendValue(t)
    PROVE  BoxInv'
  <1>0. b_pc[t] = "pend" /\ UNCHANGED <<b_init, b_write_level, b_element>>
    BY Zenon DEF PendValue
  <1>1. CASE BoxReadSem!Take(t) /\ BoxGoto(t, "got")
    <2>1. b_read_level > 0 /\ b_read_level' = b_read_level - 1 /\ b_sems' = b_sems
      BY Zenon, <1>1 DEF BoxReadSem!Take
    <2>2. Cardinality(At("got")') = Cardinality(At("got")) + 1 /\ At("room")' = At("room")
      BY Zenon, <1>0, <1>1, BoxArrive, BoxElsewhere DEF BoxInv
    <2>3. b_init' \in BOOLEAN /\ b_sems' = b_init'
      BY <1>0, <2>1, Zenon DEF BoxInv, BoxFields
    <2>4. BoxFields' /\ BoxUsers'
      BY <1>0, <1>1, <2>1, <2>3 DEF BoxInv, BoxFields, BoxUsers, BoxGoto
    <2> QED BY <1>0, <2>1, <2>2, <2>4, BoxCounted DEF BoxInv, BoxFields, BoxTokens
  <1>2. CASE BoxReadSem!Wait(t) /\ UNCHANGED b_pc
    <2>1. b_sems' = b_sems /\ b_read_level' = b_read_level
      BY Zenon, <1>2 DEF BoxReadSem!Wait
    <2> QED BY Zenon, <1>0, <1>2, <2>1, BoxQuietInv DEF BoxInv, BoxFields, BoxUsers
  <1>3. CASE BoxReadSem!Fail(t) /\ BoxGoto(t, "user")
    <2>1. b_sems' = b_sems /\ b_read_level' = b_read_level
      BY Zenon, <1>3 DEF BoxReadSem!Fail
    <2>2. \A u \in Users : b_element'[u] \in Values \/ b_pc'[u] \notin {"post", "room"}
      BY Zenon, <1>0, <1>3 DEF BoxInv, BoxUsers, BoxGoto
    <2> QED BY Zenon, <1>0, <1>3, <2>1, <2>2, BoxQuietInv DEF BoxInv, BoxFields, BoxUsers
  <1> QED BY Zenon, <1>1, <1>2, <1>3 DEF PendValue

LEMMA PendFreeInv ==
    ASSUME MailboxAssumption, Counted(Users), BoxInv, NEW t \in Users, PendFree(t)
    PROVE  BoxInv'
  <1>0. b_pc[t] = "post" /\ UNCHANGED <<b_init, b_read_level>>
    BY Zenon DEF PendFree
  <1>1. CASE BoxWriteSem!Take(t) /\ BoxGoto(t, "room") /\ UNCHANGED b_element
    <2>1. b_write_level > 0 /\ b_write_level' = b_write_level - 1 /\ b_sems' = b_sems
      BY Zenon, <1>1 DEF BoxWriteSem!Take
    <2>2. Cardinality(At("room")') = Cardinality(At("room")) + 1 /\ At("got")' = At("got")
      BY Zenon, <1>0, <1>1, BoxArrive, BoxElsewhere DEF BoxInv
    <2>3. b_init' \in BOOLEAN /\ b_sems' = b_init'
      BY <1>0, <2>1, Zenon DEF BoxInv, BoxFields
    <2>4. BoxFields' /\ BoxUsers'
      BY <1>0, <1>1, <2>1, <2>3 DEF BoxInv, BoxFields, BoxUsers, BoxGoto
    <2> QED BY <1>0, <2>1, <2>2, <2>4, BoxCounted DEF BoxInv, BoxFields, BoxTokens
  <1>2. CASE BoxWriteSem!Wait(t) /\ UNCHANGED <<b_pc, b_element>>
    <2>1. b_sems' = b_sems /\ b_write_level' = b_write_level
      BY Zenon, <1>2 DEF BoxWriteSem!Wait
    <2> QED BY Zenon, <1>0, <1>2, <2>1, BoxQuietInv DEF BoxInv, BoxFields, BoxUsers
  <1>3. CASE BoxWriteSem!Fail(t) /\ BoxGoto(t, "user") /\ b_element' = [b_element EXCEPT ![t] = EMPTY]
    <2>1. b_sems' = b_sems /\ b_write_level' = b_write_level
      BY Zenon, <1>3 DEF BoxWriteSem!Fail
    <2>2. /\ b_element' \in [Users -> Values \cup {EMPTY}]
          /\ \A u \in Users : b_element'[u] \in Values \/ b_pc'[u] \notin {"post", "room"}
      BY Zenon, <1>0, <1>3 DEF BoxInv, BoxUsers, BoxGoto
    <2> QED BY Zenon, <1>0, <1>3, <2>1, <2>2, BoxQuietInv DEF BoxInv, BoxFields, BoxUsers
  <1> QED BY Zenon, <1>1, <1>2, <1>3 DEF PendFree

\* A reader gives its token to the writers; nobody gets it once the mailbox
\* is destroyed.
LEMMA TakeValueInv ==
    ASSUME MailboxAssumption, Counted(Users), BoxInv, NEW t \in Users,
           TakeValue(t) \/ PendGone(t)
    PROVE  BoxInv'
  <1>0. /\ b_pc[t] = "got" /\ BoxGoto(t, "user") /\ b_sems' = b_sems
        /\ UNCHANGED <<b_init, b_read_level, b_element>>
        /\ IF b_init THEN b_write_level' = b_write_level + 1 ELSE b_write_level' = b_write_level
    BY Zenon DEF TakeValue, PendGone, BoxWriteSem!Post, b_semaphores
  <1>1. Cardinality(At("got")') = Cardinality(At("got")) - 1 /\ At("room")' = At("room")
    BY Zenon, <1>0, BoxDepart, BoxElsewhere DEF BoxInv
  <1>2. b_init' \in BOOLEAN /\ b_sems' = b_init' /\ b_init' = b_init
    BY <1>0, Zenon DEF BoxInv, BoxFields
  <1>3. BoxFields' /\ BoxUsers'
    BY <1>0, <1>2 DEF BoxInv, BoxFields, BoxUsers, BoxGoto
  <1> QED BY <1>0, <1>1, <1>2, <1>3, BoxCounted DEF BoxInv, BoxFields, BoxTokens

LEMMA PutValueInv ==
    ASSUME MailboxAssumption, Counted(Users), BoxInv, NEW t \in Users, PutValue(t)
    PROVE  BoxInv'
  <1>0. /\ b_pc[t] = "room" /\ BoxGoto(t, "user") /\ UNCHANGED <<b_init, b_write_level>>
        /\ b_element' = [b_element EXCEPT ![t] = EMPTY]
    BY Zenon DEF PutValue
  <1>1. /\ b_sems' = b_sems
        /\ IF b_init THEN b_read_level' = b_read_level + 1 ELSE b_read_level' = b_read_level
    BY Zenon DEF PutValue, BoxReadSem!Post, BoxInv, BoxFields
  <1>2. Cardinality(At("room")') = Cardinality(At("room")) - 1 /\ At("got")' = At("got")
    BY Zenon, <1>0, BoxDepart, BoxElsewhere DEF BoxInv
  <1>3. b_init' \in BOOLEAN /\ b_sems' = b_init' /\ b_init' = b_init
    BY <1>0, <1>1, Zenon DEF BoxInv, BoxFields
  <1>4. BoxFields'
    BY <1>0, <1>1, <1>3 DEF BoxInv, BoxFields
  <1>5. BoxUsers'
    BY Zenon, <1>0 DEF BoxInv, BoxUsers, BoxGoto
  <1> QED BY <1>0, <1>1, <1>2, <1>3, <1>4, <1>5, BoxCounted DEF BoxInv, BoxFields, BoxTokens

LEMMA BoxNextInv ==
    ASSUME MailboxAssumption, Counted(Users), BoxInv, [BoxNext]_boxVars
    PROVE  BoxInv'
  <1>1. ASSUME NEW t \in Users, mailbox_destroy(t) PROVE BoxInv'
    <2>1. /\ b_pc[t] = "user" /\ b_init' = FALSE /\ b_sems' = b_init'
          /\ UNCHANGED <<b_read_level, b_write_level, b_pc, b_element>>
      BY Zenon, <1>1 DEF mailbox_destroy
    <2> QED BY Zenon, <2>1, BoxQuietInv DEF BoxInv, BoxUsers
  <1>2. ASSUME NEW t \in Users, mailbox_pend(t) PROVE BoxInv'
    <2>1. /\ b_pc[t] = "user" /\ BoxGoto(t, "pend")
          /\ UNCHANGED <<b_init, b_sems, b_read_level, b_write_level, b_element>>
      BY Zenon, <1>2 DEF mailbox_pend, b_semaphores
    <2>2. \A u \in Users : b_element'[u] \in Values \/ b_pc'[u] \notin {"post", "room"}
      BY Zenon, <2>1 DEF BoxInv, BoxUsers, BoxGoto
    <2> QED BY Zenon, <2>1, <2>2, BoxQuietInv DEF BoxInv, BoxFields, BoxUsers
  <1>3. ASSUME NEW t \in Users, NEW v \in Values, mailbox_post(t, v) PROVE BoxInv'
    <2>1. /\ b_pc[t] = "user" /\ BoxGoto(t, "post")
          /\ b_element' = [b_element EXCEPT ![t] = v]
          /\ UNCHANGED <<b_init, b_sems, b_read_level, b_write_level>>
      BY Zenon, <1>3 DEF mailbox_post, b_semaphores
    <2>2. /\ b_element' \in [Users -> Values \cup {EMPTY}]
          /\ \A u \in Users : b_element'[u] \in Values \/ b_pc'[u] \notin {"post", "room"}
      BY Zenon, <2>1 DEF BoxInv, BoxUsers, BoxGoto
    <2> QED BY Zenon, <2>1, <2>2, BoxQuietInv DEF BoxInv, BoxFields, BoxUsers
  <1>4. CASE UNCHANGED boxVars
    BY Zenon, <1>4 DEF boxVars, BoxInv, BoxFields, BoxUsers, BoxTokens, At
  <1> QED BY Zenon, <1>1, <1>2, <1>3, <1>4, OpenInv, PendValueInv, PendFreeInv, TakeValueInv,
             PutValueInv DEF BoxNext
-----------------------------------------------------------------------------
BoxFull == b_init /\ b_read_level + Cardinality(At("got")) = 1
BoxBuffer == IF BoxFull THEN <<b_value>> ELSE <<>>

\* Reading empties the buffer, writing fills it, and between the two the token
\* of the readers only moves from the semaphore to the thread that takes it.
LEMMA BoxStepImplements ==
    ASSUME MailboxAssumption, Counted(Users), BoxInv, [BoxNext]_boxVars
    PROVE  [BoxAbstract!Next]_(BoxAbstract!vars)
  <1>1. ASSUME b_init' = b_init, b_received' = b_received, BoxBuffer' = BoxBuffer
        PROVE  UNCHANGED BoxAbstract!vars
    BY <1>1, Zenon DEF BoxAbstract!vars, BoxBuffer, BoxFull
  <1>2. ASSUME NEW t \in Users, TakeValue(t) PROVE BoxAbstract!Receive
    <2>1. /\ b_pc[t] = "got" /\ b_init /\ b_init' = b_init /\ b_received' = b_value
          /\ b_read_level' = b_read_level /\ BoxGoto(t, "user")
      BY Zenon, <1>2 DEF TakeValue
    <2>2. Cardinality(At("got")') = Cardinality(At("got")) - 1
      BY Zenon, <2>1, BoxDepart DEF BoxInv
    <2>3. b_read_level = 0 /\ Cardinality(At("got")) = 1
      BY Zenon, <2>1, BoxOnly
    <2>4. BoxFull /\ ~BoxFull'
      BY <2>1, <2>2, <2>3 DEF BoxFull
    <2>5. BoxBuffer = <<b_value>> /\ BoxBuffer' = <<>>
      BY Zenon, <2>4 DEF BoxBuffer
    <2>6. BoxBuffer # <<>> /\ Head(BoxBuffer) = b_value /\ Tail(BoxBuffer) = <<>>
      BY <2>5
    <2>7. BoxBuffer # <<>> /\ b_received' = Head(BoxBuffer) /\ BoxBuffer' = Tail(BoxBuffer)
      BY Zenon, <2>1, <2>5, <2>6
    <2> QED BY <2>1, <2>7, Zenon DEF BoxAbstract!Receive, BoxBuffer, BoxFull
  <1>3. ASSUME NEW t \in Users, PutValue(t), b_init PROVE BoxAbstract!Send(b_element[t])
    <2>1. /\ b_pc[t] = "room" /\ b_init' = b_init /\ b_received' = b_received
          /\ b_value' = b_element[t] /\ BoxGoto(t, "user") /\ b_read_level' = b_read_level + 1
      BY Zenon, <1>3 DEF PutValue, BoxReadSem!Post, BoxInv, BoxFields
    <2>2. At("got")' = At("got")
      BY Zenon, <2>1, BoxElsewhere DEF BoxInv
    <2>3. b_read_level = 0 /\ Cardinality(At("got")) = 0
      BY Zenon, <2>1, BoxOnly
    <2>4. ~BoxFull /\ BoxFull'
      BY <1>3, <2>1, <2>2, <2>3 DEF BoxFull
    <2>5. BoxBuffer = <<>> /\ BoxBuffer' = <<b_element[t]>>
      BY Zenon, <2>1, <2>4 DEF BoxBuffer
    <2>6. Len(BoxBuffer) < 1 /\ BoxBuffer' = Append(BoxBuffer, b_element[t])
      BY <2>5
    <2> QED BY <1>3, <2>1, <2>6, Zenon DEF BoxAbstract!Send, BoxBuffer, BoxFull
  <1>4. ASSUME ~b_init, ~b_init', b_received' = b_received PROVE UNCHANGED BoxAbstract!vars
    <2>1. b_init' = b_init
      BY Zenon, <1>4, BoxNextInv DEF BoxInv, BoxFields
    <2>2. BoxBuffer' = BoxBuffer
      BY Zenon, <1>4 DEF BoxBuffer, BoxFull
    <2> QED BY Zenon, <1>1, <1>4, <2>1, <2>2
  <1>5. ASSUME mailbox_init PROVE BoxAbstract!Open
    <2>1. /\ ~b_init /\ b_init' = TRUE /\ b_received' = b_received /\ b_read_level' = 0
          /\ \A t \in Users : b_pc'[t] = "user"
      BY Zenon, <1>5 DEF mailbox_init
    <2>2. At("got")' = {}
      BY Zenon, <2>1 DEF At
    <2>3. ~BoxFull'
      BY <2>1, <2>2 DEF BoxFull, Counted
    <2>4. BoxBuffer' = <<>>
      BY Zenon, <2>3 DEF BoxBuffer
    <2> QED BY <2>1, <2>4, Zenon DEF BoxAbstract!Open, BoxBuffer, BoxFull
  <1>6. ASSUME NEW t \in Users, mailbox_destroy(t) PROVE BoxAbstract!Close
    <2>1. b_init /\ b_init' = FALSE /\ b_received' = b_received
      BY Zenon, <1>6 DEF mailbox_destroy
    <2> QED BY <2>1, Zenon DEF BoxAbstract!Close
  <1>7. ASSUME NEW t \in Users, UNCHANGED <<b_init, b_value, b_received>>,
               b_read_level' + Cardinality(At("got")') = b_read_level + Cardinality(At("got"))
        PROVE  UNCHANGED BoxAbstract!vars
    <2>1. BoxFull' = BoxFull
      BY <1>7, Zenon DEF BoxFull
    <2>2. BoxBuffer' = BoxBuffer
      BY <1>7, <2>1, Zenon DEF BoxBuffer
    <2> QED BY Zenon, <1>1, <1>7, <2>2
  <1>8. ASSUME NEW t \in Users, mailbox_pend(t) \/ \E v \in Values : mailbox_post(t, v)
        PROVE  UNCHANGED BoxAbstract!vars
    <2>1. /\ b_pc[t] = "user" /\ UNCHANGED <<b_init, b_value, b_received, b_read_level>>
          /\ BoxGoto(t, "pend") \/ BoxGoto(t, "post")
      BY Zenon, <1>8 DEF mailbox_pend, mailbox_post, b_semaphores
    <2>2. At("got")' = At("got")
      BY Zenon, <2>1, BoxElsewhere DEF BoxInv
    <2> QED BY Zenon, <1>7, <2>1, <2>2
  <1>9. ASSUME NEW t \in Users, PendValue(t) PROVE UNCHANGED BoxAbstract!vars
    <2>1. b_pc[t] = "pend" /\ UNCHANGED <<b_init, b_value, b_received>>
      BY Zenon, <1>9 DEF PendValue
    <2>2. CASE BoxReadSem!Take(t) /\ BoxGoto(t, "got")
      <3>1. b_read_level' = b_read_level - 1
        BY Zenon, <2>2 DEF BoxReadSem!Take
      <3>2. Cardinality(At("got")') = Cardinality(At("got")) + 1
        BY Zenon, <2>1, <2>2, BoxArrive DEF BoxInv
      <3>3. b_read_level' + Cardinality(At("got")') = b_read_level + Cardinality(At("got"))
        BY <3>1, <3>2, BoxCounted DEF BoxInv, BoxFields
      <3> QED BY Zenon, <1>7, <2>1, <3>3
    <2>3. CASE BoxReadSem!Wait(t) /\ UNCHANGED b_pc
      BY Zenon, <1>7, <2>1, <2>3 DEF BoxReadSem!Wait, At
    <2>4. CASE BoxReadSem!Fail(t) /\ BoxGoto(t, "user")
      <3>1. At("got")' = At("got") /\ b_read_level' = b_read_level
        BY Zenon, <2>1, <2>4, BoxElsewhere DEF BoxInv, BoxReadSem!Fail
      <3> QED BY Zenon, <1>7, <2>1, <3>1
    <2> QED BY Zenon, <1>9, <2>2, <2>3, <2>4 DEF PendValue
  <1>10. ASSUME NEW t \in Users, PendFree(t) PROVE UNCHANGED BoxAbstract!vars
    <2>1. /\ b_pc[t] = "post" /\ UNCHANGED <<b_init, b_value, b_received, b_read_level>>
          /\ BoxGoto(t, "room") \/ UNCHANGED b_pc \/ BoxGoto(t, "user")
      BY Zenon, <1>10 DEF PendFree
    <2>2. At("got")' = At("got")
      <3>1. CASE UNCHANGED b_pc
        BY Zenon, <3>1 DEF At
      <3>2. CASE BoxGoto(t, "room") \/ BoxGoto(t, "user")
        BY Zenon, <2>1, <3>2, BoxElsewhere DEF BoxInv
      <3> QED BY Zenon, <2>1, <3>1, <3>2
    <2> QED BY Zenon, <1>7, <2>1, <2>2
  <1>11. ASSUME NEW t \in Users, PendGone(t) PROVE UNCHANGED BoxAbstract!vars
    <2>1. ~b_init /\ ~b_init' /\ b_received' = b_received
      BY Zenon, <1>11 DEF PendGone
    <2> QED BY Zenon, <1>4, <2>1
  <1>12. ASSUME NEW t \in Users, PutValue(t)
         PROVE  BoxAbstract!Next \/ UNCHANGED BoxAbstract!vars
    <2>1. b_element[t] \in Values
      BY Zenon, <1>12 DEF PutValue, BoxInv, BoxUsers
    <2>2. CASE b_init
      <3>1. BoxAbstract!Send(b_element[t])
        BY Zenon, <1>3, <1>12, <2>2
      <3> QED BY Zenon, <2>1, <3>1 DEF BoxAbstract!Next, BoxAbstract!Send
    <2>3. CASE ~b_init
      <3>1. ~b_init' /\ b_received' = b_received
        BY Zenon, <1>12, <2>3 DEF PutValue
      <3> QED BY Zenon, <1>4, <2>3, <3>1
    <2> QED BY Zenon, <2>2, <2>3
  <1>13. CASE UNCHANGED boxVars
    <2>1. b_init' = b_init /\ b_received' = b_received /\ BoxBuffer' = BoxBuffer
      BY Zenon, <1>13 DEF boxVars, BoxBuffer, BoxFull, At
    <2> QED BY Zenon, <1>1, <2>1
  <1> QED BY Zenon, <1>2, <1>5, <1>6, <1>8, <1>9, <1>10, <1>11, <1>12, <1>13
          DEF BoxNext, BoxAbstract!Next
-----------------------------------------------------------------------------
(* The theorems.  That sizes of sets of users go up and down by one follows *)
(* from the library's theorems about finite sets.                           *)
INSTANCE FiniteSetTheorems

LEMMA FiniteCounted == ASSUME NEW S, IsFiniteSet(S) PROVE Counted(S)
  <1>1. Cardinality({}) = 0
    BY Zenon, FS_EmptySet
  <1>2. ASSUME NEW T \in SUBSET S
        PROVE  IsFiniteSet(T) /\ Cardinality(T) \in Nat
    <2>1. IsFiniteSet(T)
      BY Zenon, FS_Subset
    <2> QED BY Zenon, <2>1, FS_CardinalityType
  <1>3. ASSUME NEW T \in SUBSET S, NEW e \in S
        PROVE  /\ e \notin T => Cardinality(T \cup {e}) = Cardinality(T) + 1
               /\ e \in T => Cardinality(T \ {e}) = Cardinality(T) - 1
    BY Zenon, <1>2, FS_AddElement, FS_RemoveElement
  <1> QED BY Zenon, <1>1, <1>2, <1>3 DEF Counted

-----------------------------------------------------------------------------
\* The counts of the queue agree, in every state.
LEMMA QueueInvariant == ASSUME CommAssumption PROVE QueueSpec => []QueueInv
  <1>1. Counted(Users)
    BY Zenon, FiniteCounted DEF CommAssumption
  <1>2. QueueInit => QueueInv
    BY Zenon, <1>1, QueueInitInv
  <1>3. QueueInv /\ [QueueNext]_queueVars => QueueInv'
    BY Zenon, <1>1, QueueNextInv
  <1> QED BY <1>2, <1>3, PTL DEF QueueSpec

\* The fields of a queue are well typed, and size stays within the array, for
\* any number of readers and writers.
THEOREM QueueTypeCorrect == ASSUME CommAssumption PROVE QueueSpec => []QueueTypeOK
  <1>1. QueueInv => QueueTypeOK
    <2> SUFFICES ASSUME QueueInv PROVE QueueTypeOK
      BY Zenon
    <2>1. q_init \in BOOLEAN /\ q_sems \in BOOLEAN
      BY Zenon DEF QueueInv, QueueFields
    <2>2. Counted(Users)
      BY Zenon, FiniteCounted DEF CommAssumption
    <2> QED BY <2>1, <2>2, Bounded DEF QueueInv, QueueFields, QueueUsers, QueueTypeOK
  <1> QED BY <1>1, QueueInvariant, PTL

\* The levels of the two semaphores, the threads past them and the elements in
\* the array agree at every moment, for any number of readers and writers.
THEOREM TokensAlwaysMatch == ASSUME CommAssumption PROVE QueueSpec => []TokensMatch
  <1>1. QueueInv => TokensMatch
    BY Zenon DEF QueueInv, QueueTokens, TokensMatch
  <1> QED BY <1>1, QueueInvariant, PTL

\* queue_post and queue_pend implement a bounded FIFO buffer: no element is
\* lost, duplicated, overwritten or reordered, for any threads and any size.
THEOREM QueueImplementsFIFO == ASSUME CommAssumption PROVE QueueSpec => QueueIsFIFO
  <1>1. QueueInit => QueueAbstract!Init
    BY Zenon DEF QueueInit, QueueAbstract!Init
  <1>2. QueueInv /\ [QueueNext]_queueVars => [QueueAbstract!Next]_(QueueAbstract!vars)
    <2>1. Counted(Users)
      BY Zenon, FiniteCounted DEF CommAssumption
    <2> QED BY Zenon, <2>1, QueueStepImplements
  <1> QED BY <1>1, <1>2, QueueInvariant, PTL DEF QueueSpec, QueueIsFIFO, QueueAbstract!Spec
-----------------------------------------------------------------------------
\* The mailbox has one token, in every state.
LEMMA BoxInvariant == ASSUME MailboxAssumption PROVE BoxSpec => []BoxInv
  <1>1. Counted(Users)
    BY Zenon, FiniteCounted DEF MailboxAssumption
  <1>2. BoxInit => BoxInv
    BY Zenon, <1>1, BoxInitInv
  <1>3. BoxInv /\ [BoxNext]_boxVars => BoxInv'
    BY Zenon, <1>1, BoxNextInv
  <1> QED BY <1>2, <1>3, PTL DEF BoxSpec

\* The right to the value is in exactly one place, for any readers and writers.
THEOREM TokenIsOne == ASSUME MailboxAssumption PROVE BoxSpec => []OneToken
  <1>1. BoxInv => OneToken
    BY Zenon DEF BoxInv, BoxTokens, OneToken
  <1> QED BY <1>1, BoxInvariant, PTL

\* mailbox_post and mailbox_pend implement a FIFO buffer of one place: no value
\* is overwritten before it is read, and none is read twice.
THEOREM MailboxIsFIFO == ASSUME MailboxAssumption PROVE BoxSpec => BoxIsFIFO
  <1>1. BoxInit => BoxAbstract!Init
    BY Zenon DEF BoxInit, BoxAbstract!Init
  <1>2. BoxInv /\ [BoxNext]_boxVars => [BoxAbstract!Next]_(BoxAbstract!vars)
    <2>1. Counted(Users)
      BY Zenon, FiniteCounted DEF MailboxAssumption
    <2> QED BY Zenon, <2>1, BoxStepImplements
  <1> QED BY <1>1, <1>2, BoxInvariant, PTL DEF BoxSpec, BoxIsFIFO, BoxAbstract!Spec
-----------------------------------------------------------------------------
\* TokensAgree: whatever the threads do between their steps, neither the queue
\* nor the mailbox miscounts what it holds.
THEOREM TokensAlwaysAgree ==
    ASSUME CommAssumption, MailboxAssumption
    PROVE  QueueSpec /\ BoxSpec => []TokensAgree
  BY QueueTypeCorrect, TokensAlwaysMatch, TokenIsOne, PTL DEF TokensAgree

\* CommImplementsFIFO: both refine a bounded FIFO buffer.
THEOREM CommIsFIFO ==
    ASSUME CommAssumption, MailboxAssumption
    PROVE  QueueSpec /\ BoxSpec => CommImplementsFIFO
  BY QueueImplementsFIFO, MailboxIsFIFO, PTL DEF CommImplementsFIFO
=============================================================================
