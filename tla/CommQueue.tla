----------------------------- MODULE CommQueue -----------------------------
(***************************************************************************)
(* The blocking queues of src/Kernel/Sources/comm/queue.c: a circular      *)
(* array, a semaphore that counts its elements and one that counts its     *)
(* free slots.  The semaphores are instances of AbstractSemaphore, which   *)
(* module Semaphore implements.                                            *)
(*                                                                         *)
(* A step is one critical section on queue->lock or one call of sem_pend,  *)
(* which is made outside it.  The calls of sem_post and sem_destroy are    *)
(* inside: their effect is part of the section.  Calls on an uninitialized *)
(* queue change nothing.                                                   *)
(***************************************************************************)
EXTENDS CommUsers

CONSTANT Size     \* the size given to queue_init

CommAssumption ==
    /\ Size \in Nat \ {0}
    /\ IsFiniteSet(Users) /\ EMPTY \notin Values

VARIABLES q_init,            \* queue->init = 1
          container,       \* slot -> element; the array is freed when ~init
          index_top, index_bot, size,
          q_sems,            \* both semaphores are initialized
          q_read_level, q_readers,     \* queue_sem_read
          q_write_level, q_writers,    \* queue_sem_write
          q_pc, q_element,     \* thread -> where it is, what it posts
          q_received         \* the value the last queue_pend returned
ring == <<container, index_top, index_bot, size>>
q_semaphores == <<q_sems, q_read_level, q_readers, q_write_level, q_writers>>
queueVars == <<q_init, container, index_top, index_bot, size, q_sems, q_read_level,
               q_readers, q_write_level, q_writers, q_pc, q_element, q_received>>

ReadSem == INSTANCE AbstractSemaphore
    WITH Threads <- Users, Levels <- {0}, init <- q_sems, level <- q_read_level,
         pending <- q_readers
WriteSem == INSTANCE AbstractSemaphore
    WITH Threads <- Users, Levels <- {Size}, init <- q_sems, level <- q_write_level,
         pending <- q_writers

Slots == 0 .. Size - 1
QueueGoto(t, l) == q_pc' = [q_pc EXCEPT ![t] = l]

QueueInit ==
    /\ q_init = FALSE /\ q_sems = FALSE
    /\ container = [i \in Slots |-> EMPTY]
    /\ index_top = 0 /\ index_bot = 0 /\ size = 0
    /\ q_read_level = 0 /\ q_write_level = 0
    /\ q_readers = {} /\ q_writers = {}
    /\ q_pc = [t \in Users |-> "user"]
    /\ q_element = [t \in Users |-> EMPTY]
    /\ q_received = EMPTY

\* the program initializes the queue when nobody is in a call on it; when
\* kmalloc fails the semaphores are destroyed again and nothing has changed
queue_init ==
    /\ ~q_init /\ \A t \in Users : q_pc[t] = "user"
    /\ q_init' = TRUE /\ q_sems' = TRUE
    /\ container' = [i \in Slots |-> EMPTY]
    /\ index_top' = 0 /\ index_bot' = 0 /\ size' = 0
    /\ q_read_level' = 0 /\ q_write_level' = Size
    /\ UNCHANGED <<q_readers, q_writers, q_pc, q_element, q_received>>

queue_destroy(t) ==
    /\ q_pc[t] = "user" /\ q_init
    /\ q_init' = FALSE /\ q_sems' = FALSE
    /\ UNCHANGED <<ring, q_read_level, q_readers, q_write_level, q_writers, q_pc, q_element,
                   q_received>>
-----------------------------------------------------------------------------
\* queue_pend, up to sem_pend(&queue->queue_sem_read)
queue_pend(t) ==
    /\ q_pc[t] = "user" /\ q_init
    /\ QueueGoto(t, "pend")
    /\ UNCHANGED <<q_init, ring, q_semaphores, q_element, q_received>>

\* Mutant: the reader waits for a full queue
PendFull(t) ==
    /\ q_pc[t] = "pend"
    /\ \/ ReadSem!Take(t) /\ size = Size /\ QueueGoto(t, "got")
       \/ ReadSem!Wait(t) /\ UNCHANGED q_pc
       \/ ReadSem!Fail(t) /\ QueueGoto(t, "user")
    /\ UNCHANGED <<q_init, ring, q_write_level, q_writers, q_element, q_received>>

PendElement(t) ==
    /\ q_pc[t] = "pend"
    /\ \/ ReadSem!Take(t) /\ QueueGoto(t, "got")
       \/ ReadSem!Wait(t) /\ UNCHANGED q_pc
       \/ ReadSem!Fail(t) /\ QueueGoto(t, "user")
    /\ UNCHANGED <<q_init, ring, q_write_level, q_writers, q_element, q_received>>

\* the queue still exists: take the oldest element and free its slot
ReadSlot(t) ==
    /\ q_pc[t] = "got" /\ q_init
    /\ q_received' = container[index_bot]
    /\ index_bot' = (index_bot + 1) % Size
    /\ size' = size - 1
    /\ WriteSem!Post
    /\ UNCHANGED <<container, index_top>>

TakeElement(t) ==
    /\ ReadSlot(t)
    /\ QueueGoto(t, "user")
    /\ UNCHANGED <<q_init, q_read_level, q_readers, q_element>>

\* OS_ERR_QUEUE_NON_INITIALIZED
PendLate(t) ==
    /\ q_pc[t] = "got" /\ ~q_init
    /\ QueueGoto(t, "user")
    /\ UNCHANGED <<q_init, ring, q_semaphores, q_element, q_received>>
-----------------------------------------------------------------------------
\* queue_post, up to sem_pend(&queue->queue_sem_write)
queue_post(t, v) ==
    /\ q_pc[t] = "user" /\ q_init
    /\ QueueGoto(t, "post")
    /\ q_element' = [q_element EXCEPT ![t] = v]
    /\ UNCHANGED <<q_init, ring, q_semaphores, q_received>>

PendRoom(t) ==
    /\ q_pc[t] = "post"
    /\ \/ WriteSem!Take(t) /\ QueueGoto(t, "room") /\ UNCHANGED q_element
       \/ WriteSem!Wait(t) /\ UNCHANGED <<q_pc, q_element>>
       \/ /\ WriteSem!Fail(t) /\ QueueGoto(t, "user")
          /\ q_element' = [q_element EXCEPT ![t] = EMPTY]
    /\ UNCHANGED <<q_init, ring, q_read_level, q_readers, q_received>>

\* Mutant: the readers are not told
PutSilently(t) ==
    /\ q_pc[t] = "room"
    /\ container' = [container EXCEPT ![index_top] = q_element[t]]
    /\ index_top' = (index_top + 1) % Size
    /\ size' = size + 1
    /\ QueueGoto(t, "user") /\ q_element' = [q_element EXCEPT ![t] = EMPTY]
    /\ UNCHANGED <<q_init, index_bot, q_semaphores, q_received>>

\* queue_post does not look at init again: the element is stored even if the
\* container was freed, and then sem_post fails
PutElement(t) ==
    /\ q_pc[t] = "room"
    /\ container' = [container EXCEPT ![index_top] = q_element[t]]
    /\ index_top' = (index_top + 1) % Size
    /\ size' = size + 1
    /\ ReadSem!Post \/ (~q_sems /\ UNCHANGED <<q_sems, q_read_level, q_readers>>)
    /\ QueueGoto(t, "user") /\ q_element' = [q_element EXCEPT ![t] = EMPTY]
    /\ UNCHANGED <<q_init, index_bot, q_write_level, q_writers, q_received>>

QueueContinue(t) ==
    \/ PendElement(t) \/ TakeElement(t) \/ PendLate(t)
    \/ PendRoom(t) \/ PutElement(t)

QueueNext ==
    \/ queue_init
    \/ \E t \in Users :
           \/ queue_destroy(t) \/ queue_pend(t) \/ QueueContinue(t)
           \/ \E v \in Values : queue_post(t, v)

QueueSpec == QueueInit /\ [][QueueNext]_queueVars

\* a thread that can go on does, as for the semaphore
QueueFairSpec == QueueSpec /\ \A t \in Users : WF_queueVars(QueueContinue(t))
-----------------------------------------------------------------------------
\* Types of the fields of struct queue; size stays within the array.
QueueTypeOK ==
    /\ q_init \in BOOLEAN /\ q_sems \in BOOLEAN
    /\ container \in [Slots -> Values \cup {EMPTY}]
    /\ index_top \in Slots /\ index_bot \in Slots /\ size \in 0 .. Size
    /\ q_read_level \in 0 .. Size /\ q_write_level \in 0 .. Size
    /\ q_readers \subseteq Users /\ q_writers \subseteq Users
    /\ q_pc \in [Users -> {"user", "pend", "got", "post", "room"}]
    /\ q_element \in [Users -> Values \cup {EMPTY}]

Past(l) == {t \in Users : q_pc[t] = l}

\* The two semaphores and the array agree at every moment: an element in the
\* array is one unit of the read semaphore or a reader that has taken it and
\* not the element; every other slot is one unit of the write semaphore or a
\* writer that has taken it.  Each of the four counts changes in another step.
TokensMatch ==
    q_init =>
        /\ q_read_level + Cardinality(Past("got")) = size
        /\ q_write_level + Cardinality(Past("room")) + size = Size
        /\ index_top = (index_bot + size) % Size

QueueAbstract == INSTANCE AbstractFIFO
    WITH Capacity <- Size, NULL <- EMPTY, open <- q_init, received <- q_received,
         buffer <- IF q_init
                   THEN [i \in 1 .. size |->
                            container[(index_bot + i - 1) % Size]]
                   ELSE <<>>

\* The queue is a bounded FIFO buffer: no element posted with queue_post is
\* lost, duplicated, overwritten or reordered.
QueueIsFIFO == QueueAbstract!Spec

\* While the queue keeps elements and readers wait in queue_pend, elements go on
\* being taken, whoever gets them: a wake-up lost in queue_sem_read would stop
\* them.
ElementsMove ==
    <>[](q_init /\ size > 0 /\ Past("pend") # {})
        => []<><<\E t \in Users : TakeElement(t)>>_queueVars

\* While the queue keeps free slots and writers wait in queue_post, elements go
\* on being stored: a wake-up lost in queue_sem_write would stop them.
RoomIsUsed ==
    <>[](q_init /\ size < Size /\ Past("post") # {})
        => []<><<\E t \in Users : PutElement(t)>>_queueVars

\* queue_destroy ends every call: nobody stays blocked on a destroyed queue.
QueueReleases == \A t \in Users : (~q_init /\ q_pc[t] # "user") ~> q_pc[t] = "user"
=============================================================================
