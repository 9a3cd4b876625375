------------------------------ MODULE Mailbox ------------------------------
(***************************************************************************)
(* The mailboxes of src/Kernel/Sources/comm/mailbox.c: one value, a        *)
(* semaphore for readers and one for writers, instances of                 *)
(* AbstractSemaphore.  The field state of the structure is never used:     *)
(* whether the mailbox is full is known from the semaphores alone.  Steps  *)
(* are as in module CommQueue.                                             *)
(***************************************************************************)
EXTENDS CommUsers

MailboxAssumption == IsFiniteSet(Users)

VARIABLES b_init, b_value,
          b_sems,                    \* both semaphores are initialized
          b_read_level, b_readers,     \* mailbox_sem_read
          b_write_level, b_writers,    \* mailbox_sem_write
          b_pc, b_element,     \* thread -> where it is, what it posts
          b_received         \* the value the last mailbox_pend returned
b_semaphores == <<b_sems, b_read_level, b_readers, b_write_level, b_writers>>
boxVars == <<b_init, b_value, b_sems, b_read_level, b_readers, b_write_level, b_writers, b_pc,
             b_element, b_received>>

BoxReadSem == INSTANCE AbstractSemaphore
    WITH Threads <- Users, Levels <- {0}, init <- b_sems, level <- b_read_level,
         pending <- b_readers
BoxWriteSem == INSTANCE AbstractSemaphore
    WITH Threads <- Users, Levels <- {1}, init <- b_sems, level <- b_write_level,
         pending <- b_writers

BoxGoto(t, l) == b_pc' = [b_pc EXCEPT ![t] = l]

BoxInit ==
    /\ b_init = FALSE /\ b_sems = FALSE /\ b_value = EMPTY
    /\ b_read_level = 0 /\ b_write_level = 0
    /\ b_readers = {} /\ b_writers = {}
    /\ b_pc = [t \in Users |-> "user"]
    /\ b_element = [t \in Users |-> EMPTY]
    /\ b_received = EMPTY

mailbox_init ==
    /\ ~b_init /\ \A t \in Users : b_pc[t] = "user"
    /\ b_init' = TRUE /\ b_sems' = TRUE /\ b_value' = EMPTY
    /\ b_read_level' = 0 /\ b_write_level' = 1
    /\ UNCHANGED <<b_readers, b_writers, b_pc, b_element, b_received>>

mailbox_destroy(t) ==
    /\ b_pc[t] = "user" /\ b_init
    /\ b_init' = FALSE /\ b_sems' = FALSE
    /\ UNCHANGED <<b_value, b_read_level, b_readers, b_write_level, b_writers, b_pc,
                   b_element, b_received>>
-----------------------------------------------------------------------------
\* mailbox_pend, up to sem_pend(&mailbox->mailbox_sem_read)
mailbox_pend(t) ==
    /\ b_pc[t] = "user" /\ b_init
    /\ BoxGoto(t, "pend")
    /\ UNCHANGED <<b_init, b_value, b_semaphores, b_element, b_received>>

PendValue(t) ==
    /\ b_pc[t] = "pend"
    /\ \/ BoxReadSem!Take(t) /\ BoxGoto(t, "got")
       \/ BoxReadSem!Wait(t) /\ UNCHANGED b_pc
       \/ BoxReadSem!Fail(t) /\ BoxGoto(t, "user")
    /\ UNCHANGED <<b_init, b_value, b_write_level, b_writers, b_element, b_received>>

\* Mutant: the next reader is told instead of the next writer
TakePostsRead(t) ==
    /\ b_pc[t] = "got" /\ b_init
    /\ b_received' = b_value
    /\ BoxReadSem!Post
    /\ BoxGoto(t, "user")
    /\ UNCHANGED <<b_init, b_value, b_write_level, b_writers, b_element>>

TakeValue(t) ==
    /\ b_pc[t] = "got" /\ b_init
    /\ b_received' = b_value
    /\ BoxWriteSem!Post
    /\ BoxGoto(t, "user")
    /\ UNCHANGED <<b_init, b_value, b_read_level, b_readers, b_element>>

PendGone(t) ==
    /\ b_pc[t] = "got" /\ ~b_init
    /\ BoxGoto(t, "user")
    /\ UNCHANGED <<b_init, b_value, b_semaphores, b_element, b_received>>

\* mailbox_post, up to sem_pend(&mailbox->mailbox_sem_write)
mailbox_post(t, v) ==
    /\ b_pc[t] = "user" /\ b_init
    /\ BoxGoto(t, "post")
    /\ b_element' = [b_element EXCEPT ![t] = v]
    /\ UNCHANGED <<b_init, b_value, b_semaphores, b_received>>

PendFree(t) ==
    /\ b_pc[t] = "post"
    /\ \/ BoxWriteSem!Take(t) /\ BoxGoto(t, "room") /\ UNCHANGED b_element
       \/ BoxWriteSem!Wait(t) /\ UNCHANGED <<b_pc, b_element>>
       \/ /\ BoxWriteSem!Fail(t) /\ BoxGoto(t, "user")
          /\ b_element' = [b_element EXCEPT ![t] = EMPTY]
    /\ UNCHANGED <<b_init, b_value, b_read_level, b_readers, b_received>>

\* stored even if the mailbox was destroyed meanwhile; then sem_post fails
PutValue(t) ==
    /\ b_pc[t] = "room"
    /\ b_value' = b_element[t]
    /\ BoxReadSem!Post \/ (~b_sems /\ UNCHANGED <<b_sems, b_read_level, b_readers>>)
    /\ BoxGoto(t, "user") /\ b_element' = [b_element EXCEPT ![t] = EMPTY]
    /\ UNCHANGED <<b_init, b_write_level, b_writers, b_received>>

BoxNext ==
    \/ mailbox_init
    \/ \E t \in Users :
           \/ mailbox_destroy(t) \/ mailbox_pend(t) \/ PendValue(t)
           \/ TakeValue(t) \/ PendGone(t)
           \/ \E v \in Values : mailbox_post(t, v)
           \/ PendFree(t) \/ PutValue(t)

BoxSpec == BoxInit /\ [][BoxNext]_boxVars
-----------------------------------------------------------------------------
At(l) == {t \in Users : b_pc[t] = l}

\* The right to the value is in one place at a time: the write semaphore, a
\* writer past it, the read semaphore or a reader past it.
OneToken ==
    b_init => b_write_level + Cardinality(At("room")) + b_read_level
                + Cardinality(At("got")) = 1

BoxAbstract == INSTANCE AbstractFIFO
    WITH Capacity <- 1, NULL <- EMPTY, open <- b_init, received <- b_received,
         buffer <- IF b_init /\ b_read_level + Cardinality(At("got")) = 1
                   THEN <<b_value>> ELSE <<>>

\* The mailbox is a FIFO buffer of one place: a value that was given to
\* mailbox_post is neither overwritten before it is read nor read twice.
BoxIsFIFO == BoxAbstract!Spec
=============================================================================
