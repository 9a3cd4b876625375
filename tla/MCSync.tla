------------------------------- MODULE MCSync -------------------------------
(***************************************************************************)
(* A program that uses a semaphore, a communication queue, a mailbox or a  *)
(* mutex: the four share no state, so a behaviour picks one when it starts *)
(* (`part') and the others stay as they are.                               *)
(***************************************************************************)
EXTENDS Semaphore, Mutex, Comm, TLC

CONSTANTS t1, t2, t3, t4

VARIABLE part

InitLevels == {-1, 0, 2}
Three == {t1, t2, t3}
ThreePriorities == t1 :> 0 @@ t2 :> 1 @@ t3 :> 1

ASSUME CommConstants == CommAssumption
ASSUME MailboxConstants == MailboxAssumption
ASSUME MutexConstants == MutexAssumption

MCInit ==
    /\ part \in {"semaphore", "queue", "mailbox", "mutex"}
    /\ Init /\ QueueInit /\ BoxInit /\ MutexInit

SemaphoreStep == part = "semaphore" /\ Next /\ UNCHANGED <<part, queueVars, boxVars, mutexVars>>
QueueStep == part = "queue" /\ QueueNext /\ UNCHANGED <<part, vars, boxVars, mutexVars>>
MailboxStep == part = "mailbox" /\ BoxNext /\ UNCHANGED <<part, vars, queueVars, mutexVars>>
MutexStep == part = "mutex" /\ MutexNext /\ UNCHANGED <<part, vars, queueVars, boxVars>>

SyncNext == SemaphoreStep \/ QueueStep \/ MailboxStep \/ MutexStep

\* the fairness of the modules, each when it is the one that moves
SyncSpec ==
    /\ MCInit /\ [][SyncNext]_<<part, vars, queueVars, boxVars, mutexVars>>
    /\ \A t \in Threads : WF_vars(part = "semaphore" /\ Continue(t))
    /\ \A t \in Users : WF_queueVars(part = "queue" /\ QueueContinue(t))
    /\ \A t \in Callers : WF_mutexVars(part = "mutex" /\ MutexContinue(t))

\* Nobody waits for what is there: an available semaphore is taken, elements
\* and slots of the queue are used, and a free mutex is taken.
WaitersServed == LevelServed /\ ElementsMove /\ RoomIsUsed /\ FreeIsTaken

\* Destroying a semaphore or a queue lets every caller out of its call.
DestroyFrees == DestroyReleases /\ QueueReleases
=============================================================================
