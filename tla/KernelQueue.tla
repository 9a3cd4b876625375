---------------------------- MODULE KernelQueue ----------------------------
(***************************************************************************)
(* The kernel queues of src/Kernel/Sources/core/kernel_queue.c, at the     *)
(* level of the pointers: nodes linked both ways, and queues that point to *)
(* the two ends.  Every thread table of the scheduler and every waiting    *)
(* list of a semaphore or a mutex is one of these queues.                  *)
(*                                                                         *)
(* A call runs inside ENTER_CRITICAL(queue->lock) .. EXIT_CRITICAL, so it  *)
(* is one action here (module CriticalSection is about that lock).  The    *)
(* callers' part of the contract is in the guards: pointers are valid, and *)
(* a node is pushed only while it is in no queue (kernel_queue.h:96, "A    *)
(* node should be only used in one queue at most").                        *)
(***************************************************************************)
EXTENDS Naturals, FiniteSets, Sequences, SequencesExt

CONSTANTS Nodes,      \* addresses a node can have
          Queues,     \* addresses a queue can have
          PrioQueues, \* the ones used with push_prio only (sleeping tables)
          Data,       \* what a node can carry
          Prios,      \* priority values
          MaxSize,    \* bound of the model on the size field (uint32_t)
          NULL

ASSUME KernelQueueAssumption ==
    /\ PrioQueues \subseteq Queues
    /\ Prios \subseteq Nat
    /\ MaxSize \in Nat
    /\ NULL \notin Nodes \cup Queues
    /\ IsFiniteSet(Nodes)

VARIABLES queues,               \* allocated queues
          head, tail, size,     \* fields of a queue
          nodes,                \* allocated nodes
          next, prev, enlisted, priority, data,    \* fields of a node
          ret                   \* value returned by the last call

queueVars == <<queues, head, tail, size>>
linkVars == <<head, tail, next, prev>>
nodeVars == <<nodes, next, prev, enlisted, priority, data>>
vars == <<queues, head, tail, size, nodes, next, prev, enlisted, priority,
          data, ret>>

\* The nodes met on the way from node n along the links l, n first.  The walk
\* is cut after Cardinality(Nodes) + 1 nodes, so that it also ends on a cycle.
Walk(n, l) ==
    LET upTo[k \in 0 .. Cardinality(Nodes)] ==
            IF k = 0 THEN IF n = NULL THEN <<>> ELSE <<n>>
            ELSE LET w == upTo[k - 1]
                 IN IF w = <<>> \/ l[Last(w)] = NULL THEN w
                    ELSE Append(w, l[Last(w)])
    IN upTo[Cardinality(Nodes)]

\* The queue from head to tail
List(q) == Walk(head[q], next)

Init ==
    /\ queues = {}
    /\ head = [q \in Queues |-> NULL]
    /\ tail = [q \in Queues |-> NULL]
    /\ size = [q \in Queues |-> 0]
    /\ nodes = {}
    /\ next = [n \in Nodes |-> NULL]
    /\ prev = [n \in Nodes |-> NULL]
    /\ enlisted = [n \in Nodes |-> 0]
    /\ priority = [n \in Nodes |-> 0]
    /\ data = [n \in Nodes |-> NULL]
    /\ ret = NULL

-----------------------------------------------------------------------------
\* kmalloc gives an address that is free, or fails.  The fields of freed memory
\* mean nothing; the model keeps them at their initial values.

kernel_queue_create_node(n, d) ==
    /\ n \notin nodes
    /\ nodes' = nodes \cup {n}
    /\ next' = [next EXCEPT ![n] = NULL]
    /\ prev' = [prev EXCEPT ![n] = NULL]
    /\ enlisted' = [enlisted EXCEPT ![n] = 0]
    /\ priority' = [priority EXCEPT ![n] = 0]
    /\ data' = [data EXCEPT ![n] = d]
    /\ ret' = n
    /\ UNCHANGED queueVars

kernel_queue_create_queue(q) ==
    /\ q \notin queues
    /\ queues' = queues \cup {q}
    /\ head' = [head EXCEPT ![q] = NULL]
    /\ tail' = [tail EXCEPT ![q] = NULL]
    /\ size' = [size EXCEPT ![q] = 0]
    /\ ret' = q
    /\ UNCHANGED nodeVars

kmalloc_fails ==
    /\ ret' = NULL
    /\ UNCHANGED <<queueVars, nodeVars>>

kernel_queue_delete_node(n) ==
    /\ n \in nodes
    /\ IF enlisted[n] # 0
       THEN /\ ret' = "UNAUTHORIZED"
            /\ UNCHANGED <<nodes, priority, data>>
       ELSE /\ ret' = "NO_ERR"
            /\ nodes' = nodes \ {n}
            /\ priority' = [priority EXCEPT ![n] = 0]
            /\ data' = [data EXCEPT ![n] = NULL]
    /\ UNCHANGED <<queueVars, next, prev, enlisted>>

kernel_queue_delete_queue(q) ==
    /\ q \in queues
    /\ IF head[q] # NULL \/ tail[q] # NULL
       THEN ret' = "UNAUTHORIZED" /\ UNCHANGED <<queues, size>>
       ELSE /\ ret' = "NO_ERR"
            /\ queues' = queues \ {q}
            /\ size' = [size EXCEPT ![q] = 0]
    /\ UNCHANGED <<head, tail, nodeVars>>

-----------------------------------------------------------------------------
\* The last lines of both push functions: bookkeeping and the sanity check
Enlist(n, q) ==
    /\ size' = [size EXCEPT ![q] = @ + 1]
    /\ enlisted' = [enlisted EXCEPT ![n] = 1]
    /\ ret' = IF next'[n] # NULL /\ prev'[n] # NULL /\ next'[n] = prev'[n]
              THEN "PANIC" ELSE "NO_ERR"

\* Mutant: queue->head->prev is not set
LinkNextOnly(n, q) ==
    /\ tail' = IF head[q] = NULL THEN [tail EXCEPT ![q] = n] ELSE tail
    /\ head' = [head EXCEPT ![q] = n]
    /\ next' = [next EXCEPT ![n] = head[q]]
    /\ prev' = [prev EXCEPT ![n] = NULL]

\* The links push makes: n becomes the head
LinkAtHead(n, q) ==
    /\ IF head[q] = NULL
       THEN /\ tail' = [tail EXCEPT ![q] = n]
            /\ next' = [next EXCEPT ![n] = NULL]
            /\ prev' = [prev EXCEPT ![n] = NULL]
       ELSE /\ next' = [next EXCEPT ![n] = head[q]]
            /\ prev' = [prev EXCEPT ![n] = NULL, ![head[q]] = n]
            /\ UNCHANGED tail
    /\ head' = [head EXCEPT ![q] = n]

kernel_queue_push(n, q) ==
    /\ n \in nodes /\ enlisted[n] = 0
    /\ q \in queues \ PrioQueues /\ size[q] < MaxSize
    /\ LinkAtHead(n, q)
    /\ Enlist(n, q)
    /\ UNCHANGED <<queues, nodes, priority, data>>

\* Mutant: the loop's comparison made non-strict
CursorNonStrict(q, p) ==
    LET i == SelectInSeq(List(q), LAMBDA m : priority[m] < p)
    IN IF i = 0 THEN NULL ELSE List(q)[i]

\* where the loop of push_prio stops: the first node whose priority is not
\* larger than p, or NULL
Cursor(q, p) ==
    LET i == SelectInSeq(List(q), LAMBDA m : priority[m] <= p)
    IN IF i = 0 THEN NULL ELSE List(q)[i]

kernel_queue_push_prio(n, q, p) ==
    /\ n \in nodes /\ enlisted[n] = 0
    /\ q \in PrioQueues \cap queues /\ size[q] < MaxSize
    /\ priority' = [priority EXCEPT ![n] = p]
    /\ LET c == Cursor(q, p)
       IN \/ /\ head[q] = NULL
             /\ head' = [head EXCEPT ![q] = n]
             /\ tail' = [tail EXCEPT ![q] = n]
             /\ next' = [next EXCEPT ![n] = NULL]
             /\ prev' = [prev EXCEPT ![n] = NULL]
          \/ /\ head[q] # NULL /\ c # NULL
             /\ prev' = [prev EXCEPT ![n] = prev[c], ![c] = n]
             /\ IF prev[c] # NULL
                THEN /\ next' = [next EXCEPT ![n] = c, ![prev[c]] = n]
                     /\ UNCHANGED head
                ELSE /\ next' = [next EXCEPT ![n] = c]
                     /\ head' = [head EXCEPT ![q] = n]
             /\ UNCHANGED tail
          \/ /\ head[q] # NULL /\ c = NULL
             /\ prev' = [prev EXCEPT ![n] = tail[q]]
             /\ next' = [next EXCEPT ![n] = NULL, ![tail[q]] = n]
             /\ tail' = [tail EXCEPT ![q] = n]
             /\ UNCHANGED head
    /\ Enlist(n, q)
    /\ UNCHANGED <<queues, nodes, data>>

kernel_queue_pop(q) ==
    /\ q \in queues
    /\ IF head[q] = NULL
       THEN /\ ret' = NULL
            /\ UNCHANGED <<linkVars, size, enlisted>>
       ELSE LET n == tail[q]
            IN /\ IF prev[n] # NULL
                  THEN /\ next' = [next EXCEPT ![prev[n]] = NULL, ![n] = NULL]
                       /\ tail' = [tail EXCEPT ![q] = prev[n]]
                       /\ UNCHANGED head
                  ELSE /\ next' = [next EXCEPT ![n] = NULL]
                       /\ head' = [head EXCEPT ![q] = NULL]
                       /\ tail' = [tail EXCEPT ![q] = NULL]
               /\ prev' = [prev EXCEPT ![n] = NULL]
               /\ size' = [size EXCEPT ![q] = @ - 1]
               /\ enlisted' = [enlisted EXCEPT ![n] = 0]
               /\ ret' = n
    /\ UNCHANGED <<queues, nodes, priority, data>>

kernel_queue_find(q, d) ==
    /\ q \in queues
    /\ LET i == SelectInSeq(List(q), LAMBDA m : data[m] = d)
       IN ret' = IF i = 0 THEN NULL ELSE List(q)[i]
    /\ UNCHANGED <<queueVars, nodeVars>>

\* The queue's size is left as it was
kernel_queue_remove(q, n) ==
    /\ q \in queues
    /\ n \in nodes
    /\ IF n \notin ToSet(List(q))
       THEN /\ ret' = "NO_SUCH_ID"
            /\ UNCHANGED <<linkVars, enlisted>>
       ELSE LET p == prev[n]
                s == next[n]
            IN /\ head' = IF p = NULL THEN [head EXCEPT ![q] = s] ELSE head
               /\ tail' = IF s = NULL THEN [tail EXCEPT ![q] = p] ELSE tail
               /\ next' = [m \in Nodes |-> CASE m = n -> NULL
                                             [] m = p -> s
                                             [] OTHER -> next[m]]
               /\ prev' = [m \in Nodes |-> CASE m = n -> NULL
                                             [] m = s -> p
                                             [] OTHER -> prev[m]]
               /\ enlisted' = [enlisted EXCEPT ![n] = 0]
               /\ ret' = "NO_ERR"
    /\ UNCHANGED <<queues, size, nodes, priority, data>>

Next ==
    \/ \E n \in Nodes, d \in Data : kernel_queue_create_node(n, d)
    \/ \E n \in Nodes : kernel_queue_delete_node(n)
    \/ \E q \in Queues : kernel_queue_create_queue(q)
    \/ \E q \in Queues : kernel_queue_delete_queue(q)
    \/ kmalloc_fails
    \/ \E n \in Nodes, q \in Queues : kernel_queue_push(n, q)
    \/ \E n \in Nodes, q \in Queues, p \in Prios :
            kernel_queue_push_prio(n, q, p)
    \/ \E q \in Queues : kernel_queue_pop(q)
    \/ \E q \in Queues, d \in Data : kernel_queue_find(q, d)
    \/ \E n \in Nodes, q \in Queues : kernel_queue_remove(q, n)

Spec == Init /\ [][Next]_vars
-----------------------------------------------------------------------------
Ret == Nodes \cup Queues \cup {NULL}
       \cup {"NO_ERR", "UNAUTHORIZED", "NO_SUCH_ID", "PANIC"}

\* Types of the fields of struct kernel_queue and struct kernel_queue_node.
TypeOK ==
    /\ queues \subseteq Queues
    /\ head \in [Queues -> Nodes \cup {NULL}]
    /\ tail \in [Queues -> Nodes \cup {NULL}]
    /\ size \in [Queues -> 0 .. MaxSize]
    /\ nodes \subseteq Nodes
    /\ next \in [Nodes -> Nodes \cup {NULL}]
    /\ prev \in [Nodes -> Nodes \cup {NULL}]
    /\ enlisted \in [Nodes -> {0, 1}]
    /\ priority \in [Nodes -> Prios \cup {0}]
    /\ data \in [Nodes -> Data \cup {NULL}]
    /\ ret \in Ret

\* The links of every queue are intact: following prev from the tail visits
\* the nodes of the queue in the opposite order of following next from the
\* head, without a cycle.
WellLinked ==
    \A q \in queues :
        /\ Walk(tail[q], prev) = Reverse(List(q))
        /\ IsInjective(List(q))

\* The enlisted field tells the truth: a node has it set exactly when it is in
\* a queue, then in one queue only, and an allocated node outside the queues
\* has no link left over (kernel_queue_delete_node relies on it to free nodes).
EnlistedIsMembership ==
    \A n \in Nodes :
        LET home == {q \in queues : n \in ToSet(List(q))}
        IN /\ enlisted[n] = Cardinality(home)
           /\ home # {} => n \in nodes
           /\ home = {} /\ n \in nodes => next[n] = NULL /\ prev[n] = NULL

\* A queue filled with push_prio only, as the sleeping tables are, is sorted:
\* priorities never increase on the way from the tail, where pop takes, hence
\* pop returns the earliest wake-up time.
PrioQueuesSorted ==
    \A q \in PrioQueues \cap queues :
        \A i, j \in DOMAIN List(q) :
            i < j => priority[List(q)[i]] >= priority[List(q)[j]]

\* Queues keep their shape under every sequence of calls, at the ends, in the
\* middle and between equal priorities (kernel_queue.c 140-534).
WellFormed == TypeOK /\ WellLinked /\ PrioQueuesSorted

Abs == INSTANCE AbstractQueue
           WITH contents <- [q \in queues |-> List(q)],
                carried <- [n \in nodes |-> data[n]],
                key <- [n \in nodes |-> priority[n]]

\* The pointer structure implements the sequences of module AbstractQueue:
\* each call has the effect and the returned value promised there.
ImplementsAbstractQueue == Abs!Spec
=============================================================================
