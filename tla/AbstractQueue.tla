--------------------------- MODULE AbstractQueue ---------------------------
(***************************************************************************)
(* What the kernel queue of src/Kernel/Sources/core/kernel_queue.c         *)
(* promises its users: a set of sequences of nodes.  The first element of  *)
(* a sequence is the head of the queue, where kernel_queue_push inserts;   *)
(* the last one is the tail, from which kernel_queue_pop takes.  So push   *)
(* and pop make a FIFO, and push_prio and pop deliver the smallest         *)
(* priority value first, in FIFO order among equals.                       *)
(***************************************************************************)
EXTENDS Naturals, Sequences, SequencesExt

CONSTANTS Nodes,    \* addresses a node can have
          Queues,   \* addresses a queue can have
          Data,     \* what a node can carry
          Prios,    \* priority values
          NULL

VARIABLES contents,  \* live queue -> its sequence of nodes, head first
          carried,   \* live node -> the data it carries
          key,       \* live node -> the priority of its last push_prio
          ret        \* value returned by the last call

vars == <<contents, carried, key, ret>>

Enqueued == UNION {ToSet(contents[q]) : q \in DOMAIN contents}

Init ==
    /\ contents = [q \in {} |-> <<>>]
    /\ carried = [n \in {} |-> NULL]
    /\ key = [n \in {} |-> 0]
    /\ ret = NULL

\* f with x mapped to v, and f without x
With(f, x, v) == [y \in DOMAIN f \cup {x} |-> IF y = x THEN v ELSE f[y]]
Without(f, x) == [y \in DOMAIN f \ {x} |-> f[y]]

CreateNode(n, d) ==
    /\ ret' = n
    /\ n \notin DOMAIN carried
    /\ carried' = With(carried, n, d)
    /\ key' = With(key, n, 0)
    /\ UNCHANGED contents

DeleteNode(n) ==
    /\ n \in DOMAIN carried
    /\ IF n \in Enqueued
       THEN /\ ret' = "UNAUTHORIZED"
            /\ UNCHANGED <<carried, key>>
       ELSE /\ carried' = Without(carried, n)
            /\ key' = Without(key, n)
            /\ ret' = "NO_ERR"
    /\ UNCHANGED contents

CreateQueue(q) ==
    /\ ret' = q
    /\ q \notin DOMAIN contents
    /\ contents' = With(contents, q, <<>>)
    /\ UNCHANGED <<carried, key>>

DeleteQueue(q) ==
    /\ q \in DOMAIN contents
    /\ IF contents[q] # <<>>
       THEN ret' = "UNAUTHORIZED" /\ UNCHANGED contents
       ELSE ret' = "NO_ERR" /\ contents' = Without(contents, q)
    /\ UNCHANGED <<carried, key>>

\* creation fails when the heap is exhausted
OutOfMemory == ret' = NULL /\ UNCHANGED <<contents, carried, key>>

Push(n, q) ==
    /\ ret' = "NO_ERR"
    /\ UNCHANGED <<carried, key>>
    /\ n \in DOMAIN carried \ Enqueued
    /\ q \in DOMAIN contents
    /\ contents' = [contents EXCEPT ![q] = <<n>> \o @]

\* n goes just in front of the first node whose priority is not larger
PushPrio(n, q, p) ==
    /\ ret' = "NO_ERR"
    /\ UNCHANGED carried
    /\ n \in DOMAIN carried \ Enqueued
    /\ q \in DOMAIN contents
    /\ LET first == SelectInSeq(contents[q], LAMBDA m : key[m] <= p)
           at == IF first = 0 THEN Len(contents[q]) + 1 ELSE first
       IN contents' = [contents EXCEPT ![q] = InsertAt(@, at, n)]
    /\ key' = [key EXCEPT ![n] = p]

Pop(q) ==
    /\ UNCHANGED <<carried, key>>
    /\ q \in DOMAIN contents
    /\ IF contents[q] = <<>>
       THEN ret' = NULL /\ UNCHANGED contents
       ELSE /\ ret' = Last(contents[q])
            /\ contents' = [contents EXCEPT ![q] = Front(@)]

\* the node nearest the head that carries d
Find(q, d) ==
    /\ q \in DOMAIN contents
    /\ LET hits == SelectSeq(contents[q], LAMBDA m : carried[m] = d)
       IN ret' = IF hits = <<>> THEN NULL ELSE Head(hits)
    /\ UNCHANGED <<contents, carried, key>>

Unlink(q, n) ==
    /\ UNCHANGED <<carried, key>>
    /\ q \in DOMAIN contents
    /\ n \in DOMAIN carried
    /\ IF n \in ToSet(contents[q])
       THEN /\ contents' = [contents EXCEPT ![q] = SelectSeq(@, LAMBDA m : m # n)]
            /\ ret' = "NO_ERR"
       ELSE /\ ret' = "NO_SUCH_ID"
            /\ UNCHANGED contents

Next ==
    \/ \E n \in Nodes, d \in Data : CreateNode(n, d)
    \/ \E n \in Nodes : DeleteNode(n)
    \/ \E q \in Queues : CreateQueue(q) \/ DeleteQueue(q) \/ Pop(q)
    \/ OutOfMemory
    \/ \E n \in Nodes, q \in Queues : Push(n, q) \/ Unlink(q, n)
    \/ \E n \in Nodes, q \in Queues, p \in Prios : PushPrio(n, q, p)
    \/ \E q \in Queues, d \in Data : Find(q, d)

Spec == Init /\ [][Next]_vars
=============================================================================
