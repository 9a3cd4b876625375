--------------------------- MODULE FaultHandlers ---------------------------
(***************************************************************************)
(* The registry of page fault handlers (Sources/memory/paging.c) and the    *)
(* exception handler that searches it (Sources/arch/cpu/i386/paging.c).     *)
(* A range [start, end) stands for its node and its handler.                *)
(*   handler_list   the nodes in list order                                 *)
(*   outcome        what the last call answered                             *)
(***************************************************************************)
EXTENDS Integers, Sequences

CONSTANT Addresses   \* the addresses that delimit ranges, and fault

AddressesAssumption == Addresses \subseteq Nat

VARIABLES handler_list, outcome

handlerVars == <<handler_list, outcome>>

Ranges == [start : Addresses, end : Addresses]

HandlersInit == handler_list = <<>> /\ outcome = "none"

\* The cursor of the search: the first range that starts after r, and the
\* range before it.
HandlerCursor(r) ==
    CHOOSE k \in 1..(Len(handler_list) + 1) :
        /\ \A j \in 1..(k - 1) : handler_list[j].start <= r.start
        /\ k <= Len(handler_list) => handler_list[k].start > r.start

\* Mutant: the comparison with the range before the new one is inclusive
CollidesTouching(r) ==
    LET k == HandlerCursor(r)
    IN  \/ k > 1 /\ handler_list[k - 1].end >= r.start
        \/ k <= Len(handler_list) /\ handler_list[k].start < r.end

\* The tests of the branches: the first node has no predecessor to compare
\* with, the last position no successor.
Collides(r) ==
    LET k == HandlerCursor(r)
    IN  \/ k > 1 /\ handler_list[k - 1].end > r.start
        \/ k <= Len(handler_list) /\ handler_list[k].start < r.end

\* The list s once r is linked before its position k.
Linked(s, k, r) == (SubSeq(s, 1, k - 1) \o <<r>>) \o SubSeq(s, k, Len(s))

\* mem says whether kmalloc found room for the node.
paging_register_fault_handler(r, mem) ==
    \/ /\ r.end <= r.start
       /\ outcome' = "unauthorized"
       /\ UNCHANGED handler_list
    \/ /\ r.end > r.start
       /\ ~mem
       /\ outcome' = "malloc"
       /\ UNCHANGED handler_list
    \/ /\ r.end > r.start
       /\ mem
       /\ Collides(r)
       /\ outcome' = "exists"
       /\ UNCHANGED handler_list
    \/ /\ r.end > r.start
       /\ mem
       /\ ~Collides(r)
       /\ outcome' = "registered"
       /\ handler_list' = Linked(handler_list, HandlerCursor(r), r)

\* The handler called for a fault is that of the first range with the address.
paging_fault_general_handler(a) ==
    LET hits == {k \in DOMAIN handler_list :
                    handler_list[k].start <= a /\ handler_list[k].end > a}
    IN  /\ outcome' = IF hits = {} THEN "panic" ELSE "handled"
        /\ UNCHANGED handler_list

HandlersNext ==
    /\ outcome # "panic"
    /\ \/ \E r \in Ranges, mem \in BOOLEAN : paging_register_fault_handler(r, mem)
       \/ \E a \in Addresses : paging_fault_general_handler(a)

HandlersSpec == HandlersInit /\ [][HandlersNext]_handlerVars

----------------------------------------------------------------------------
\* The registered ranges are disjoint, whatever order they came in: a fault
\* has at most one handler (memory/paging.c:100-173).
OneHandlerPerFault ==
    \A i, j \in DOMAIN handler_list :
        i # j => \/ handler_list[i].end <= handler_list[j].start
                 \/ handler_list[j].end <= handler_list[i].start

\* Comparing a range with its two neighbours in the list is the same as
\* comparing it with every registered range: overlaps are refused, and nothing
\* else is (memory/paging.c:112-167).
NeighboursDecide ==
    \A r \in Ranges :
        r.end > r.start =>
            (Collides(r) <=> \E k \in DOMAIN handler_list :
                                /\ handler_list[k].start < r.end
                                /\ r.start < handler_list[k].end)

\* Ranges are accepted exactly when they overlap no other, so that a fault has
\* at most one handler.
HandlersDecided == OneHandlerPerFault /\ NeighboursDecide
=============================================================================
