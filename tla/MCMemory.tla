----------------------------- MODULE MCMemory ------------------------------
(***************************************************************************)
(* The memory management side by side: the pools with direct callers, the   *)
(* pools under paging, the heap, and the fault handlers.  A behaviour picks *)
(* one of the four when it starts (`part'); the others stay as they are.    *)
(***************************************************************************)
EXTENDS Paging, FaultHandlers

CONSTANTS HEADER_SIZE, MIN_SIZE, NUM_SIZES, HeapSize, Requests, MaxWhole

VARIABLES part,
          init, all, free_chunk, mem_free, kheap_mem_used, mem_meta,
          live, ret, whole

Heap == INSTANCE KHeap

ASSUME HandlersConstants == AddressesAssumption

heapVars == <<init, all, free_chunk, mem_free, kheap_mem_used, mem_meta,
              live, ret, whole>>
allVars == <<part, pagingVars, heapVars, handlerVars>>

Parts == {"pools", "paging", "heap", "handlers"}

\* Memory maps in pages: one bank as QEMU reports it, two banks with a device
\* between them, and two banks each followed by a device.
MCMaps ==
    { << [base |-> 0, limit |-> 1, free |-> TRUE],
         [base |-> 1, limit |-> 7, free |-> TRUE],
         [base |-> 7, limit |-> 8, free |-> FALSE] >>,
      << [base |-> 1, limit |-> 4, free |-> TRUE],
         [base |-> 4, limit |-> 5, free |-> FALSE],
         [base |-> 5, limit |-> 8, free |-> TRUE] >>,
      << [base |-> 1, limit |-> 4, free |-> TRUE],
         [base |-> 4, limit |-> 5, free |-> FALSE],
         [base |-> 5, limit |-> 7, free |-> TRUE],
         [base |-> 7, limit |-> 8, free |-> FALSE] >> }

MCInit ==
    /\ part \in Parts
    /\ PagingInit
    /\ part \in {"heap", "handlers"} => memory_map_data = CHOOSE m \in Maps : TRUE
    /\ Heap!HeapInit
    /\ HandlersInit

PoolsStep ==
    /\ part = "pools" /\ PoolNext
    /\ UNCHANGED <<part, kernel_pgdir, pgtable, interrupts, torn,
                   heapVars, handlerVars>>

PagingStep ==
    /\ part = "paging" /\ PagingNext
    /\ UNCHANGED <<part, heapVars, handlerVars>>

HeapStep ==
    /\ part = "heap" /\ Heap!HeapNext
    /\ UNCHANGED <<part, pagingVars, handlerVars>>

HandlersStep ==
    /\ part = "handlers" /\ HandlersNext
    /\ UNCHANGED <<part, pagingVars, heapVars>>

MCNext == PoolsStep \/ PagingStep \/ HeapStep \/ HandlersStep

Booting ==
    /\ part \in {"pools", "paging"}
    /\ Boot
    /\ UNCHANGED <<part, heapVars, handlerVars>>

\* memalloc_init is called by the boot code, which runs to its end.
MCSpec == MCInit /\ [][MCNext]_allVars /\ WF_allVars(Booting)

\* The heap's blocks, free lists and counters are sound: see KHeap.
HeapSound == Heap!HeapTypeOK /\ Heap!HeapSound

\* kmalloc fails only for want of a chunk of twice the size: see KHeap.
FailsOnlyWhenScarce == Heap!FailsOnlyWhenScarce

\* The boot loop over the memory map ends, where it is started.
InitEnds == part \in {"pools", "paging"} => BootEnds
=============================================================================
