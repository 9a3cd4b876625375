------------------------------- MODULE KHeap -------------------------------
(***************************************************************************)
(* The kernel heap (Sources/memory/kheap.c): kheap_init, kmalloc, kfree.   *)
(* Addresses and sizes are counted in words of ALIGN = 4 bytes, so that    *)
(* every address is aligned by construction of the unit and the 32-bit     *)
(* counters of the source wrap at 2^30.  Each operation runs inside the    *)
(* heap's critical section and is one step.                                *)
(*   all         the circular list through `all', from first_chunk          *)
(*   free_chunk  for each slot the list through `free', from its head       *)
(*   live        the blocks handed to callers and the size each asked for   *)
(*   whole       how many blocks were handed out without a split (history)  *)
(***************************************************************************)
EXTENDS Integers, Sequences, FiniteSets, SequencesExt, FiniteSetsExt

CONSTANTS HEADER_SIZE,  \* words before the data of a chunk
          MIN_SIZE,     \* smallest data area: the list node of a free chunk
          NUM_SIZES,    \* number of free lists
          HeapSize,     \* _kernel_heap_end - _kernel_heap_start
          Requests,     \* sizes that callers ask for
          MaxWhole,     \* bound on `whole'
          NULL

VARIABLES init, all, free_chunk, mem_free, kheap_mem_used, mem_meta,
          live, ret, whole

heapVars == <<init, all, free_chunk, mem_free, kheap_mem_used, mem_meta,
              live, ret, whole>>

Wrap == 2^30
CHUNK_SIZE == HEADER_SIZE + MIN_SIZE
Slots == 0..(NUM_SIZES - 1)

\* memory_chunk_slot: how often the size can be halved before it is zero.
memory_chunk_slot(size) ==
    IF size = 0 THEN -1
    ELSE CHOOSE n \in Slots : 2^n <= size /\ size < 2^(n + 1)

\* memory_chunk_size of the i-th chunk of list l, up to the next header.
SizeIn(l, i) == l[i + 1].addr - l[i].addr - HEADER_SIZE

IndexOf(l, a) == CHOOSE i \in DOMAIN l : l[i].addr = a

memory_chunk_size(a) == SizeIn(all, IndexOf(all, a))

\* LIST_PUSH, LIST_POP and LIST_REMOVE_FROM on one free list.
Push(lists, n, a) == [lists EXCEPT ![n] = <<a>> \o @]
Unlink(lists, n, a) == [lists EXCEPT ![n] = SelectSeq(@, LAMBDA b : b # a)]

HeapInit ==
    /\ init = FALSE
    /\ all = <<>>
    /\ free_chunk = [n \in Slots |-> <<>>]
    /\ mem_free = 0 /\ kheap_mem_used = 0 /\ mem_meta = 0
    /\ live = <<>>
    /\ ret = NULL
    /\ whole = 0

kheap_init ==
    /\ ~init
    /\ init' = TRUE
    /\ all' = << [addr |-> 0, used |-> TRUE],
                 [addr |-> CHUNK_SIZE, used |-> FALSE],
                 [addr |-> HeapSize - CHUNK_SIZE, used |-> TRUE] >>
    /\ LET len == SizeIn(all', 2)
       IN  /\ free_chunk' = Push(free_chunk, memory_chunk_slot(len), CHUNK_SIZE)
           /\ mem_free' = len - HEADER_SIZE
    /\ kheap_mem_used' = 0
    /\ mem_meta' = 2 * CHUNK_SIZE + HEADER_SIZE
    /\ UNCHANGED <<live, ret, whole>>

\* The rounded request and the slots that the search goes through.
Rounded(size) == IF size < MIN_SIZE THEN MIN_SIZE ELSE size

SearchFrom(size) == memory_chunk_slot(Rounded(size) - 1) + 1

\* Mutant: kmalloc looks only at the lists of the first suitable slot.
CandidatesOneSlot(size) ==
    {n \in Slots : n = SearchFrom(size) /\ free_chunk[n] # <<>>}

Candidates(size) ==
    {n \in Slots : n >= SearchFrom(size) /\ free_chunk[n] # <<>>}

\* kmalloc before kheap_init, or when no list from the slot on has a chunk.
kmalloc_fails(size) ==
    /\ ~init \/ Candidates(size) = {}
    /\ ret' = NULL
    /\ UNCHANGED <<init, all, free_chunk, mem_free, kheap_mem_used, mem_meta,
                   live, whole>>

kmalloc(size) ==
    /\ init
    /\ Candidates(size) # {}
    /\ LET n     == Min(Candidates(size))
           chunk == Head(free_chunk[n])
           size2 == memory_chunk_size(chunk)
           want  == Rounded(size)
           i     == IndexOf(all, chunk)
           split == want + CHUNK_SIZE <= size2
           chunk2 == chunk + HEADER_SIZE + want
           len   == IF split THEN size2 - want - HEADER_SIZE ELSE 0
           mine  == [all EXCEPT ![i].used = TRUE]
           popped == [free_chunk EXCEPT ![n] = Tail(@)]
       IN  /\ all' = IF split
                     THEN InsertAt(mine, i + 1, [addr |-> chunk2, used |-> FALSE])
                     ELSE mine
           /\ free_chunk' = IF split
                            THEN Push(popped, memory_chunk_slot(len), chunk2)
                            ELSE popped
           /\ mem_meta' = IF split THEN mem_meta + HEADER_SIZE ELSE mem_meta
           /\ mem_free' = (mem_free - size2
                           + (IF split THEN len - HEADER_SIZE ELSE 0)) % Wrap
           /\ kheap_mem_used' = (kheap_mem_used + size2 - len - HEADER_SIZE) % Wrap
           /\ live' = [a \in DOMAIN live \union {chunk} |->
                          IF a = chunk THEN size ELSE live[a]]
           /\ ret' = chunk
           /\ whole' = IF split THEN whole ELSE whole + 1
           /\ whole' <= MaxWhole
    /\ UNCHANGED init

\* Mutant: kfree without any merging.
FreeWithoutMerge(chunk) ==
    /\ init
    /\ chunk \in DOMAIN live
    /\ LET len == memory_chunk_size(chunk)
       IN  /\ all' = [all EXCEPT ![IndexOf(all, chunk)].used = FALSE]
           /\ free_chunk' = Push(free_chunk, memory_chunk_slot(len), chunk)
           /\ mem_free' = (mem_free + len - HEADER_SIZE) % Wrap
           /\ kheap_mem_used' = (kheap_mem_used - len) % Wrap
    /\ live' = [a \in DOMAIN live \ {chunk} |-> live[a]]
    /\ UNCHANGED <<init, mem_meta, ret, whole>>

\* kfree of a block that a caller holds: the freed chunk absorbs a free
\* successor, and is absorbed by a free predecessor.
kfree(chunk) ==
    /\ init
    /\ chunk \in DOMAIN live
    /\ LET i     == IndexOf(all, chunk)
           next  == all[i + 1]
           prev  == all[i - 1]
           used  == memory_chunk_size(chunk)
           \* remove_free(next); remove(&next->all)
           joinN == ~next.used
           all1  == IF joinN THEN RemoveAt(all, i + 1) ELSE all
           free1 == IF joinN
                    THEN Unlink(free_chunk,
                                memory_chunk_slot(memory_chunk_size(next.addr)),
                                next.addr)
                    ELSE free_chunk
           mem1  == IF joinN
                    THEN mem_free - (memory_chunk_size(next.addr) - HEADER_SIZE)
                                  + HEADER_SIZE
                    ELSE mem_free
           \* remove_free(prev); remove(&chunk->all); push_free(prev)
           joinP == ~prev.used
           all2  == IF joinP THEN RemoveAt(all1, i)
                             ELSE [all1 EXCEPT ![i].used = FALSE]
           free2 == IF joinP
                    THEN Unlink(free1,
                                memory_chunk_slot(memory_chunk_size(prev.addr)),
                                prev.addr)
                    ELSE free1
           mem2  == IF joinP
                    THEN mem1 - (memory_chunk_size(prev.addr) - HEADER_SIZE)
                              + HEADER_SIZE
                    ELSE mem1
           back  == IF joinP THEN prev.addr ELSE chunk
           len   == SizeIn(all2, IndexOf(all2, back))
       IN  /\ all' = all2
           /\ free_chunk' = Push(free2, memory_chunk_slot(len), back)
           /\ mem_free' = (mem2 + len - HEADER_SIZE) % Wrap
           /\ mem_meta' = mem_meta - (IF joinN THEN HEADER_SIZE ELSE 0)
                                   - (IF joinP THEN HEADER_SIZE ELSE 0)
           /\ kheap_mem_used' = (kheap_mem_used - used) % Wrap
    /\ live' = [a \in DOMAIN live \ {chunk} |-> live[a]]
    /\ UNCHANGED <<init, ret, whole>>

HeapNext ==
    \/ kheap_init
    \/ \E size \in Requests : kmalloc(size) \/ kmalloc_fails(size)
    \/ \E chunk \in DOMAIN live : kfree(chunk)

HeapSpec == HeapInit /\ [][HeapNext]_heapVars

----------------------------------------------------------------------------
\* The chunks between the two sentinels kept by first_chunk and last_chunk.
Middle == {i \in DOMAIN all : i # 1 /\ i # Len(all)}
FreeAddrs == {all[i].addr : i \in {j \in Middle : ~all[j].used}}
UsedAddrs == {all[i].addr : i \in {j \in Middle : all[j].used}}
Total(addrs) == MapThenSumSet(memory_chunk_size, addrs)

\* Type invariant.
HeapTypeOK ==
    /\ init \in BOOLEAN
    /\ all \in Seq([addr : 0..HeapSize, used : BOOLEAN])
    /\ free_chunk \in [Slots -> Seq(0..HeapSize)]
    /\ mem_free \in 0..(Wrap - 1) /\ kheap_mem_used \in 0..(Wrap - 1)
    /\ mem_meta \in 0..HeapSize
    /\ DOMAIN live \subseteq 0..HeapSize
    /\ \A a \in DOMAIN live : live[a] \in Requests
    /\ ret \in {NULL} \union 0..HeapSize
    /\ whole \in 0..MaxWhole

\* The chunks tile the heap in address order, each has room for a list node,
\* and the used ones are exactly the blocks that callers hold, each at least
\* as large as the caller asked for: no two callers share a word, and no
\* header lies in a caller's block (kheap.c:402-441, 463-493).
BlocksIntact ==
    init => /\ all[1].addr = 0 /\ all[Len(all)].addr = HeapSize - CHUNK_SIZE
            /\ \A i \in Middle : SizeIn(all, i) >= MIN_SIZE
            /\ UsedAddrs = DOMAIN live
            /\ \A a \in DOMAIN live : memory_chunk_size(a) >= live[a]

\* No two neighbouring chunks are free: kfree merges with both neighbours, so
\* that giving everything back leaves one chunk again (kheap.c:470-493).
Coalesced ==
    \A i \in Middle : (i + 1) \in Middle => all[i].used \/ all[i + 1].used

\* The free list of a slot holds exactly the free chunks whose size belongs to
\* that slot, each once: remove_free recomputes the slot from the size and so
\* finds the chunk where push_free left it (kheap.c:268-291).
FreeListsExact ==
    \A n \in Slots :
        /\ ToSet(free_chunk[n]) =
               {a \in FreeAddrs : memory_chunk_slot(memory_chunk_size(a)) = n}
        /\ Len(free_chunk[n]) = Cardinality(ToSet(free_chunk[n]))

\* What the three counters say about the chunks.  mem_meta is exact.  A block
\* handed out without a split is added to kheap_mem_used without its
\* HEADER_SIZE and subtracted with it, and mem_free loses it as well: both
\* drift by HEADER_SIZE for every such block (kheap.c:425-426, 468).
CountersTrack ==
    init => /\ mem_meta = 2 * CHUNK_SIZE + HEADER_SIZE * (Len(all) - 2)
            /\ kheap_mem_used =
                   (Total(UsedAddrs) - HEADER_SIZE * whole) % Wrap
            /\ mem_free =
                   (Total(FreeAddrs) - HEADER_SIZE * Cardinality(FreeAddrs)
                    - HEADER_SIZE * (Len(all) - 3 + whole)) % Wrap

\* kmalloc answers NULL only when every free chunk is smaller than twice the
\* request: the slot search gives up no chunk of a larger class
\* (kheap.c:372-400).
FailsOnlyWhenScarce ==
    [][\A size \in Requests :
          init /\ kmalloc_fails(size) =>
              \A a \in FreeAddrs : memory_chunk_size(a) < 2 * Rounded(size)]_heapVars

\* The heap is sound after every sequence of kmalloc and kfree: its blocks are
\* disjoint and large enough, free neighbours are joined, and the free lists
\* and counters agree with the chunks.
HeapSound == BlocksIntact /\ Coalesced /\ FreeListsExact /\ CountersTrack
=============================================================================
