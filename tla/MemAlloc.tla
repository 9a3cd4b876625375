----------------------------- MODULE MemAlloc ------------------------------
(***************************************************************************)
(* The frame and page pools (Sources/memory/memalloc.c): memalloc_init and  *)
(* the allocation and release of kernel frames and pages.  Addresses count  *)
(* pages of KERNEL_PAGE_SIZE bytes.  Every operation runs inside the         *)
(* module's critical section and is one step.                               *)
(*                                                                          *)
(* A pool is the list of its free areas, [start, size, stale].  The links   *)
(* of the source's list are the order of the sequence and the prev pointer  *)
(* of each node; `stale' says that the prev pointer of a node designates a  *)
(* node that was given back to the heap.  The heap is external here: where  *)
(* the code calls kmalloc, the parameter mem says whether it succeeded.      *)
(*   phase   "boot", then "pages" while memalloc_init walks the memory map, *)
(*           then "up" or "failed"                                          *)
(*   fault   "none", or the undefined access the code has just made:        *)
(*           "null" (NULL dereferenced), "stale" (write through a stale     *)
(*           prev).  Nothing is modelled after a fault.                     *)
(***************************************************************************)
EXTENDS Integers, Sequences, FiniteSets, SequencesExt

CONSTANTS Maps,        \* memory maps: sequences of [base, limit, free]
          KernelStart, \* _kernel_start_phys
          KernelEnd,   \* _kernel_end - KERNEL_MEM_OFFSET
          PageFloor,   \* lowest page that memalloc_free_kpages accepts
          MaxAddress,  \* ARCH_MAX_ADDRESS
          BlockSizes,  \* block counts that callers ask for
          MaxHeld,     \* bound on the blocks of pages that callers hold
          NULL

VARIABLES memory_map_data, kernel_free_frames, kernel_free_pages,
          phase, scan, next_start, fault, frames, pages, lost

poolVars == <<memory_map_data, kernel_free_frames, kernel_free_pages, phase,
              scan, next_start, fault, frames, pages, lost>>

Area(s, n) == [start |-> s, size |-> n, stale |-> FALSE]
End(a) == a.start + a.size

\* The units that the areas of a list, or a set of blocks, cover.
Covers(list) == UNION {(a.start)..(End(a) - 1) : a \in ToSet(list)}
Block(s, n) == s..(s + n - 1)

\* What add_free answers: the list it leaves, an error or success, a fault.
Answer(list, err) == [list |-> list, err |-> err, fault |-> "none"]

\* Position of the first area that starts after start: the cursor.
Cursor(list, start) ==
    CHOOSE k \in 1..(Len(list) + 1) :
        /\ \A j \in 1..(k - 1) : list[j].start <= start
        /\ k <= Len(list) => list[k].start > start

\* add_free once the position k is known: the four ways to link the area.
\* Joining the areas on both sides frees the cursor's node, and leaves the
\* prev pointer of the node after it as it was.
Link(list, k, start, size, mem) ==
    LET joinL == k > 1 /\ End(list[k - 1]) = start
        joinR == k <= Len(list) /\ start + size = list[k].start
        fixed == IF k <= Len(list) THEN [list EXCEPT ![k].stale = FALSE] ELSE list
    IN  IF joinL /\ joinR
        THEN LET grown == [list EXCEPT ![k - 1].size = @ + size + list[k].size]
                 left  == IF k < Len(list)
                          THEN [grown EXCEPT ![k + 1].stale = TRUE] ELSE grown
             IN  Answer(RemoveAt(left, k), "none")
        ELSE IF joinL
        THEN Answer([list EXCEPT ![k - 1].size = @ + size], "none")
        ELSE IF joinR
        THEN Answer([list EXCEPT ![k].start = start, ![k].size = @ + size], "none")
        ELSE IF mem
        THEN Answer(InsertAt(fixed, k, Area(start, size)), "none")
        ELSE Answer(list, "malloc")

\* Mutant: an area that is already in the list is accepted silently
AddTolerant(list, start, size, mem) ==
    LET k == Cursor(list, start)
    IN  IF k > 1 /\ End(list[k - 1]) > start THEN Answer(list, "none")
        ELSE IF list = <<>> THEN Answer(<<Area(start, size)>>, "none")
        ELSE Link(list, k, start, size, mem)

\* add_free.  The boundary checks are skipped when the area goes first.
add_free(list, start, size, mem) ==
    LET k == Cursor(list, start)
        overlap == /\ k > 1
                   /\ \/ End(list[k - 1]) > start
                      \/ k <= Len(list) /\ start + size > list[k].start
    IN  IF list = <<>>
        THEN IF mem THEN Answer(<<Area(start, size)>>, "none")
                    ELSE [Answer(list, "malloc") EXCEPT !.fault = "null"]
        ELSE IF overlap THEN Answer(list, "unauthorized")
        ELSE Link(list, k, start, size, mem)

\* remove_free of the k-th node: its neighbours are linked to each other,
\* through its own prev pointer.
remove_free(list, k) ==
    IF list[k].stale
    THEN [Answer(list, "none") EXCEPT !.fault = "stale"]
    ELSE Answer(RemoveAt(IF k < Len(list)
                         THEN [list EXCEPT ![k + 1].stale = FALSE] ELSE list, k),
                "none")

\* get_block: the first area that is large enough, cut at its start.
Fitting(list, n) == {k \in DOMAIN list : list[k].size >= n}

get_block(list, n) ==
    LET k == CHOOSE j \in Fitting(list, n) : \A i \in Fitting(list, n) : j <= i
    IN  IF Fitting(list, n) = {} THEN Answer(list, "no_memory")
        ELSE IF list[k].size = n THEN remove_free(list, k)
        ELSE Answer([list EXCEPT ![k].start = @ + n, ![k].size = @ - n], "none")

BlockAddress(list, n) ==
    list[CHOOSE j \in Fitting(list, n) : \A i \in Fitting(list, n) : j <= i].start

----------------------------------------------------------------------------
PoolInit ==
    /\ memory_map_data \in Maps
    /\ kernel_free_frames = <<>> /\ kernel_free_pages = <<>>
    /\ phase = "boot" /\ scan = 0 /\ next_start = 0
    /\ fault = "none"
    /\ frames = {} /\ pages = {} /\ lost = {}

\* First loop of memalloc_init: the free ranges above the kernel.
FrameRanges ==
    SelectSeq(memory_map_data, LAMBDA r : r.free /\ r.limit > KernelEnd)

memalloc_init_frames(mem) ==
    /\ phase = "boot"
    /\ LET from(r) == IF r.base > KernelEnd THEN r.base ELSE KernelEnd
           add(acc, r) == IF acc.err # "none" \/ acc.fault # "none" THEN acc
                          ELSE add_free(acc.list, from(r), r.limit - from(r), mem)
           done == FoldLeft(add, Answer(<<>>, "none"), FrameRanges)
       IN  /\ kernel_free_frames' = done.list
           /\ fault' = done.fault
           /\ phase' = IF done.err = "none" THEN "pages" ELSE "failed"
    /\ scan' = KernelStart
    /\ UNCHANGED <<memory_map_data, kernel_free_pages, next_start, frames,
                   pages, lost>>

\* The base of the first range of the map among those with index in S.
First(S) == memory_map_data[CHOOSE i \in S : \A j \in S : i <= j].base

\* The searches of the second loop: the next range that is not free, and the
\* next free one.  next_start keeps its value when no free range follows.
NextLimit(from) ==
    LET busy == {i \in DOMAIN memory_map_data :
                    ~memory_map_data[i].free /\ memory_map_data[i].base > from}
    IN  IF busy = {} THEN MaxAddress ELSE First(busy)

NextStart(limit) ==
    LET later == {i \in DOMAIN memory_map_data :
                     memory_map_data[i].free /\ memory_map_data[i].base > limit}
    IN  IF later = {} THEN next_start ELSE First(later)

\* One round of the second loop: the pages from scan to the next range that
\* is not free.
memalloc_init_pages(mem) ==
    /\ phase = "pages" /\ fault = "none"
    /\ LET limit == NextLimit(scan)
           done  == add_free(kernel_free_pages, scan, limit - scan, mem)
           again == IF limit = MaxAddress THEN 0 ELSE NextStart(limit)
       IN  /\ kernel_free_pages' = done.list
           /\ fault' = done.fault
           /\ next_start' = NextStart(limit)
           /\ scan' = IF done.err = "none" THEN again ELSE 0
           /\ phase' = IF done.err # "none" THEN "failed"
                       ELSE IF again = 0 THEN "up" ELSE "pages"
    /\ UNCHANGED <<memory_map_data, kernel_free_frames, frames, pages, lost>>

Up == phase = "up" /\ fault = "none"

memalloc_alloc_kframes(n) ==
    /\ Up
    /\ LET got == get_block(kernel_free_frames, n)
       IN  /\ kernel_free_frames' = got.list
           /\ fault' = got.fault
           /\ frames' = IF got.err = "none"
                        THEN frames \union {<<BlockAddress(kernel_free_frames, n), n>>}
                        ELSE frames
    /\ UNCHANGED <<memory_map_data, kernel_free_pages, phase, scan, next_start,
                   pages, lost>>

\* A block given back while the heap is exhausted is in no list any more.
memalloc_free_kframes(b, mem) ==
    /\ Up
    /\ b \in frames
    /\ LET done == add_free(kernel_free_frames, b[1], b[2], mem)
       IN  /\ kernel_free_frames' = done.list
           /\ fault' = done.fault
           /\ lost' = IF done.err = "none" THEN lost
                      ELSE lost \union Block(b[1], b[2])
    /\ frames' = frames \ {b}
    /\ UNCHANGED <<memory_map_data, kernel_free_pages, phase, scan, next_start,
                   pages>>

memalloc_alloc_kpages(n) ==
    /\ Up
    /\ Cardinality(pages) < MaxHeld
    /\ LET got == get_block(kernel_free_pages, n)
       IN  /\ kernel_free_pages' = got.list
           /\ fault' = got.fault
           /\ pages' = IF got.err = "none"
                       THEN pages \union {<<BlockAddress(kernel_free_pages, n), n>>}
                       ELSE pages
    /\ UNCHANGED <<memory_map_data, kernel_free_frames, phase, scan, next_start,
                   frames, lost>>

\* Pages below the floor are refused: the block stays out of the pool.
memalloc_free_kpages(b, mem) ==
    /\ Up
    /\ b \in pages
    /\ LET done == IF b[1] < PageFloor THEN Answer(kernel_free_pages, "unauthorized")
                   ELSE add_free(kernel_free_pages, b[1], b[2], mem)
       IN  /\ kernel_free_pages' = done.list
           /\ fault' = done.fault
           /\ pages' = IF done.err = "unauthorized" THEN pages ELSE pages \ {b}
    /\ UNCHANGED <<memory_map_data, kernel_free_frames, phase, scan, next_start,
                   frames, lost>>

BootNext == \E mem \in BOOLEAN : memalloc_init_frames(mem) \/ memalloc_init_pages(mem)

PoolNext ==
    \/ BootNext
    \/ \E n \in BlockSizes : memalloc_alloc_kframes(n) \/ memalloc_alloc_kpages(n)
    \/ \E mem \in BOOLEAN :
          \/ \E b \in frames : memalloc_free_kframes(b, mem)
          \/ \E b \in pages : memalloc_free_kpages(b, mem)

PoolSpec == PoolInit /\ [][PoolNext]_poolVars
=============================================================================
