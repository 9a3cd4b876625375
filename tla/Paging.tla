------------------------------ MODULE Paging -------------------------------
(***************************************************************************)
(* Kernel paging (Sources/arch/cpu/i386/paging.c) on top of the frame pool  *)
(* of MemAlloc.  Virtual addresses count pages; a page table has TableSize  *)
(* entries.  The module follows the build with one CPU, where each call     *)
(* runs with interrupts off from its first to its last access.              *)
(*   kernel_pgdir   for each directory entry its table's frame, or NULL     *)
(*   pgtable        for each page its entry [frame, hw], or NULL            *)
(*   interrupts     whether the caller runs with interrupts enabled         *)
(*   torn           a mapping failed half way: pages stay mapped to frames  *)
(*                  that kernel_mmap gave back.  Nothing is modelled then.  *)
(***************************************************************************)
EXTENDS MemAlloc, FiniteSetsExt

CONSTANTS VirtPages,  \* number of virtual pages
          TableSize   \* entries of a page table

VARIABLES kernel_pgdir, pgtable, interrupts, torn

pagingVars == <<poolVars, kernel_pgdir, pgtable, interrupts, torn>>

Virt == 0..(VirtPages - 1)
Dirs == {v \div TableSize : v \in Virt}
PagesOf(d) == {v \in Virt : v \div TableSize = d}

PagingInit ==
    /\ PoolInit
    /\ kernel_pgdir = [d \in Dirs |-> NULL]
    /\ pgtable = [v \in Virt |-> NULL]
    /\ interrupts = TRUE
    /\ torn = FALSE

is_mapped(v, n) ==
    \E p \in Block(v, n) :
        kernel_pgdir[p \div TableSize] # NULL /\ pgtable[p] # NULL

\* One page of the loop of kernel_mmap_internal.  s is the state of the loop.
MapPage(s, p, entry) ==
    LET d   == p \div TableSize
        got == get_block(s.list, 1)
        tab == BlockAddress(s.list, 1)
    IN  IF s.err # "none" \/ s.fault # "none" THEN s
        ELSE IF s.dir[d] # NULL
        THEN [s EXCEPT !.table[p] = entry, !.mapped = @ + 1]
        ELSE IF got.err # "none" \/ got.fault # "none"
        THEN [s EXCEPT !.err = got.err, !.fault = got.fault]
        ELSE [s EXCEPT !.list = got.list,
                       !.dir[d] = tab,
                       !.table = [v \in Virt |->
                                     IF v = p THEN entry
                                     ELSE IF v \in PagesOf(d) THEN NULL
                                     ELSE s.table[v]],
                       !.mapped = @ + 1]

\* kernel_mmap_internal on a range that is_mapped found free.
MapRange(list, v, n, phys, hw) ==
    LET step(s, p) == MapPage(s, p, [frame |-> phys + (p - v), hw |-> hw])
        first == [list |-> list, dir |-> kernel_pgdir, table |-> pgtable,
                  err |-> "none", fault |-> "none", mapped |-> 0]
    IN  FoldLeft(step, first, [i \in 1..n |-> v + i - 1])

InRange(v, n) == v + n <= VirtPages

\* kernel_mmap_hw: a refused request leaves interrupts disabled, and a
\* request that fails half way leaves the pages it has mapped.
kernel_mmap_hw(v, n) ==
    /\ Up /\ ~torn /\ InRange(v, n)
    /\ LET done == MapRange(kernel_free_frames, v, n, MaxAddress + v, TRUE)
       IN  IF is_mapped(v, n)
           THEN /\ interrupts' = FALSE
                /\ UNCHANGED <<kernel_free_frames, fault, kernel_pgdir, pgtable>>
           ELSE /\ kernel_free_frames' = done.list
                /\ fault' = done.fault
                /\ kernel_pgdir' = done.dir
                /\ pgtable' = done.table
                /\ UNCHANGED interrupts
    /\ UNCHANGED <<memory_map_data, kernel_free_pages, phase, scan, next_start,
                   frames, pages, lost, torn>>

\* kernel_mmap: frames first, then the mapping; the frames go back to the pool
\* when the mapping fails.
kernel_mmap(v, n, mem) ==
    /\ Up /\ ~torn /\ InRange(v, n)
    /\ LET got    == get_block(kernel_free_frames, n)
           phys   == BlockAddress(kernel_free_frames, n)
           exists == is_mapped(v, n)
           done   == MapRange(got.list, v, n, phys, FALSE)
           failed == exists \/ done.err # "none"
           back   == add_free(IF exists THEN got.list ELSE done.list, phys, n, mem)
       IN  IF got.err # "none" \/ got.fault # "none"
           THEN /\ fault' = got.fault
                /\ UNCHANGED <<kernel_free_frames, kernel_pgdir, pgtable,
                               interrupts, torn, lost>>
           ELSE /\ kernel_free_frames' = IF failed THEN back.list ELSE done.list
                /\ fault' = IF ~exists /\ done.fault # "none" THEN done.fault
                            ELSE IF failed THEN back.fault ELSE "none"
                /\ lost' = IF failed /\ back.err # "none"
                           THEN lost \union Block(phys, n) ELSE lost
                /\ kernel_pgdir' = IF exists THEN kernel_pgdir ELSE done.dir
                /\ pgtable' = IF exists THEN pgtable ELSE done.table
                /\ torn' = (~exists /\ failed /\ done.mapped > 0)
                /\ interrupts' = (interrupts /\ ~exists)
    /\ UNCHANGED <<memory_map_data, kernel_free_pages, phase, scan, next_start,
                   frames, pages>>

\* One frame handed back by kernel_munmap, which ignores add_free's answer.
GiveBack(s, f, mem) ==
    LET done == add_free(s.list, f, 1, mem)
    IN  IF s.fault # "none" THEN s
        ELSE [s EXCEPT !.list = done.list, !.fault = done.fault,
                       !.lost = IF done.err = "none" THEN @ ELSE @ \union {f}]

\* Mutant: an emptied table is dropped from the directory but not given back
UnmapLeaksTable(s, p, mem) ==
    LET d     == p \div TableSize
        entry == s.table[p]
        s1    == IF entry = NULL THEN s
                 ELSE [(IF entry.hw THEN s ELSE GiveBack(s, entry.frame, mem))
                          EXCEPT !.table[p] = NULL]
    IN  IF s.dir[d] = NULL \/ s.fault # "none" THEN s
        ELSE IF \A v \in PagesOf(d) : s1.table[v] = NULL
        THEN [s1 EXCEPT !.dir[d] = NULL]
        ELSE s1

\* One page of the loop of kernel_munmap: the frame goes back unless it is
\* hardware, and so does the table that has become empty.
UnmapPage(s, p, mem) ==
    LET d     == p \div TableSize
        entry == s.table[p]
        s1    == IF entry = NULL THEN s
                 ELSE [(IF entry.hw THEN s ELSE GiveBack(s, entry.frame, mem))
                          EXCEPT !.table[p] = NULL]
        empty == \A v \in PagesOf(d) : s1.table[v] = NULL
    IN  IF s.dir[d] = NULL \/ s.fault # "none" THEN s
        ELSE IF empty THEN [GiveBack(s1, s.dir[d], mem) EXCEPT !.dir[d] = NULL]
        ELSE s1

kernel_munmap(v, n, mem) ==
    /\ Up /\ ~torn /\ InRange(v, n)
    /\ LET first == [list |-> kernel_free_frames, dir |-> kernel_pgdir,
                     table |-> pgtable, fault |-> "none", lost |-> lost]
           step(s, p) == UnmapPage(s, p, mem)
           done == FoldLeft(step, first, [i \in 1..n |-> v + i - 1])
       IN  /\ kernel_free_frames' = done.list
           /\ kernel_pgdir' = done.dir
           /\ pgtable' = done.table
           /\ fault' = done.fault
           /\ lost' = done.lost
    /\ UNCHANGED <<memory_map_data, kernel_free_pages, phase, scan, next_start,
                   frames, pages, interrupts, torn>>

Boot == BootNext /\ UNCHANGED <<kernel_pgdir, pgtable, interrupts, torn>>

PagingNext ==
    \/ Boot
    \/ \E v \in Virt, n \in BlockSizes :
          \/ kernel_mmap_hw(v, n)
          \/ \E mem \in BOOLEAN : kernel_mmap(v, n, mem) \/ kernel_munmap(v, n, mem)

PagingSpec == PagingInit /\ [][PagingNext]_pagingVars /\ WF_pagingVars(Boot)

----------------------------------------------------------------------------
\* The frames that memalloc_init hands to the pool.
AllFrames ==
    {f \in 0..MaxAddress :
        \E r \in ToSet(memory_map_data) :
            r.free /\ r.base <= f /\ f < r.limit /\ f >= KernelEnd}

HeldFrames == UNION {Block(b[1], b[2]) : b \in frames}
TableFrames == {kernel_pgdir[d] : d \in {e \in Dirs : kernel_pgdir[e] # NULL}}
RamPages == {v \in Virt : pgtable[v] # NULL /\ ~pgtable[v].hw}
MappedFrames == {pgtable[v].frame : v \in RamPages}
FreeFrames == Covers(kernel_free_frames)

\* Type invariant.
PagingTypeOK ==
    /\ kernel_free_frames \in
          Seq([start : 0..MaxAddress, size : 1..MaxAddress, stale : BOOLEAN])
    /\ kernel_free_pages \in
          Seq([start : 0..MaxAddress, size : 1..MaxAddress, stale : BOOLEAN])
    /\ phase \in {"boot", "pages", "up", "failed"}
    /\ scan \in 0..MaxAddress /\ next_start \in 0..MaxAddress
    /\ fault \in {"none", "null", "stale"}
    /\ lost \subseteq 0..MaxAddress
    /\ kernel_pgdir \in [Dirs -> (0..MaxAddress) \union {NULL}]
    /\ pgtable \in [Virt -> [frame : 0..(2 * MaxAddress), hw : BOOLEAN] \union {NULL}]
    /\ interrupts \in BOOLEAN /\ torn \in BOOLEAN

\* Every frame has exactly one owner: the pool, a caller, a page table, a
\* mapped page, or nobody once add_free failed for want of heap memory.  It
\* holds until a mapping fails half way (memalloc.c:70-286, paging.c:583-742).
FramesOwnedOnce ==
    Up /\ ~torn =>
        /\ AllFrames = FreeFrames \union HeldFrames \union TableFrames
                          \union MappedFrames \union lost
        /\ Cardinality(AllFrames) =
               Cardinality(FreeFrames)
               + MapThenSumSet(LAMBDA b : b[2], frames)
               + Cardinality({d \in Dirs : kernel_pgdir[d] # NULL})
               + Cardinality(RamPages) + Cardinality(lost)

\* The areas of a pool are in address order and no two of them touch, so that
\* a run of free units is always found by get_block as one area
\* (memalloc.c:101-208).
PoolsMerged ==
    \A list \in {kernel_free_frames, kernel_free_pages} :
        \A k \in 1..(Len(list) - 1) : End(list[k]) < list[k + 1].start

\* A page table is present exactly when it maps a page: kernel_munmap frees
\* every table it empties and kernel_mmap never leaves an empty one behind
\* (paging.c:381-425, 707-722).
TablesInUse ==
    \A d \in Dirs : (kernel_pgdir[d] # NULL) = (\E v \in PagesOf(d) : pgtable[v] # NULL)

\* After memalloc_init no page of the pool or of a caller lies in a range of
\* the memory map that is not free (memalloc.c:326-382).
PagesAvoidDevices ==
    phase = "up" =>
        \A r \in ToSet(memory_map_data) :
            ~r.free /\ r.base > KernelStart =>
                \A p \in Covers(kernel_free_pages)
                            \union UNION {Block(b[1], b[2]) : b \in pages} :
                    ~(r.base <= p /\ p < r.limit)

\* The loop of memalloc_init over the memory map ends, although it takes its
\* next start from a variable that it does not always assign
\* (memalloc.c:328-382).
BootEnds == <>(phase \in {"up", "failed"} \/ fault # "none")

\* No node of a pool keeps a prev pointer to a node given back to the heap.
PrevIsLinked ==
    \A list \in {kernel_free_frames, kernel_free_pages} :
        \A k \in DOMAIN list : ~list[k].stale

\* The memory handed out is sound: every frame has one owner, free areas are
\* joined, page tables exist while they are used, and no device is in the pool.
MemoryOwned == PagingTypeOK /\ FramesOwnedOnce /\ PoolsMerged /\ TablesInUse /\ PagesAvoidDevices
=============================================================================
