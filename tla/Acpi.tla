-------------------------------- MODULE Acpi --------------------------------
(***************************************************************************)
(* The search for the ACPI tables in src/Kernel/Sources/arch/x86/acpi.c:   *)
(* acpi_init tries the RSDPs of the BIOS area one after the other, an RSDP *)
(* leads to a root table (XSDT or RSDT), and the root to the FADT (with    *)
(* its FACS and DSDT) and the MADT, whose entries are the CPUs and the     *)
(* IO-APICs of the machine.  An attempt that fails half-way leaves what it *)
(* found so far; the next one goes on from there.                          *)
(*                                                                         *)
(* Tables are records, and a pointer is the table itself: ok says that the *)
(* signature and the checksum are right and that its pages can be mapped;  *)
(* fits, that the checksum loop finds the whole table mapped.  MADT        *)
(* entries have a length above 0: the walk of the code does not end on an  *)
(* entry of length 0.                                                      *)
(***************************************************************************)
EXTENDS Integers, Sequences, SequencesExt

CONSTANTS Rsdps,              \* descriptors the BIOS area may hold
          MAX_RSDPS,          \* bound of the model on how many it holds
          MAX_CPU_COUNT, MAX_IO_APIC_COUNT,
          LengthLimit,        \* 256: the values of the uint8_t loop index
          PAGE,               \* KERNEL_PAGE_SIZE
          NULL

VARIABLES area,                        \* the RSDPs in the area, in order
          phase, current, next_dt,     \* where acpi_init is
          rsdp, fadt, facs, dsdt, madt,          \* the tables found
          cpu_lapic, io_apic_tables              \* as long as their counts

acpiVars == <<area, phase, current, next_dt, rsdp, fadt, facs, dsdt, madt,
              cpu_lapic, io_apic_tables>>
found == <<fadt, facs, dsdt, madt, cpu_lapic, io_apic_tables>>

\* acpi_map_data: the pages it maps, one call of kernel_mmap_hw each; a page
\* that is mapped already is skipped
RECURSIVE MapFrom(_, _)
MapFrom(addr, size) ==
    IF size = 0 THEN {}
    ELSE {addr} \cup MapFrom(addr + PAGE, IF size >= PAGE THEN size - PAGE ELSE 0)

acpi_map_data(start, size) == MapFrom(start - (start % PAGE), size + (start % PAGE))

AcpiInit ==
    /\ area \in UNION {[1 .. n -> Rsdps] : n \in 0 .. MAX_RSDPS}
    /\ phase = "off" /\ current = 1 /\ next_dt = 1
    /\ rsdp = NULL /\ fadt = NULL /\ facs = NULL /\ dsdt = NULL /\ madt = NULL
    /\ cpu_lapic = <<>> /\ io_apic_tables = <<>>

\* the range is mapped, and everything cleared
acpi_init ==
    /\ phase = "off"
    /\ \/ phase' = "search"
       \/ phase' = "failed"     \* kernel_mmap_hw
    /\ UNCHANGED <<area, current, next_dt, rsdp, found>>

\* the XSDT when there is one, in revision 2 only
Root(d) == IF d.revision = 2 /\ d.xsdt # NULL THEN d.xsdt ELSE d.rsdt

\* this descriptor is given up, and the search goes on behind it
GiveUp ==
    /\ phase' = "search" /\ current' = current + 1 /\ next_dt' = 1
    /\ UNCHANGED rsdp

\* acpi_parse_rsdp, up to the call of acpi_parse_xsdt or acpi_parse_rsdt
acpi_parse_rsdp ==
    /\ phase = "search" /\ current <= Len(area)
    /\ LET d == area[current] IN
       IF d.revision \in {0, 2} /\ d.ok THEN phase' = "root" /\ UNCHANGED <<current, next_dt, rsdp>>
       ELSE GiveUp
    /\ UNCHANGED <<area, found>>

\* the machine stops: a page fault nobody handles, or a loop without end
Stop == phase' = "stopped" /\ UNCHANGED <<current, next_dt, rsdp>>

\* acpi_parse_rsdt and acpi_parse_xsdt, up to the walk: the checksum loop
\* counts in a uint8_t and does not end on a table of 256 bytes or more, and
\* it reads the table before more than its fixed part is mapped
acpi_parse_root ==
    /\ phase = "root"
    /\ LET r == Root(area[current])
           readable == r.length < LengthLimit /\ r.fits
       IN
       \/ /\ ~readable
          /\ Stop
       \/ /\ readable /\ ~r.ok
          /\ GiveUp
       \/ /\ readable /\ r.ok
          /\ phase' = "walk" /\ UNCHANGED <<current, next_dt, rsdp>>
    /\ UNCHANGED <<area, found>>

\* acpi_parse_fadt: FACS before DSDT, each kept when it is good
acpi_parse_fadt(t) ==
    /\ facs' = IF t.ok /\ t.facs.ok THEN t.facs ELSE facs
    /\ dsdt' = IF t.ok /\ t.facs.ok /\ t.dsdt.ok THEN t.dsdt ELSE dsdt
    /\ fadt' = IF t.ok /\ t.facs.ok /\ t.dsdt.ok THEN t ELSE fadt
    /\ UNCHANGED <<madt, cpu_lapic, io_apic_tables>>

Entries(t, type) == SelectSeq(t.entries, LAMBDA e : e.type = type)

\* the entries of a type, as far as there is room
FirstOf(t, type, max) ==
    SubSeq(Entries(t, type), 1, IF Len(Entries(t, type)) < max THEN Len(Entries(t, type)) ELSE max)

\* Mutant: the counts are not reset before the walk
ApicAdded(t) ==
    /\ cpu_lapic' = IF t.ok THEN SubSeq(cpu_lapic \o Entries(t, "lapic"), 1,
                        IF Len(cpu_lapic \o Entries(t, "lapic")) < MAX_CPU_COUNT
                        THEN Len(cpu_lapic \o Entries(t, "lapic")) ELSE MAX_CPU_COUNT)
                    ELSE cpu_lapic
    /\ io_apic_tables' = IF t.ok THEN FirstOf(t, "io_apic", MAX_IO_APIC_COUNT) ELSE io_apic_tables
    /\ madt' = IF t.ok THEN t ELSE madt
    /\ UNCHANGED <<fadt, facs, dsdt>>

acpi_parse_apic(t) ==
    /\ cpu_lapic' = IF t.ok THEN FirstOf(t, "lapic", MAX_CPU_COUNT) ELSE cpu_lapic
    /\ io_apic_tables' = IF t.ok THEN FirstOf(t, "io_apic", MAX_IO_APIC_COUNT) ELSE io_apic_tables
    /\ madt' = IF t.ok THEN t ELSE madt
    /\ UNCHANGED <<fadt, facs, dsdt>>

\* what acpi_parse_dt returns
DtFails(t) == \/ t.sig = "FACP" /\ ~(t.ok /\ t.facs.ok /\ t.dsdt.ok)
              \/ t.sig # "FACP" /\ ~t.ok

\* one table of the root; the first error ends the walk
acpi_parse_dt ==
    /\ phase = "walk" /\ next_dt <= Len(Root(area[current]).tables)
    /\ LET t == Root(area[current]).tables[next_dt] IN
       \/ /\ t.sig \in {"FACP", "APIC"} /\ ~t.fits
          /\ Stop /\ UNCHANGED found
       \/ /\ \/ t.sig = "FACP" /\ t.fits /\ acpi_parse_fadt(t)
             \/ t.sig = "APIC" /\ t.fits /\ acpi_parse_apic(t)
             \/ t.sig \notin {"FACP", "APIC"} /\ UNCHANGED found
          /\ IF DtFails(t) THEN GiveUp
             ELSE next_dt' = next_dt + 1 /\ UNCHANGED <<phase, current, rsdp>>
    /\ UNCHANGED area

\* Every table was good: this is the RSDP of the machine
RsdpFound ==
    /\ phase = "walk" /\ next_dt > Len(Root(area[current]).tables)
    /\ rsdp' = area[current]
    /\ phase' = "unmap"
    /\ UNCHANGED <<area, current, next_dt, found>>

RangeSearched ==
    /\ phase = "search" /\ current > Len(area)
    /\ phase' = "unmap"
    /\ UNCHANGED <<area, current, next_dt, rsdp, found>>

\* the end of acpi_init: initialised, also when no RSDP was good
Unmap ==
    /\ phase = "unmap"
    /\ phase' \in {"initialized", "failed"}
    /\ UNCHANGED <<area, current, next_dt, rsdp, found>>

AcpiNext ==
    \/ acpi_init \/ acpi_parse_rsdp \/ acpi_parse_root \/ acpi_parse_dt
    \/ RsdpFound \/ RangeSearched \/ Unmap
-----------------------------------------------------------------------------
\* What the rest of the kernel asks

Ready == phase = "initialized"
acpi_get_io_apic_available == IF ~Ready THEN -1 ELSE IF Len(io_apic_tables) > 0 THEN 1 ELSE 0
acpi_get_lapic_available == IF ~Ready THEN -1 ELSE IF Len(cpu_lapic) > 0 THEN 1 ELSE 0

\* the index is compared with > : callers have to stay below the count
acpi_get_io_apic_address(id) ==
    IF ~Ready \/ madt = NULL \/ id > Len(io_apic_tables) THEN NULL
    ELSE io_apic_tables[id + 1].address

acpi_get_lapic_addr == IF ~Ready \/ madt = NULL THEN NULL ELSE madt.address

acpi_check_lapic_id(id) ==
    Ready /\ \E i \in 1 .. Len(cpu_lapic) : cpu_lapic[i].id = id

acpi_get_remmaped_irq(irq) ==
    IF ~Ready THEN -1
    ELSE IF madt = NULL THEN irq
    ELSE LET i == SelectInSeq(madt.entries, LAMBDA e : e.type = "override" /\ e.source = irq)
         IN IF i = 0 THEN irq ELSE madt.entries[i].interrupt
-----------------------------------------------------------------------------
\* Once acpi_init has set acpi_initialized, after however many failed attempts:
\* the CPUs and the IO-APICs are those of one good MADT, the one that answers
\* for the local APIC's address and the interrupt overrides too, and a driver
\* that finds both kinds available gets an address for each; a local APIC id is
\* known iff it is one of the CPUs that fitted in the table.
ApicsAgree ==
    Ready =>
        /\ madt = NULL => acpi_get_lapic_available = 0 /\ acpi_get_io_apic_available = 0
        /\ madt # NULL =>
               /\ madt.ok
               /\ cpu_lapic = FirstOf(madt, "lapic", MAX_CPU_COUNT)
               /\ io_apic_tables = FirstOf(madt, "io_apic", MAX_IO_APIC_COUNT)
               /\ \A i \in 1 .. Len(madt.entries) :
                      LET e == madt.entries[i] IN
                      (e.type = "lapic" /\ acpi_check_lapic_id(e.id)) =>
                          \E k \in 1 .. MAX_CPU_COUNT : k <= Len(cpu_lapic) /\ cpu_lapic[k] = e
        /\ acpi_get_lapic_available = 1 => acpi_get_lapic_addr # NULL
        /\ acpi_get_io_apic_available = 1 => acpi_get_io_apic_address(0) # NULL

\* An RSDP is taken for the machine's only when every table its root lists was
\* good, and then the FADT and the MADT in force are the last ones it lists,
\* whatever earlier attempts left behind.
RootTrusted ==
    rsdp # NULL =>
        LET listed == Root(rsdp).tables
            LastOf(sig) == SelectLastInSeq(listed, LAMBDA t : t.sig = sig)
        IN /\ rsdp.ok /\ Root(rsdp).ok
           /\ \A i \in 1 .. Len(listed) : ~DtFails(listed[i])
           /\ LastOf("APIC") # 0 => madt = listed[LastOf("APIC")]
           /\ LastOf("FACP") # 0 => /\ fadt = listed[LastOf("FACP")]
                                  /\ facs = fadt.facs /\ dsdt = fadt.dsdt

\* acpi_map_data maps the pages its range touches and no other (an empty
\* range, the entries of an empty MADT, may still cost the page it starts in).
MapRight(start, size) ==
    size > 0 => acpi_map_data(start, size) = {b - (b % PAGE) : b \in start .. start + size - 1}

\* The tables found and the devices counted from them
AcpiSound == ApicsAgree /\ RootTrusted
=============================================================================
