---------------------------- MODULE MCStructures ----------------------------
(* KernelQueue, Console, Acpi, KernelOutput and the functions of Lib for TLC. *)
(* They share no state; part, chosen at the start, says which one moves.    *)
EXTENDS KernelQueue, Console, KernelOutput, TLC

CONSTANTS n1, n2, n3, plain, sorted, a,
          MAX_RSDPS, MAX_CPU_COUNT, MAX_IO_APIC_COUNT, LengthLimit, PAGE

VARIABLES part, call,
          area, phase, current, next_dt, rsdp, fadt, facs, dsdt, madt,
          cpu_lapic, io_apic_tables

MCNodes == {n1, n2, n3}
MCQueues == {plain, sorted}
MCPrioQueues == {sorted}
MCPrios == {1, 2}

Symmetry == Permutations(MCNodes)
-----------------------------------------------------------------------------
\* Tables a BIOS may hold: MADTs with more CPUs and IO-APICs than there is room
\* for, good and corrupted tables, roots of both kinds, some too long, and
\* descriptors of a revision the kernel does not know
CpuEntry(i) == [type |-> "lapic", id |-> i]
IoApicEntry == [type |-> "io_apic", address |-> "io_apic"]
Override == [type |-> "override", source |-> 0, interrupt |-> 2]
MadtOf(entries) == [sig |-> "APIC", ok |-> TRUE, fits |-> TRUE, entries |-> entries,
                    address |-> "lapic"]
FadtOf(facsOk, dsdtOk) == [sig |-> "FACP", ok |-> TRUE, fits |-> TRUE,
                           facs |-> [ok |-> facsOk], dsdt |-> [ok |-> dsdtOk]]

BigMadt == MadtOf(<<CpuEntry(0), Override, CpuEntry(1), IoApicEntry, CpuEntry(2), IoApicEntry>>)
SmallMadt == MadtOf(<<CpuEntry(3)>>)

GoodTables == {BigMadt, SmallMadt, FadtOf(TRUE, TRUE), [sig |-> "HPET", ok |-> TRUE]}
Tables ==
    GoodTables \cup
    {FadtOf(TRUE, FALSE), FadtOf(FALSE, TRUE), [BigMadt EXCEPT !.ok = FALSE],
     [SmallMadt EXCEPT !.fits = FALSE], [sig |-> "HPET", ok |-> FALSE]}

\* behind a bad table nothing is looked at
RootOf(tables) == [ok |-> TRUE, fits |-> TRUE, length |-> Len(tables), tables |-> tables]
Roots == {RootOf(<<>>), [RootOf(<<>>) EXCEPT !.ok = FALSE], RootOf(<<SmallMadt, SmallMadt, SmallMadt>>)}
         \cup {RootOf(<<t>>) : t \in Tables} \cup {RootOf(<<t, u>>) : t \in GoodTables, u \in Tables}

MCRsdps ==
    {[ok |-> TRUE, revision |-> 0, rsdt |-> r, xsdt |-> NULL] : r \in Roots}
    \cup {[ok |-> ok, revision |-> v, rsdt |-> RootOf(<<BigMadt>>), xsdt |-> r] :
              ok \in BOOLEAN, v \in {1, 2}, r \in {NULL, RootOf(<<SmallMadt>>)}}

A == INSTANCE Acpi WITH Rsdps <- MCRsdps
-----------------------------------------------------------------------------
MCOutputFns == Tagged \cup {"kernel_printf", "kernel_doprint", "kernel_serial_debug"}
MCFormats == {<<"a", "%", "s">>, <<"%", "0", "2", "d">>}

\* Directives of all kinds, with widths that do and do not matter, one of them
\* above the 255 the code can hold
Directives ==
    {[conv |-> c, zero |-> FALSE, width |-> 0, length |-> <<>>] : c \in {"text", "%", "s", "c", "p"}}
    \cup {[conv |-> c, zero |-> z, width |-> w, length |-> l] :
              c \in {"d", "x"}, z \in BOOLEAN, w \in {0, 3, 10, 257},
              l \in {<<>>, <<"h">>, <<"h", "h">>, <<"l">>, <<"l", "l">>}}
-----------------------------------------------------------------------------
Strings(n, chars) == UNION {[1 .. k -> chars] : k \in 0 .. n}

\* Calls of the library: every pair of numbers of 4 * HALF_BITS bits, every
\* haystack of five characters, every overlap in six bytes of memory
Calls ==
    {[f |-> "divide", u |-> u, v |-> v] : u \in 0 .. Quad - 1, v \in 0 .. Quad - 1}
    \cup {[f |-> "format", i |-> i, base |-> b] : i \in -20 .. 40, b \in {2, 10, 16}}
    \cup {[f |-> "search", y |-> s, x |-> t] : s \in Strings(5, {1, 2}), t \in Strings(3, {1, 2})}
    \cup {[f |-> "move", dst |-> d, src |-> s, n |-> n] : d \in 0 .. 2, s \in 0 .. 2, n \in 0 .. 3}
    \cup {[f |-> "strings", dst |-> s, src |-> t, n |-> n] :
              s \in Strings(3, {1, 2}), t \in Strings(2, {1, 2}), n \in 0 .. 5}
    \cup {[f |-> "print", ds |-> ds] : ds \in UNION {[1 .. k -> Directives] : k \in 0 .. 2}}
    \cup {[f |-> "map", start |-> s, n |-> n] : s \in 0 .. 2 * PAGE, n \in 0 .. 2 * PAGE + 1}
-----------------------------------------------------------------------------
tableVars == <<area, phase, current, next_dt, rsdp, fadt, facs, dsdt, madt,
               cpu_lapic, io_apic_tables>>
structVars == <<part, call, vars, consoleVars, outputVars, tableVars>>

MCInit ==
    /\ part \in {"queue", "console", "output", "acpi", "lib"}
    /\ Init /\ ConsoleInit /\ OutputInit /\ A!AcpiInit
    /\ part # "acpi" => area = <<>>
    /\ call = NULL

QueuePart == part = "queue" /\ Next /\ UNCHANGED <<part, call, consoleVars, outputVars, tableVars>>
ConsolePart == part = "console" /\ ConsoleNext /\ UNCHANGED <<part, call, vars, outputVars, tableVars>>
OutputPart == part = "output" /\ OutputNext /\ UNCHANGED <<part, call, vars, consoleVars, tableVars>>
AcpiPart == part = "acpi" /\ A!AcpiNext /\ UNCHANGED <<part, call, vars, consoleVars, outputVars>>
LibPart == /\ part = "lib" /\ call = NULL /\ call' \in Calls
           /\ UNCHANGED <<part, vars, consoleVars, outputVars, tableVars>>

MCSpec == MCInit /\ [][QueuePart \/ ConsolePart \/ OutputPart \/ AcpiPart \/ LibPart]_structVars
-----------------------------------------------------------------------------
\* Kernel queues keep their shape, and the enlisted fields tell the truth: see
\* KernelQueue.
QueuesSound == WellFormed /\ EnlistedIsMembership

\* The APICs in use are those of one good MADT, and an RSDP is taken only when
\* all of its tables are good: see Acpi.
AcpiSound == A!AcpiSound

\* The functions of src/Kernel/Sources/lib compute what their names promise,
\* the formatter of kernel_output.c prints each directive as if it stood alone,
\* and acpi_map_data maps what it is asked for: see Lib, KernelOutput and Acpi.
LibRight ==
    call # NULL =>
        \/ call.f = "divide" /\ DivisionRight(call.u, call.v)
        \/ call.f = "format" /\ FormatRight(call.i, call.base)
        \/ call.f = "search" /\ SearchRight(call.y, call.x)
        \/ call.f = "move" /\ MoveRight([i \in 0 .. 5 |-> i], call.dst, call.src, call.n)
        \/ call.f = "strings" /\ StringsRight(call.dst, call.src, call.n)
        \/ call.f = "print" /\ DirectivesRight(call.ds, <<5, 14, 11, 6>>)
        \/ call.f = "map" /\ A!MapRight(call.start, call.n)
=============================================================================
