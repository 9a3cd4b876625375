------------------------------- MODULE AtaPio -------------------------------
(***************************************************************************)
(* The disk driver of src/Kernel/Sources/arch/x86/ata_pio.c.  A device     *)
(* structure names a drive and carries a spinlock; the drives of one port  *)
(* share its registers.  A section of a device's lock runs with the        *)
(* interrupts of its CPU off, one group of port accesses per step: select  *)
(* the drive, give the sector and the command, transfer.  Another thread   *)
(* may run between the two sections of ata_pio_write_sector.  A sector     *)
(* holds SectorSize bytes and crosses the data port as words of two.  A    *)
(* drive keeps what it is sent in a cache, stores it on its medium when it *)
(* is told to flush, and executes the commands that arrive while it is the *)
(* selected one (external).                                                *)
(***************************************************************************)
EXTENDS Naturals, Sequences

CONSTANTS Callers,     \* the threads that use the disks
          Drives, Sectors,
          SectorSize,  \* ATA_PIO_SECTOR_SIZE, even
          Sizes,       \* sizes of buffers, odd and even
          Fill         \* a buffer holds one byte repeated, not 0

\* buffers fit in a sector, and the names of the module are no threads or drives
AtaAssumption ==
    /\ SectorSize \in Nat \ {0} /\ SectorSize % 2 = 0
    /\ Sizes \subseteq 0 .. SectorSize
    /\ Drives # {} /\ Sectors # {}
    /\ "none" \notin Callers /\ "port" \notin Drives

VARIABLES shared,    \* the drives are master and slave of one port, and the
                     \* machine has one CPU; or each has its port and each
                     \* thread its CPU
          present,   \* the drives that answer
          disk,      \* drive -> sector -> medium, cache (<<>> when stored) and
                     \* latest, the bytes of the last write it was sent
          selected,  \* port -> drive and sector in its registers
          left,      \* port -> words of its last command still to cross
          device_lock, \* drive -> who is in a section of device->lock, or "none"
          job,       \* thread -> the call it executes, and where it is
          answer     \* what the last call to return answered, and about what; for a
                     \* read, the bytes it got and those it was to get

ataVars == <<shared, present, disk, selected, left, device_lock, job, answer>>

Zeros == [i \in 1 .. SectorSize |-> 0]
NoJob == [op |-> "none", step |-> "idle"]
Port(d) == IF shared THEN "port" ELSE d
Ports == Drives \cup {"port"}

\* A structure per port, or a machine on which interrupts off is enough: two
\* CPUs that use two structures of one port would mix their commands, as each
\* takes the lock of its own structure.
AtaInit ==
    /\ shared \in BOOLEAN
    /\ present \in SUBSET Drives
    /\ disk = [d \in Drives |-> [s \in Sectors |->
                   [medium |-> Zeros, cache |-> <<>>, latest |-> Zeros]]]
    /\ selected \in [Ports -> {[drive |-> CHOOSE d \in Drives : TRUE,
                                sector |-> CHOOSE s \in Sectors : TRUE]}]
    /\ left = [p \in Ports |-> 0]
    /\ device_lock = [d \in Drives |-> "none"]
    /\ job = [t \in Callers |-> NoJob]
    /\ answer = [what |-> "none"]

Inside(t) == job[t].step \in {"command", "transfer"}
MayEnter(t, d) ==
    /\ device_lock[d] = "none"
    /\ shared => \A u \in Callers : ~Inside(u)
Doing(t, step) == job[t].step = step

\* ENTER_CRITICAL, and the device register of the port
EnterAndSelect(t, d, j) ==
    /\ MayEnter(t, d)
    /\ device_lock' = [device_lock EXCEPT ![d] = t]
    /\ selected' = [selected EXCEPT ![Port(d)].drive = d]
    /\ job' = [job EXCEPT ![t] = j]

Leave(t, j) ==
    /\ device_lock' = [device_lock EXCEPT ![job[t].drive] = "none"]
    /\ job' = [job EXCEPT ![t] = j]

Answer(t, what) ==
    answer' = [what |-> what, drive |-> job[t].drive, sector |-> job[t].sector]
-----------------------------------------------------------------------------
\* words the two transfer loops move: those of the buffer, then the rest
WordsMoved(size) == (size + 1) \div 2 + (SectorSize - (size + (size % 2))) \div 2

\* the bytes of the words sent: those of the buffer, an odd last one with a
\* zero, then zeros
Sent(size) == [i \in 1 .. SectorSize |-> IF i <= size THEN Fill ELSE 0]

\* what the drive gives back for a sector: the cache is in front of the medium
Content(r) == IF r.cache = <<>> THEN r.medium ELSE r.cache

Start(t, op, d, s, size) ==
    /\ Doing(t, "idle")
    /\ EnterAndSelect(t, d, [op |-> op, step |-> "command", drive |-> d,
                             sector |-> s, size |-> size])
    /\ UNCHANGED <<shared, present, disk, left, answer>>

\* the sector registers and the command: the selected drive has a sector to
\* give or to take
Command(t) ==
    /\ Doing(t, "command") /\ job[t].op # "flush"
    /\ LET p == Port(job[t].drive) IN
       /\ selected' = [selected EXCEPT ![p].sector = job[t].sector]
       /\ left' = [left EXCEPT ![p] =
                      @ + IF selected[p].drive \in present THEN SectorSize \div 2 ELSE 0]
    /\ job' = [job EXCEPT ![t].step = "transfer"]
    /\ UNCHANGED <<shared, present, disk, device_lock, answer>>

\* status 0: OS_ERR_ATA_DEVICE_NOT_PRESENT
Absent(t) ==
    /\ selected[Port(job[t].drive)].drive \notin present
    /\ Answer(t, "absent")

\* ATA_PIO_FLAG_ERR: OS_ERR_ATA_DEVICE_ERROR
DeviceError(t) ==
    /\ selected[Port(job[t].drive)].drive \in present
    /\ Answer(t, "error")

Move(t, p) == left' = [left EXCEPT ![p] = @ - WordsMoved(job[t].size)]

\* ata_pio_read_sector once the command is given: an error comes before any
\* data, else the whole sector crosses, whatever part of it is asked for
ata_pio_read_sector(t) ==
    /\ Doing(t, "transfer") /\ job[t].op = "read"
    /\ LET p == Port(job[t].drive)
           r == selected[p]
       IN \/ Absent(t) /\ UNCHANGED left
          \/ DeviceError(t) /\ left' = [left EXCEPT ![p] = 0]
          \/ /\ r.drive \in present
             /\ answer' = [what |-> "read", data |-> Content(disk[r.drive][r.sector]),
                           latest |-> disk[job[t].drive][job[t].sector].latest]
             /\ Move(t, p)
    /\ Leave(t, NoJob)
    /\ UNCHANGED <<shared, present, disk, selected>>

\* the first section of ata_pio_write_sector, which reads no status
write_section(t) ==
    /\ Doing(t, "transfer") /\ job[t].op = "write"
    /\ LET p == Port(job[t].drive)
           r == selected[p]
           bytes == Sent(job[t].size)
       IN IF r.drive \in present
          THEN /\ disk' = [disk EXCEPT ![r.drive][r.sector] =
                               [@ EXCEPT !.cache = bytes, !.latest = bytes]]
               /\ Move(t, p)
          ELSE UNCHANGED <<disk, left>>
    /\ Leave(t, [job[t] EXCEPT !.op = "flush", !.step = "between"])
    /\ UNCHANGED <<shared, present, selected, answer>>

\* ata_pio_flush, with which ata_pio_write_sector ends
FlushSelect(t) ==
    /\ Doing(t, "between")
    /\ EnterAndSelect(t, job[t].drive, [job[t] EXCEPT !.step = "command"])
    /\ UNCHANGED <<shared, present, disk, left, answer>>

Stored(r) == [r EXCEPT !.medium = Content(r), !.cache = <<>>]

\* Mutant: takes the error flag for an answer without an error
FlushErrorIgnored(t) ==
    /\ Doing(t, "command") /\ job[t].op = "flush"
    /\ LET d == selected[Port(job[t].drive)].drive IN
       \/ Absent(t) /\ UNCHANGED disk
       \/ d \in present /\ Answer(t, "written") /\ UNCHANGED disk
    /\ Leave(t, NoJob)
    /\ UNCHANGED <<shared, present, selected, left>>

ata_pio_flush(t) ==
    /\ Doing(t, "command") /\ job[t].op = "flush"
    /\ LET d == selected[Port(job[t].drive)].drive IN
       \/ Absent(t) /\ UNCHANGED disk
       \/ DeviceError(t) /\ UNCHANGED disk
       \/ /\ d \in present
          /\ Answer(t, "written")
          /\ disk' = [disk EXCEPT ![d] = [s \in Sectors |-> Stored(@[s])]]
    /\ Leave(t, NoJob)
    /\ UNCHANGED <<shared, present, selected, left>>

AtaNext ==
    \E t \in Callers :
        \/ \E op \in {"read", "write"}, d \in Drives, s \in Sectors, size \in Sizes :
               Start(t, op, d, s, size)
        \/ Command(t) \/ ata_pio_read_sector(t) \/ write_section(t)
        \/ FlushSelect(t) \/ ata_pio_flush(t)

AtaSpec == AtaInit /\ [][AtaNext]_ataVars
-----------------------------------------------------------------------------
\* Whatever the size of the buffer, odd or even, every command moves the
\* words of one sector: words left on the port would be taken for the data
\* of the next command (ata_pio.c 327-344, 419-434).
TransfersComplete ==
    /\ \A n \in 0 .. SectorSize : WordsMoved(n) = SectorSize \div 2
    /\ \A p \in Ports :
           left[p] = 0 \/ \E t \in Callers : Doing(t, "transfer") /\ Port(job[t].drive) = p

\* Once ata_pio_write_sector has answered OS_NO_ERR, and until the sector
\* is written again, the medium holds the last bytes sent to it, although
\* another thread may have run, and failed, between the call's two sections.
WrittenIsStored ==
    LET r == disk[answer.drive][answer.sector]
        Rewriting(t) == /\ job[t].op \in {"write", "flush"}
                        /\ job[t].drive = answer.drive
                        /\ job[t].sector = answer.sector
    IN answer.what = "written" /\ (\A t \in Callers : ~Rewriting(t)) =>
           r.medium = r.latest

\* ata_pio_read_sector returns the last bytes written to that sector of that
\* drive, not those of a drive another thread has selected meanwhile.
ReadIsLatest == answer.what = "read" => answer.data = answer.latest

\* The disks keep what they acknowledged, give it back, and the ports are left
\* ready for the next command.
DiskKeeps == TransfersComplete /\ WrittenIsStored /\ ReadIsLatest
=============================================================================
