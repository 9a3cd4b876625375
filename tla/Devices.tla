------------------------------ MODULE Devices ------------------------------
(***************************************************************************)
(* Interrupt routing and the start of the devices: the handler table of    *)
(* interrupts.c and exceptions.c, the PIC and IO-APIC drivers, the PIT,    *)
(* RTC and LAPIC timers, time_management.c, and the calls that             *)
(* kernel_kickstart and cpu_smp_init make to them, from                    *)
(* kernel_interrupt_init to the first schedule of every CPU.               *)
(*                                                                         *)
(* The boot code runs with interrupts off but for the windows in which it  *)
(* waits for a timer, so every step between two windows is one action, and *)
(* so is an interrupt: its handler runs with interrupts off and ends with  *)
(* the end-of-interrupt command.  The hardware raises unmasked lines of    *)
(* devices and the two spurious lines of the PIC; the LAPIC's own spurious *)
(* vector is left out.                                                     *)
(***************************************************************************)
EXTENDS Integers, FiniteSets

CONSTANTS APs,   \* the application processors that ACPI lists
          NULL

VARIABLES boot,        \* the call kernel_kickstart has reached
          capable,     \* io_apic_capable()
          dev,         \* the state of drivers and controllers
          interrupts,  \* the interrupt flag of the main CPU
          aps,         \* AP -> how far it has come up
          current,     \* the AP cpu_smp_init starts, and the count it read
          init_cpu_count, init_seq_end, first_sched

vars == <<boot, capable, dev, interrupts, aps, current, init_cpu_count,
          init_seq_end, first_sched>>
smpVars == <<aps, current, init_cpu_count, init_seq_end, first_sched>>

PIT_IRQ_LINE == 0
KBD_IRQ_LINE == 1
PIC_CASCADING_IRQ == 2
RTC_IRQ_LINE == 8
SpuriousIRQs == {7, 15}
IRQs == {PIT_IRQ_LINE, KBD_IRQ_LINE, PIC_CASCADING_IRQ, RTC_IRQ_LINE} \cup SpuriousIRQs

MIN_INTERRUPT_LINE == 32
LAPIC_TIMER_INTERRUPT_LINE == 32
SCHEDULER_SW_INT_LINE == 33
PANIC_INT_LINE == 42
INT_PIC_IRQ_OFFSET == 48
INT_IOAPIC_IRQ_OFFSET == 64
DIV_BY_ZERO_LINE == 0
DEVICE_NOT_FOUND_LINE == 7

Lines == {DIV_BY_ZERO_LINE, DEVICE_NOT_FOUND_LINE, LAPIC_TIMER_INTERRUPT_LINE,
          SCHEDULER_SW_INT_LINE, PANIC_INT_LINE}
         \cup {i + INT_PIC_IRQ_OFFSET : i \in IRQs}
         \cup {i + INT_IOAPIC_IRQ_OFFSET : i \in IRQs}
Handlers == {"panic", "div_by_zero", "sse_use", "pit_dummy", "rtc_dummy",
             "lapic_dummy", "lapic_init_pit", "time_main", "time_rtc",
             "time_aux", "keyboard", "schedule_int"}
Timers == {"pit", "rtc"}
Irq(t) == IF t = "pit" THEN PIT_IRQ_LINE ELSE RTC_IRQ_LINE
-----------------------------------------------------------------------------
(* The handler table                                                       *)

\* an OS_RETURN_E other than OS_NO_ERR: kickstart panics on it
Fail(d) == [d EXCEPT !.err = TRUE]

kernel_interrupt_init(d) ==
    [d EXCEPT !.handler = [l \in Lines |-> IF l = PANIC_INT_LINE THEN "panic" ELSE NULL],
              !.driver = "init"]

kernel_exception_register_handler(d, line, h) ==
    IF line >= MIN_INTERRUPT_LINE \/ d.handler[line] # NULL
    THEN Fail(d) ELSE [d EXCEPT !.handler[line] = h]

kernel_interrupt_register_int_handler(d, line, h) ==
    IF line < MIN_INTERRUPT_LINE \/ d.handler[line] # NULL
    THEN Fail(d) ELSE [d EXCEPT !.handler[line] = h]

kernel_interrupt_remove_int_handler(d, line) ==
    IF line < MIN_INTERRUPT_LINE \/ d.handler[line] = NULL
    THEN Fail(d) ELSE [d EXCEPT !.handler[line] = NULL]

\* driver_get_irq_int_line
get_irq_int_line(d, irq) ==
    CASE d.driver = "init" -> 0
      [] d.driver = "pic" -> irq + INT_PIC_IRQ_OFFSET
      [] d.driver = "io_apic" -> irq + INT_IOAPIC_IRQ_OFFSET

kernel_interrupt_register_irq_handler(d, irq, h) ==
    kernel_interrupt_register_int_handler(d, get_irq_int_line(d, irq), h)

kernel_interrupt_remove_irq_handler(d, irq) ==
    kernel_interrupt_remove_int_handler(d, get_irq_int_line(d, irq))
-----------------------------------------------------------------------------
(* The interrupt controllers: the lines that are not masked                *)

Slave(lines) == {i \in lines : i > 7}

pic_init(d) == [d EXCEPT !.pic = {}, !.serving = {}]
pic_disable(d) == [d EXCEPT !.pic = {}]

\* the cascade is open while a line of the slave is
pic_set_irq_mask(d, irq, enabled) ==
    LET lines == IF enabled THEN d.pic \cup {irq} ELSE d.pic \ {irq}
        cascade == {PIC_CASCADING_IRQ}
    IN  [d EXCEPT !.pic = IF irq < 8 THEN lines
                          ELSE IF Slave(lines) = {} THEN lines \ cascade
                          ELSE lines \cup cascade]

io_apic_set_irq_mask(d, irq, enabled) ==
    [d EXCEPT !.io_apic = IF enabled THEN @ \cup {irq} ELSE @ \ {irq}]

io_apic_init(d) == [d EXCEPT !.io_apic = {}]

kernel_interrupt_set_irq_mask(d, irq, enabled) ==
    CASE d.driver = "init" -> d
      [] d.driver = "pic" -> pic_set_irq_mask(d, irq, enabled)
      [] d.driver = "io_apic" -> io_apic_set_irq_mask(d, irq, enabled)

pic_set_irq_eoi(d, irq) ==
    [d EXCEPT !.serving = @ \ (IF irq > 15 THEN {}
                               ELSE IF irq > 7 THEN {"slave", "master"}
                               ELSE {"master"})]

lapic_set_int_eoi(d) == [d EXCEPT !.serving = @ \ {"lapic"}]

kernel_interrupt_set_irq_eoi(d, irq) ==
    CASE d.driver = "init" -> d
      [] d.driver = "pic" -> pic_set_irq_eoi(d, irq)
      [] d.driver = "io_apic" -> lapic_set_int_eoi(d)

\* Mutant: a spurious line of the slave is dropped like one of the master
SpuriousDropped(d, line) ==
    [spurious |-> d.driver = "pic" /\ line - INT_PIC_IRQ_OFFSET \in SpuriousIRQs
                  /\ ~(line - INT_PIC_IRQ_OFFSET > 7 /\ "slave" \in d.serving),
     dev |-> d]

\* driver_handle_spurious: a spurious line 15 was raised through the
\* master, which waits for its end of interrupt
handle_spurious(d, line) ==
    LET irq == line - INT_PIC_IRQ_OFFSET
    IN  CASE d.driver = "pic" /\ irq = 15 /\ "slave" \notin d.serving ->
                 [spurious |-> TRUE, dev |-> pic_set_irq_eoi(d, PIC_CASCADING_IRQ)]
          [] d.driver = "pic" /\ irq = 7 /\ "master" \notin d.serving ->
                 [spurious |-> TRUE, dev |-> d]
          [] d.driver = "io_apic" /\ irq = 15 ->
                 [spurious |-> TRUE, dev |-> lapic_set_int_eoi(d)]
          [] OTHER -> [spurious |-> FALSE, dev |-> d]
-----------------------------------------------------------------------------
(* The timers: a nesting count of disables over the line's mask            *)

\* Mutant: every enable unmasks the line
EnableAlways(d, t) ==
    kernel_interrupt_set_irq_mask(
        [d EXCEPT !.disabled_nesting[t] = IF @ > 0 THEN @ - 1 ELSE 0], Irq(t), TRUE)

\* pit_enable, rtc_enable
timer_enable(d, t) ==
    LET left == IF d.disabled_nesting[t] > 0 THEN d.disabled_nesting[t] - 1 ELSE 0
        e == [d EXCEPT !.disabled_nesting[t] = left]
    IN  IF left = 0 THEN kernel_interrupt_set_irq_mask(e, Irq(t), TRUE) ELSE e

\* pit_disable, rtc_disable
timer_disable(d, t) ==
    kernel_interrupt_set_irq_mask([d EXCEPT !.disabled_nesting[t] = @ + 1], Irq(t), FALSE)

\* pit_set_frequency, rtc_set_frequency; the rate is not modelled
timer_set_frequency(d, t) == timer_enable(timer_disable(d, t), t)

\* Mutant: the new handler is registered over the old one
SetHandlerOver(d, t, h) ==
    timer_enable(kernel_interrupt_register_irq_handler(timer_disable(d, t), Irq(t), h), t)

\* pit_set_handler, rtc_set_handler; the latter leaves the line masked when
\* it cannot register the handler
timer_set_handler(d, t, h) ==
    LET removed == kernel_interrupt_remove_irq_handler(timer_disable(d, t), Irq(t))
        set == kernel_interrupt_register_irq_handler(removed, Irq(t), h)
    IN  IF removed.err THEN timer_enable(removed, t)
        ELSE IF set.err /\ t = "rtc" THEN set
        ELSE timer_enable(set, t)

pit_enable(d) == timer_enable(d, "pit")
rtc_enable(d) == timer_enable(d, "rtc")
pit_disable(d) == timer_disable(d, "pit")
pit_set_frequency(d) == timer_set_frequency(d, "pit")
rtc_set_frequency(d) == timer_set_frequency(d, "rtc")
pit_set_handler(d, h) == timer_set_handler(d, "pit", h)
rtc_set_handler(d, h) == timer_set_handler(d, "rtc", h)
pit_remove_handler(d) == pit_set_handler(d, "pit_dummy")

pit_init(d) ==
    pit_enable(kernel_interrupt_register_irq_handler(
                   pit_set_frequency([d EXCEPT !.disabled_nesting["pit"] = 1]),
                   PIT_IRQ_LINE, "pit_dummy"))

rtc_init(d) ==
    LET r == kernel_interrupt_set_irq_mask(
                 kernel_interrupt_register_irq_handler(d, RTC_IRQ_LINE, "rtc_dummy"),
                 RTC_IRQ_LINE, TRUE)
    IN  rtc_enable([r EXCEPT !.disabled_nesting["rtc"] = 1])

lapic_timer_enable(d) == [d EXCEPT !.lapic_timer = TRUE]
lapic_timer_disable(d) == [d EXCEPT !.lapic_timer = FALSE]

lapic_timer_set_handler(d, h) ==
    LET removed == kernel_interrupt_remove_int_handler(
                       lapic_timer_disable(d), LAPIC_TIMER_INTERRUPT_LINE)
        set == kernel_interrupt_register_int_handler(removed, LAPIC_TIMER_INTERRUPT_LINE, h)
    IN  IF ~removed.err /\ set.err THEN set
        ELSE lapic_timer_enable(IF removed.err THEN removed ELSE set)

\* the calibration of the LAPIC timer against the PIT, up to the wait
lapic_timer_init(d) ==
    pit_enable(pit_set_handler(pit_set_frequency([d EXCEPT !.wait_int = 1]), "lapic_init_pit"))

\* ... and from the end of the wait
lapic_timer_init_end(d) ==
    lapic_set_int_eoi(lapic_timer_enable(
        kernel_interrupt_register_int_handler(pit_remove_handler(pit_disable(d)),
                                              LAPIC_TIMER_INTERRUPT_LINE, "lapic_dummy")))

\* time_init: the main timer is the LAPIC's, with the PIT as the auxiliary
\* one, or the PIT
time_init_main(d) ==
    IF capable THEN lapic_timer_set_handler(d, "time_main")
    ELSE pit_set_handler(pit_set_frequency(d), "time_main")

time_init_rtc(d) == rtc_set_handler(rtc_set_frequency(d), "time_rtc")

time_init_aux(d) == IF capable THEN pit_set_handler(pit_set_frequency(d), "time_aux") ELSE d

time_init_enable(d) ==
    IF capable THEN pit_enable(rtc_enable(lapic_timer_enable(d))) ELSE rtc_enable(pit_enable(d))

keyboard_init(d) ==
    kernel_interrupt_set_irq_mask(
        kernel_interrupt_register_irq_handler(d, KBD_IRQ_LINE, "keyboard"),
        KBD_IRQ_LINE, TRUE)
-----------------------------------------------------------------------------
(* The handlers and their dispatch                                         *)

TimeSlice == 5   \* 1000 / KERNEL_MAIN_TIMER_FREQ milliseconds

lapic_init_pit_handler(d) ==
    kernel_interrupt_set_irq_eoi(
        [d EXCEPT !.wait_int = IF @ = 1 THEN 2 ELSE 0], PIT_IRQ_LINE)

\* the scheduler's part of the tick is Scheduler's
time_main_timer_handler(d) ==
    kernel_interrupt_set_irq_eoi(
        [d EXCEPT !.active_wait = IF d.scheduler THEN @
                                  ELSE IF @ >= TimeSlice THEN @ - TimeSlice ELSE 0],
        IF capable THEN LAPIC_TIMER_INTERRUPT_LINE ELSE PIT_IRQ_LINE)

pit_dummy_handler(d) == kernel_interrupt_set_irq_eoi(d, PIT_IRQ_LINE)
time_aux_timer_handler(d) == kernel_interrupt_set_irq_eoi(d, PIT_IRQ_LINE)
rtc_dummy_handler(d) == kernel_interrupt_set_irq_eoi(d, RTC_IRQ_LINE)
time_rtc_timer_handler(d) == kernel_interrupt_set_irq_eoi(d, RTC_IRQ_LINE)
lapic_dummy_handler(d) == kernel_interrupt_set_irq_eoi(d, LAPIC_TIMER_INTERRUPT_LINE)
keyboard_interrupt_handler(d) == kernel_interrupt_set_irq_eoi(d, KBD_IRQ_LINE)

Run(d, h) ==
    CASE h = "pit_dummy" -> pit_dummy_handler(d)
      [] h = "rtc_dummy" -> rtc_dummy_handler(d)
      [] h = "lapic_dummy" -> lapic_dummy_handler(d)
      [] h = "lapic_init_pit" -> lapic_init_pit_handler(d)
      [] h = "time_main" -> time_main_timer_handler(d)
      [] h = "time_rtc" -> time_rtc_timer_handler(d)
      [] h = "time_aux" -> time_aux_timer_handler(d)
      [] h = "keyboard" -> keyboard_interrupt_handler(d)
      [] h = "schedule_int" -> [d EXCEPT !.switched = TRUE]
      [] OTHER -> [d EXCEPT !.panic = TRUE]

\* enabled is the interrupt flag of the interrupted code
kernel_interrupt_handler(d, line, enabled) ==
    LET s == handle_spurious(d, line)
    IN  IF ~enabled /\ line \notin {PANIC_INT_LINE, SCHEDULER_SW_INT_LINE}
           /\ line >= MIN_INTERRUPT_LINE
        THEN d
        ELSE IF s.spurious THEN s.dev
        ELSE Run(s.dev, d.handler[line])

cpu_raise_interrupt(d, line) ==
    kernel_interrupt_set_irq_eoi(kernel_interrupt_handler(d, line, interrupts), line)
-----------------------------------------------------------------------------
(* The boot sequence on the main CPU                                       *)

\* the controllers are as the BIOS left them: PIC lines open, no table yet
Init ==
    /\ boot = "interrupts"
    /\ capable \in BOOLEAN
    /\ dev = [handler |-> [l \in Lines |-> NULL], driver |-> "init",
              pic |-> IRQs, io_apic |-> {}, lapic_timer |-> FALSE, serving |-> {},
              disabled_nesting |-> [t \in Timers |-> 0], wait_int |-> 0,
              active_wait |-> 0, scheduler |-> FALSE, switched |-> FALSE,
              err |-> FALSE, panic |-> FALSE]
    /\ interrupts = FALSE
    /\ aps = [a \in APs |-> "off"]
    /\ current = NULL
    /\ init_cpu_count = 1
    /\ init_seq_end = FALSE
    /\ first_sched = FALSE

\* the boot code reaches the call named from, and goes on to the one named to
Call(from, to) ==
    /\ boot = from
    /\ ~dev.err /\ ~dev.panic
    /\ boot' = to
    /\ UNCHANGED capable

\* a call to a driver with interrupts off
DriverCall(from, to, d) ==
    /\ Call(from, to)
    /\ dev' = d
    /\ UNCHANGED <<interrupts, smpVars>>

InterruptManager ==
    DriverCall("interrupts", "controllers",
               kernel_exception_register_handler(kernel_interrupt_init(dev),
                                                 DIV_BY_ZERO_LINE, "div_by_zero"))

Controllers ==
    DriverCall("controllers", "pit",
               IF capable
               THEN pic_disable([io_apic_init(pic_init(dev)) EXCEPT !.driver = "io_apic"])
               ELSE [pic_init(dev) EXCEPT !.driver = "pic"])

Pit == DriverCall("pit", "rtc", pit_init(dev))
Rtc == DriverCall("rtc", IF capable THEN "calibrate" ELSE "time_main", rtc_init(dev))

Calibrate ==
    /\ Call("calibrate", "calibrating")
    /\ dev' = lapic_timer_init(dev)
    /\ interrupts' = TRUE
    /\ UNCHANGED smpVars

Calibrated ==
    /\ Call("calibrating", "time_main")
    /\ dev.wait_int = 0
    /\ dev' = lapic_timer_init_end(dev)
    /\ interrupts' = FALSE
    /\ UNCHANGED smpVars

TimeInit ==
    \/ DriverCall("time_main", "time_rtc", time_init_main(dev))
    \/ DriverCall("time_rtc", "time_aux", time_init_rtc(dev))
    \/ DriverCall("time_aux", "time_enable", time_init_aux(dev))
    \/ DriverCall("time_enable", "keyboard", time_init_enable(dev))

\* cpu_enable_sse, keyboard_init
SseAndKeyboard ==
    DriverCall("keyboard", IF APs = {} \/ ~capable THEN "sched" ELSE "smp",
               keyboard_init(kernel_exception_register_handler(
                                 dev, DEVICE_NOT_FOUND_LINE, "sse_use")))
-----------------------------------------------------------------------------
(* cpu_smp_init, one application processor after the other                 *)

\* time_wait_no_sched(ms) between two windows with interrupts off
Wait(ms) ==
    /\ dev' = [dev EXCEPT !.active_wait = ms]
    /\ interrupts' = TRUE

SendInit ==
    \E a \in APs :
        /\ aps[a] = "off"
        /\ Call("smp", "wait_init")
        /\ aps' = [aps EXCEPT ![a] = "init"]
        /\ current' = [ap |-> a, count |-> init_cpu_count]
        /\ Wait(20)
        /\ UNCHANGED <<init_cpu_count, init_seq_end, first_sched>>

\* an AP may miss the first STARTUP
SendStartup ==
    /\ Call("wait_init", "wait_startup")
    /\ dev.active_wait = 0
    /\ aps' \in {aps, [aps EXCEPT ![current.ap] = "started"]}
    /\ Wait(30)
    /\ UNCHANGED <<current, init_cpu_count, init_seq_end, first_sched>>

\* Mutant: no second STARTUP
StartupOnce ==
    /\ Call("wait_startup", "wait_ap")
    /\ dev.active_wait = 0
    /\ interrupts' = FALSE
    /\ UNCHANGED <<dev, smpVars>>

\* the second STARTUP, which an AP that has started ignores
SendStartupAgain ==
    /\ Call("wait_startup", "wait_ap")
    /\ dev.active_wait = 0
    /\ interrupts' = FALSE
    /\ aps' = IF current.count = init_cpu_count /\ aps[current.ap] = "init"
              THEN [aps EXCEPT ![current.ap] = "started"] ELSE aps
    /\ UNCHANGED <<dev, current, init_cpu_count, init_seq_end, first_sched>>

LastAP == \A a \in APs : aps[a] # "off"

\* Mutant: does not wait for the AP to count itself
NextAPAtOnce ==
    /\ Call("wait_ap", IF LastAP THEN "smp_end" ELSE "smp")
    /\ init_seq_end' = LastAP
    /\ current' = NULL
    /\ UNCHANGED <<dev, interrupts, aps, init_cpu_count, first_sched>>

\* the AP has counted itself; the last one lets them all go on
NextAP ==
    /\ Call("wait_ap", IF LastAP THEN "smp_end" ELSE "smp")
    /\ current.count # init_cpu_count
    /\ init_seq_end' = LastAP
    /\ current' = NULL
    /\ UNCHANGED <<dev, interrupts, aps, init_cpu_count, first_sched>>

AllStarted ==
    /\ Call("smp_end", "sched")
    /\ init_cpu_count >= 1 + Cardinality(APs)
    /\ UNCHANGED <<dev, interrupts, smpVars>>

\* sched_init: the interrupt and the tick lead to the scheduler
SchedInit ==
    DriverCall("sched", "schedule",
               [kernel_interrupt_register_int_handler(dev, SCHEDULER_SW_INT_LINE, "schedule_int")
                   EXCEPT !.scheduler = TRUE])

\* the first schedule leaves the boot code for a thread, whose interrupts
\* are on, and does not return from its interrupt
Schedule ==
    LET d == kernel_interrupt_handler(dev, SCHEDULER_SW_INT_LINE, interrupts)
    IN  /\ Call("schedule", "running")
        /\ dev' = [d EXCEPT !.switched = FALSE]
        /\ first_sched' = d.switched
        /\ interrupts' = d.switched
        /\ UNCHANGED <<aps, current, init_cpu_count, init_seq_end>>

\* a thread gives up the CPU
sched_schedule ==
    /\ Call("running", "running")
    /\ dev' = [cpu_raise_interrupt(dev, SCHEDULER_SW_INT_LINE) EXCEPT !.switched = FALSE]
    /\ UNCHANGED <<interrupts, smpVars>>

BootStep ==
    \/ InterruptManager \/ Controllers \/ Pit \/ Rtc \/ Calibrate \/ Calibrated
    \/ TimeInit \/ SseAndKeyboard \/ SendInit \/ SendStartup \/ SendStartupAgain \/ NextAP
    \/ AllStarted \/ SchedInit \/ Schedule \/ sched_schedule
-----------------------------------------------------------------------------
(* The application processors                                              *)

cpu_ap_core_init(a) ==
    /\ aps[a] = "started"
    /\ aps' = [aps EXCEPT ![a] = "counted"]
    /\ init_cpu_count' = init_cpu_count + 1
    /\ UNCHANGED <<boot, capable, dev, interrupts, current, init_seq_end, first_sched>>

\* the AP leaves the loop on init_seq_end, then the one on first_sched[0]
sched_init_ap(a) ==
    /\ aps[a] = "counted"
    /\ init_seq_end
    /\ first_sched
    /\ aps' = [aps EXCEPT ![a] = "scheduling"]
    /\ UNCHANGED <<boot, capable, dev, interrupts, current, init_cpu_count, init_seq_end,
                   first_sched>>

ApStep == \E a \in APs : cpu_ap_core_init(a) \/ sched_init_ap(a)
-----------------------------------------------------------------------------
(* The hardware                                                            *)

\* lines of the controller in use that reach the CPU
Open == IF dev.driver = "io_apic" THEN dev.io_apic
        ELSE {i \in dev.pic : i < 8 \/ PIC_CASCADING_IRQ \in dev.pic}

Busy(irq) == IF dev.driver = "io_apic" THEN {"lapic"}
             ELSE IF irq > 7 THEN {"master", "slave"} ELSE {"master"}

\* the vector the controller was programmed to send for a line
Vector(irq) == irq + (IF dev.driver = "io_apic" THEN INT_IOAPIC_IRQ_OFFSET
                      ELSE INT_PIC_IRQ_OFFSET)

Interrupted(d, line) ==
    /\ interrupts
    /\ ~dev.panic
    /\ dev' = kernel_interrupt_handler(d, line, interrupts)
    /\ UNCHANGED <<boot, capable, interrupts, smpVars>>

\* a device raises its line, which the controller holds until the end of
\* interrupt
Raise(irq) ==
    /\ irq \in Open
    /\ Busy(irq) \cap dev.serving = {}
    /\ Interrupted([dev EXCEPT !.serving = @ \cup Busy(irq)], Vector(irq))

LapicTick ==
    /\ dev.lapic_timer
    /\ "lapic" \notin dev.serving
    /\ Interrupted([dev EXCEPT !.serving = @ \cup {"lapic"}], LAPIC_TIMER_INTERRUPT_LINE)

\* a line that is gone when the CPU asks for it: 7 of the master, 15
\* through the cascade
Spurious(irq) ==
    /\ dev.driver = "pic"
    /\ irq = 15 => PIC_CASCADING_IRQ \in dev.pic
    /\ "master" \notin dev.serving
    /\ Interrupted([dev EXCEPT !.serving = @ \cup (IF irq = 15 THEN {"master"} ELSE {})],
                   irq + INT_PIC_IRQ_OFFSET)

DevicesNext ==
    \/ BootStep
    \/ ApStep
    \/ \E irq \in {PIT_IRQ_LINE, KBD_IRQ_LINE, RTC_IRQ_LINE} : Raise(irq)
    \/ LapicTick
    \/ \E irq \in SpuriousIRQs : Spurious(irq)
-----------------------------------------------------------------------------
\* Type invariant: the handlers, masks, nesting counts and counters of the
\* drivers, and the stages the APs go through, stay in their ranges.
DevicesTypeOK ==
    /\ capable \in BOOLEAN /\ interrupts \in BOOLEAN
    /\ dev.handler \in [Lines -> Handlers \cup {NULL}]
    /\ dev.pic \subseteq IRQs /\ dev.io_apic \subseteq IRQs
    /\ dev.disabled_nesting \in [Timers -> 0 .. 2]
    /\ dev.wait_int \in 0 .. 2 /\ dev.active_wait \in 0 .. 30
    /\ aps \in [APs -> {"off", "init", "started", "counted", "scheduling"}]
    /\ init_cpu_count \in 1 .. 1 + Cardinality(APs)

\* While the main CPU takes interrupts, every line that can reach it has a
\* handler: kernel_interrupt_handler (interrupts.c 168-177) panics on one
\* that has none, and the drivers change handlers with the line masked.
OpenLinesHandled ==
    interrupts =>
        /\ \A irq \in Open \cap {PIT_IRQ_LINE, KBD_IRQ_LINE, RTC_IRQ_LINE} :
               dev.handler[Vector(irq)] # NULL
        /\ dev.lapic_timer => dev.handler[LAPIC_TIMER_INTERRUPT_LINE] # NULL

\* No start-up call fails and no interrupt panics: a handler is registered
\* on a free line and removed from a taken one (interrupts.c 275, 320).
BootNeverPanics == ~dev.err /\ ~dev.panic

\* After every interrupt, a spurious one too, no controller still waits for
\* an end of interrupt: one that does raises no further line (pic.c 197-280).
NothingLeftInService == dev.serving = {}

\* From its initialisation on, a timer's line is masked exactly while
\* disables outnumber enables, whatever calls of set_frequency and
\* set_handler went on in between (pit.c 124-189, rtc.c 162-228).
MaskFollowsNesting ==
    \A t \in Timers :
        boot \notin {"interrupts", "controllers", "pit", "rtc"} =>
            (dev.disabled_nesting[t] = 0 <=> Irq(t) \in Open)

\* In the PIC the cascade is open exactly while a line of the slave is: an
\* open line behind a closed cascade never arrives (pic.c 136-179).
CascadeFollowsSlave ==
    boot \notin {"interrupts", "controllers"} =>
        (PIC_CASCADING_IRQ \in dev.pic <=> Slave(dev.pic) # {})

\* An AP schedules only after the main CPU has done so, with every AP
\* counted: before, the scheduler's tables are not there (scheduler.c 1200).
ApsScheduleLast ==
    \A a \in APs : aps[a] = "scheduling" =>
        first_sched /\ init_cpu_count = 1 + Cardinality(APs)

\* At most one AP is between its STARTUP and its count at a time: the stack
\* it boots on is chosen by init_cpu_count (kinit.S 242).
OneApStarting ==
    \A a, b \in APs : aps[a] = "started" /\ aps[b] = "started" => a = b

\* The boot sequence ends: the calibration sees its two ticks, the waits
\* run out, a missed STARTUP is made up for, and every CPU schedules.
BootCompletes ==
    <>(boot = "running" /\ first_sched
       /\ (capable => \A a \in APs : aps[a] = "scheduling"))

\* Replacing handlers, frequencies and drivers during the boot never exposes a
\* line without a handler, and no interrupt or call fails.
InterruptsHandled == OpenLinesHandled /\ BootNeverPanics

\* The masks in the controllers are what the drivers' enables and disables ask
\* for, the cascade included.
MasksFollow == MaskFollowsNesting /\ CascadeFollowsSlave

\* The APs come up one at a time and schedule after the main CPU.
ApsInTurn == OneApStarting /\ ApsScheduleLast
=============================================================================
