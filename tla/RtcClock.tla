------------------------------ MODULE RtcClock ------------------------------
(***************************************************************************)
(* rtc_update_time of src/Kernel/Sources/arch/x86/rtc.c: the CMOS clock's  *)
(* registers, in BCD or binary, with hours counted to 12 or to 24, become  *)
(* the time of the day and the date.  CMOS_CENTURY_REGISTER is 0 in this   *)
(* build: no century is read.  The clock stands still while it is read.    *)
(***************************************************************************)
EXTENDS Naturals

CONSTANTS Hours, Sixties,  \* the hours, minutes and seconds shown
          Dates            \* records of day, month and year of the century

VARIABLES cmos,   \* the registers, with the modes of register B
          shown,  \* the time they stand for
          clock   \* day_time and date of rtc.c

clockVars == <<cmos, shown, clock>>

Bcd(n) == (n \div 10) * 16 + (n % 10)

\* the registers as the hardware fills them: hour 0 is 12, and bit 7 is PM
Registers(time, date, binary, full) ==
    LET code(n) == IF binary THEN n ELSE Bcd(n)
        twelve == IF time.hour % 12 = 0 THEN 12 ELSE time.hour % 12
    IN  [seconds |-> code(time.second), minutes |-> code(time.minute),
         hours |-> IF full THEN code(time.hour)
                   ELSE code(twelve) + (IF time.hour >= 12 THEN 128 ELSE 0),
         day |-> code(date.day), month |-> code(date.month), year |-> code(date.year),
         binary |-> binary, full |-> full]

Times == [hour : Hours, minute : Sixties, second : Sixties]

ClockInit ==
    /\ \E time \in Times, date \in Dates, binary, full \in BOOLEAN :
           /\ shown = [time |-> time, date |-> date]
           /\ cmos = Registers(time, date, binary, full)
    /\ clock = [day_time |-> 0, day |-> 0, month |-> 0, year |-> 0, weekday |-> 0]
-----------------------------------------------------------------------------
\* (x & 0x0F) + ((x / 16) * 10)
Binary(x) == (x % 16) + (x \div 16) * 10

\* Mutant: the PM bit is taken for tens of hours
HoursWithPm(c) == IF c.binary THEN c.hours ELSE Binary(c.hours)

\* the hours register in binary, bit 7 kept, then counted to 24
HoursOf(c) ==
    LET low == c.hours % 128
        pm == c.hours >= 128
        h == IF c.binary THEN low ELSE Binary(low)
    IN  IF ~c.full /\ pm THEN (h + 12) % 24 ELSE h

rtc_update_time ==
    LET num(x) == IF cmos.binary THEN x ELSE Binary(x)
        day == num(cmos.day)
        month == num(cmos.month)
        year == num(cmos.year) + 2000
    IN  /\ clock' = [day_time |-> num(cmos.seconds) + 60 * num(cmos.minutes)
                                  + 3600 * HoursOf(cmos),
                     day |-> day, month |-> month, year |-> year,
                     weekday |-> ((day + month + year + year \div 4 + 1) % 7) + 1]
        /\ UNCHANGED <<cmos, shown>>

ClockNext == rtc_update_time
-----------------------------------------------------------------------------
\* In every mode of the CMOS clock the day time and the date read are those
\* shown, noon and midnight of a clock that counts to 12 excepted: there
\* rtc.c 507-510 turns 12 PM into 0 and leaves 12 AM at 12.
ClockRead ==
    clock.month # 0 =>
        /\ clock.day = shown.date.day /\ clock.month = shown.date.month
        /\ clock.year = 2000 + shown.date.year
        /\ \/ ~cmos.full /\ shown.time.hour % 12 = 0
           \/ clock.day_time = shown.time.second + 60 * shown.time.minute
                               + 3600 * shown.time.hour
=============================================================================
