--------------------------- MODULE PlatformProofs ---------------------------
(***************************************************************************)
(* Theorems about the text screen, the disk driver and critical sections,  *)
(* for screens of every size, any number of writers, of drives and of      *)
(* CPUs.  The three share no state.                                        *)
(***************************************************************************)
EXTENDS Console, AtaPio, CriticalSection, TLAPS
-----------------------------------------------------------------------------
(* The text screen.  CursorOnScreen is not inductive: that the cursor is   *)
(* back on the screen when nobody is putting a character has to be known   *)
(* while somebody is.  Debts says who is going to bring it back: a cursor  *)
(* below the screen is left to a writer before its end-of-screen test, a   *)
(* cursor behind the last column to one before its end-of-line test, or,   *)
(* when the line below does not exist either, to one before its            *)
(* end-of-screen test.                                                     *)

Types ==
    /\ x \in Nat /\ y \in 0 .. LINES
    /\ px \in Nat /\ py \in Nat
    /\ last_columns \in [0 .. LINES -> Nat]
    /\ at \in [Writers -> {"idle", "line", "screen", "mark"}]

InScreen == \E w \in Writers : at[w] = "screen"
InLine == \E w \in Writers : at[w] = "line"

Debts ==
    /\ y = LINES => InScreen
    /\ x > COLS - 1 => InLine \/ (y = LINES /\ InScreen)

Inv == Types /\ Debts

\* The initial cursor is at the top left (vga_init).
LEMMA InitInv == ConsoleInit => Inv
  BY ConsoleAssumption DEF ConsoleInit, Inv, Types, Debts, InScreen, InLine, Writers

\* vga_put_cursor_at leaves the cursor on a line of the screen or just below,
\* and MoveTo keeps the types.
LEMMA MoveToTypes ==
    ASSUME Types, NEW l \in Nat, NEW c \in Nat, MoveTo(l, c)
    PROVE  /\ x' \in Nat /\ y' \in 0 .. LINES
           /\ last_columns' \in [0 .. LINES -> Nat]
           /\ Accepts(l, c) => x' = c /\ y' = l
           /\ ~Accepts(l, c) => x' = x /\ y' = y
  <1>1. /\ x' \in Nat /\ y' \in 0 .. LINES
        /\ Accepts(l, c) => x' = c /\ y' = l
        /\ ~Accepts(l, c) => x' = x /\ y' = y
    BY Zenon, ConsoleAssumption DEF Types, MoveTo, vga_put_cursor_at, Accepts
  <1>2. last_columns' \in [0 .. LINES -> Nat]
    BY Zenon, <1>1 DEF Types, MoveTo
  <1> QED  BY Zenon, <1>1, <1>2

\* ScrollUp puts the cursor at the beginning of the last line.
LEMMA ScrollUpTypes ==
    ASSUME Types, ScrollUp
    PROVE  /\ x' = 0 /\ y' = LINES - 1
           /\ px' \in Nat /\ py' \in Nat
           /\ last_columns' \in [0 .. LINES -> Nat]
  <1>1. x' = 0 /\ y' = LINES - 1
    <2>1. vga_put_cursor_at(LINES - 1, 0)
      BY Zenon DEF ScrollUp
    <2>2. Accepts(LINES - 1, 0)
      BY ConsoleAssumption DEF Accepts
    <2> QED  BY Zenon, <2>1, <2>2 DEF vga_put_cursor_at
  <1>2. px' \in Nat /\ py' \in Nat
    BY DEF Types, ScrollUp
  <1>3. last_columns' \in [0 .. LINES -> Nat]
    BY ConsoleAssumption DEF Types, ScrollUp
  <1> QED  BY Zenon, <1>1, <1>2, <1>3

\* A step of a writer that is at neither test takes no debt from anybody.
LEMMA OthersKeep ==
    ASSUME Types, NEW w \in Writers, at[w] \notin {"line", "screen"},
           NEW s \in {"idle", "line", "screen", "mark"}, at' = [at EXCEPT ![w] = s]
    PROVE  /\ at' \in [Writers -> {"idle", "line", "screen", "mark"}]
           /\ InScreen => InScreen'
           /\ InLine => InLine'
  BY Zenon DEF Types, InScreen, InLine

\* Done is one of the two.
LEMMA DoneIs ==
    ASSUME NEW w \in Writers, Done(w)
    PROVE  \E s \in {"idle", "mark"} : at' = [at EXCEPT ![w] = s]
  BY Zenon DEF Done

\* What a control character does to the cursor: it brings it to a column of the
\* screen or leaves it, and never below the last line.
Harmless ==
    /\ x' \in Nat /\ y' \in 0 .. LINES /\ px' \in Nat /\ py' \in Nat
    /\ last_columns' \in [0 .. LINES -> Nat]
    /\ y' = LINES => y = LINES
    /\ x' > COLS - 1 => x > COLS - 1 /\ y' = y

\* Such a step of an idle writer keeps the invariant.
LEMMA ControlInv ==
    ASSUME Inv, NEW w \in Writers, at[w] = "idle", Done(w),
           Harmless
    PROVE  Inv'
  <1>1. PICK s \in {"idle", "mark"} : at' = [at EXCEPT ![w] = s]
    BY Zenon, DoneIs
  <1>2. /\ at' \in [Writers -> {"idle", "line", "screen", "mark"}]
        /\ InScreen => InScreen'
        /\ InLine => InLine'
    BY Zenon, <1>1, OthersKeep DEF Inv
  <1> QED  BY Zenon, <1>2, ConsoleAssumption DEF Harmless, Inv, Types, Debts
-----------------------------------------------------------------------------
LEMMA PutTextInv ==
    ASSUME Inv, NEW w \in Writers, PutText(w)
    PROVE  Inv'
  <1>1. at' = [at EXCEPT ![w] = "line"] /\ at[w] = "idle"
    BY Zenon DEF PutText
  <1>2. /\ at' \in [Writers -> {"idle", "line", "screen", "mark"}]
        /\ InScreen => InScreen'
    BY Zenon, <1>1, OthersKeep DEF Inv
  <1>3. InLine'
    BY Zenon, <1>1 DEF InLine, Inv, Types
  <1> QED  BY <1>2, <1>3 DEF PutText, Inv, Types, Debts

LEMMA EndOfLineInv ==
    ASSUME Inv, NEW w \in Writers, EndOfLine(w)
    PROVE  Inv'
  <1>1. /\ at' = [at EXCEPT ![w] = "screen"] /\ at[w] = "line"
        /\ at' \in [Writers -> {"idle", "line", "screen", "mark"}]
        /\ InScreen'
    BY Zenon DEF EndOfLine, Inv, Types, InScreen
  <1>2. CASE x > COLS - 1
    <2>1. MoveTo(y + 1, 0) /\ y + 1 \in Nat
      BY <1>2, ConsoleAssumption DEF EndOfLine, Inv, Types
    <2>2. /\ x' \in Nat /\ y' \in 0 .. LINES
          /\ last_columns' \in [0 .. LINES -> Nat]
          /\ Accepts(y + 1, 0) => x' = 0 /\ y' = y + 1
          /\ ~Accepts(y + 1, 0) => x' = x /\ y' = y
      BY Zenon, <2>1, MoveToTypes DEF Inv
    <2>3. ~Accepts(y + 1, 0) => y = LINES
      BY ConsoleAssumption DEF Accepts, Inv, Types
    <2> QED  BY <1>1, <2>2, <2>3, ConsoleAssumption DEF EndOfLine, Inv, Types, Debts
  <1>3. CASE ~(x > COLS - 1)
    BY Zenon, <1>1, <1>3 DEF EndOfLine, Inv, Types, Debts
  <1> QED  BY Zenon, <1>2, <1>3

LEMMA EndOfScreenInv ==
    ASSUME Inv, NEW w \in Writers, EndOfScreen(w)
    PROVE  Inv'
  <1>1. PICK s \in {"idle", "mark"} : at' = [at EXCEPT ![w] = s]
    BY Zenon, DoneIs DEF EndOfScreen
  <1>2. /\ at' \in [Writers -> {"idle", "line", "screen", "mark"}]
        /\ InLine => InLine'
    BY Zenon, <1>1 DEF EndOfScreen, Inv, Types, InLine
  <1>3. CASE y >= LINES
    <2>1. ScrollUp
      BY Zenon, <1>3 DEF EndOfScreen
    <2> QED  BY <1>2, <2>1, ScrollUpTypes, ConsoleAssumption DEF Inv, Types, Debts
  <1>4. CASE ~(y >= LINES)
    <2>1. MoveTo(y, x) /\ px' = px /\ py' = py
      BY Zenon, <1>4 DEF EndOfScreen
    <2>2. x' = x /\ y' = y /\ last_columns' \in [0 .. LINES -> Nat]
      BY <2>1, MoveToTypes DEF Inv, Types
    <2> QED  BY <1>2, <1>4, <2>1, <2>2, ConsoleAssumption DEF Inv, Types, Debts
  <1> QED  BY Zenon, <1>3, <1>4

LEMMA BackspaceInv ==
    ASSUME Inv, NEW w \in Writers, Backspace(w)
    PROVE  Inv'
  <1>1. at[w] = "idle" /\ Done(w) /\ px' = px /\ py' = py
    BY Zenon DEF Backspace
  <1>2. CASE x > 0 /\ EraseAt(y, x - 1)
    <2>1. MoveTo(y, x - 1) /\ x - 1 \in Nat
      BY <1>2 DEF EraseAt, Inv, Types
    <2>2. /\ x' \in Nat /\ y' \in 0 .. LINES
          /\ last_columns' \in [0 .. LINES -> Nat]
          /\ y' = y /\ (x' = x - 1 \/ x' = x)
      BY <2>1, MoveToTypes DEF Inv, Types
    <2>3. Harmless
      BY <1>1, <2>2, ConsoleAssumption DEF Harmless, Inv, Types
    <2> QED  BY Zenon, <1>1, <2>3, ControlInv
  <1>3. CASE /\ py < y /\ x = 0
             /\ LET end == IF last_columns[y - 1] >= COLS THEN COLS - 1
                           ELSE last_columns[y - 1]
                IN /\ last_columns' = [last_columns EXCEPT ![y - 1] = end]
                   /\ vga_put_cursor_at(y - 1, end)
    <2> DEFINE end == IF last_columns[y - 1] >= COLS THEN COLS - 1
                      ELSE last_columns[y - 1]
    <2>1. y - 1 \in 0 .. LINES - 1 /\ end \in 0 .. COLS - 1
      BY <1>3, ConsoleAssumption DEF Inv, Types
    <2>2. last_columns' \in [0 .. LINES -> Nat]
      BY <1>3, <2>1, ConsoleAssumption DEF Inv, Types
    <2>3. x' = end /\ y' = y - 1
      BY <1>3, <2>1, ConsoleAssumption DEF vga_put_cursor_at, Accepts
    <2> HIDE DEF end
    <2>4. Harmless
      BY <1>1, <2>1, <2>2, <2>3, ConsoleAssumption DEF Harmless, Inv, Types
    <2> QED  BY Zenon, <1>1, <2>4, ControlInv
  <1>4. CASE UNCHANGED <<x, y, last_columns, cell>>
    <2>1. Harmless
      BY Zenon, <1>1, <1>4 DEF Harmless, Inv, Types
    <2> QED  BY Zenon, <1>1, <2>1, ControlInv
  <1>5. (py = y /\ x > px) => x > 0
    BY DEF Inv, Types
  <1>6. \/ x > 0 /\ EraseAt(y, x - 1)
        \/ /\ py < y /\ x = 0
           /\ LET end == IF last_columns[y - 1] >= COLS THEN COLS - 1
                         ELSE last_columns[y - 1]
              IN /\ last_columns' = [last_columns EXCEPT ![y - 1] = end]
                 /\ vga_put_cursor_at(y - 1, end)
        \/ UNCHANGED <<x, y, last_columns, cell>>
    BY <1>5, Zenon DEF Backspace
  <1> QED  BY Zenon, <1>2, <1>3, <1>4, <1>6

LEMMA TabInv ==
    ASSUME Inv, NEW w \in Writers, Tab(w)
    PROVE  Inv'
  <1> DEFINE c == IF x + TAB < COLS - 1 THEN x + (TAB - (x % TAB)) ELSE COLS - 1
  <1>1. /\ at[w] = "idle" /\ Done(w) /\ px' = px /\ py' = py /\ MoveTo(y, c)
    BY Zenon DEF Tab
  <1>2. x % TAB \in 0 .. TAB - 1
    BY ConsoleAssumption DEF Inv, Types
  <1>3. c \in 0 .. COLS - 1 /\ y \in Nat /\ c \in Nat
    BY <1>2, ConsoleAssumption DEF Inv, Types
  <1> HIDE DEF c
  <1>4. /\ x' \in Nat /\ y' \in 0 .. LINES
        /\ last_columns' \in [0 .. LINES -> Nat]
        /\ y' = y /\ x' = c
    BY <1>1, <1>3, MoveToTypes, ConsoleAssumption DEF Inv, Types, Accepts
  <1>5. Harmless
    BY <1>1, <1>3, <1>4, ConsoleAssumption DEF Harmless, Inv, Types
  <1> QED  BY Zenon, <1>1, <1>5, ControlInv

LEMMA NewLineInv ==
    ASSUME Inv, NEW w \in Writers, NewLine(w)
    PROVE  Inv'
  <1>1. at[w] = "idle" /\ Done(w)
    BY Zenon DEF NewLine
  <1>2. CASE y < LINES - 1
    <2>1. MoveTo(y + 1, 0) /\ px' = px /\ py' = py /\ y + 1 \in Nat
      BY <1>2 DEF NewLine, Inv, Types
    <2>2. x' = 0 /\ y' = y + 1 /\ last_columns' \in [0 .. LINES -> Nat]
      BY <1>2, <2>1, MoveToTypes, ConsoleAssumption DEF Inv, Types, Accepts
    <2>3. Harmless
      BY <1>1, <1>2, <2>1, <2>2, ConsoleAssumption DEF Harmless, Inv, Types
    <2> QED  BY Zenon, <1>1, <2>3, ControlInv
  <1>3. CASE ~(y < LINES - 1)
    <2>1. ScrollUp
      BY Zenon, <1>3 DEF NewLine
    <2>2. /\ x' = 0 /\ y' = LINES - 1 /\ px' \in Nat /\ py' \in Nat
          /\ last_columns' \in [0 .. LINES -> Nat]
      BY Zenon, <2>1, ScrollUpTypes DEF Inv
    <2>3. Harmless
      BY <2>2, ConsoleAssumption DEF Harmless
    <2> QED  BY Zenon, <1>1, <2>3, ControlInv
  <1> QED  BY Zenon, <1>2, <1>3

\* '\f' and '\r'
LEMMA PlainControlInv ==
    ASSUME Inv, NEW w \in Writers, vga_clear_screen(w) \/ CarriageReturn(w)
    PROVE  Inv'
  <1>1. CASE vga_clear_screen(w)
    <2>1. last_columns' \in [0 .. LINES -> Nat]
      BY Zenon, <1>1 DEF vga_clear_screen, Inv, Types
    <2>2. Harmless
      BY Zenon, <1>1, <2>1 DEF Harmless, vga_clear_screen, Inv, Types
    <2> QED  BY Zenon, <1>1, <2>2, ControlInv DEF vga_clear_screen
  <1>2. CASE CarriageReturn(w)
    <2>1. MoveTo(y, 0) /\ y \in Nat
      BY <1>2 DEF CarriageReturn, Inv, Types
    <2>2. /\ x' = 0 /\ y' = y /\ last_columns' \in [0 .. LINES -> Nat]
      BY <2>1, MoveToTypes, ConsoleAssumption DEF Inv, Types, Accepts
    <2>3. Harmless
      BY <1>2, <2>2, ConsoleAssumption DEF Harmless, CarriageReturn, Inv, Types
    <2> QED  BY Zenon, <1>2, <2>3, ControlInv DEF CarriageReturn
  <1> QED  BY Zenon, <1>1, <1>2

LEMMA MarkPrintedInv ==
    ASSUME Inv, NEW w \in Writers, MarkPrinted(w)
    PROVE  Inv'
  <1>1. /\ at' \in [Writers -> {"idle", "line", "screen", "mark"}]
        /\ InScreen => InScreen'
        /\ InLine => InLine'
    BY Zenon, OthersKeep DEF MarkPrinted, Inv
  <1> QED  BY <1>1, ConsoleAssumption DEF MarkPrinted, Inv, Types, Debts

\* Every step of every writer keeps the debts paid.
LEMMA NextInv == Inv /\ [ConsoleNext]_consoleVars => Inv'
  <1> SUFFICES ASSUME Inv, [ConsoleNext]_consoleVars PROVE Inv'
    BY Zenon
  <1>1. CASE ConsoleNext
    <2>1. PICK w \in Writers :
              vga_process_char(w) \/ EndOfLine(w) \/ EndOfScreen(w) \/ MarkPrinted(w)
      BY Zenon, <1>1 DEF ConsoleNext
    <2>2. vga_process_char(w) =>
              \/ PutText(w) \/ Backspace(w) \/ Tab(w) \/ NewLine(w)
              \/ vga_clear_screen(w) \/ CarriageReturn(w)
      BY Zenon DEF vga_process_char
    <2> QED  BY Zenon, <2>1, <2>2, PutTextInv, EndOfLineInv, EndOfScreenInv, BackspaceInv, TabInv,
                NewLineInv, PlainControlInv, MarkPrintedInv
  <1>2. CASE UNCHANGED consoleVars
    BY Zenon, <1>2 DEF consoleVars, Inv, Types, Debts, InScreen, InLine
  <1> QED  BY Zenon, <1>1, <1>2

\* However many threads and interrupts write, and whatever the screen's size,
\* the cursor is on the screen whenever nobody is in the middle of a character
\* (vga_process_char, vga_text.c 217-397).
THEOREM CursorStays == ConsoleSpec => []CursorOnScreen
  <1>1. Inv => CursorOnScreen
    BY ConsoleAssumption DEF Inv, Types, Debts, InScreen, InLine, CursorOnScreen, Printing,
       Columns, Rows
  <1> QED  BY <1>1, InitInv, NextInv, PTL DEF ConsoleSpec
-----------------------------------------------------------------------------
(***************************************************************************)
(* The disks keep what they acknowledge, for any threads, drives, sectors  *)
(* and buffer sizes.  A thread inside a section is alone on its port       *)
(* (Alone), so that the registers still name its drive and its sector when *)
(* the data crosses (Registers), and the port is empty between commands    *)
(* (Empty); what a drive would give back is always the last bytes it was   *)
(* sent (Latest).                                                          *)
(***************************************************************************)
Bytes == [1 .. SectorSize -> {0, Fill}]
Records == [medium : Bytes, cache : Bytes \cup {<<>>}, latest : Bytes]
Jobs == [op : {"read", "write", "flush"}, step : {"command", "transfer", "between"},
         drive : Drives, sector : Sectors, size : Sizes]

DiskTypes ==
    /\ shared \in BOOLEAN
    /\ present \subseteq Drives
    /\ disk \in [Drives -> [Sectors -> Records]]
    /\ selected \in [Ports -> [drive : Drives, sector : Sectors]]
    /\ left \in [Ports -> Nat]
    /\ device_lock \in [Drives -> Callers \cup {"none"}]
    /\ job \in [Callers -> Jobs \cup {NoJob}]

\* A thread inside a section has the lock of its drive, and on a shared port
\* it is the only one inside.
Alone ==
    /\ \A t \in Callers : Inside(t) => device_lock[job[t].drive] = t
    /\ shared => \A t, u \in Callers : Inside(t) /\ Inside(u) => t = u

Registers ==
    \A t \in Callers : Inside(t) =>
        LET r == selected[Port(job[t].drive)]
        IN  r.drive = job[t].drive /\ (Doing(t, "transfer") => r.sector = job[t].sector)

Expected(t) == IF job[t].drive \in present THEN SectorSize \div 2 ELSE 0

Empty ==
    \A p \in Ports :
        \/ left[p] = 0 /\ \A t \in Callers : ~(Doing(t, "transfer") /\ Port(job[t].drive) = p)
        \/ \E t \in Callers : /\ Doing(t, "transfer") /\ Port(job[t].drive) = p
                              /\ left[p] = Expected(t)

Latest == \A d \in Drives, s \in Sectors : Content(disk[d][s]) = disk[d][s].latest

DiskInv == DiskTypes /\ Alone /\ Registers /\ Empty /\ Latest
-----------------------------------------------------------------------------
\* Whatever the size of the buffer, the two loops move one sector.
LEMMA OneSector ==
    ASSUME AtaAssumption, NEW n \in 0 .. SectorSize
    PROVE  WordsMoved(n) = SectorSize \div 2
  BY DEF AtaAssumption, WordsMoved

LEMMA JobTypes ==
    ASSUME AtaAssumption, DiskTypes, NEW t \in Callers, job[t].step # "idle"
    PROVE  /\ job[t] \in Jobs /\ Port(job[t].drive) \in Ports
           /\ job[t].drive \in Drives /\ job[t].sector \in Sectors /\ job[t].size \in Sizes
  <1>1. job[t] \in Jobs
    BY DEF DiskTypes, NoJob
  <1> QED BY Zenon, <1>1 DEF Jobs, Port, Ports

\* Two threads inside sections are on different ports.
LEMMA PortsApart ==
    ASSUME AtaAssumption, DiskInv, NEW t \in Callers, NEW u \in Callers,
           Inside(t), Inside(u), Port(job[t].drive) = Port(job[u].drive)
    PROVE  t = u
  <1>1. CASE shared
    BY Zenon, <1>1 DEF DiskInv, Alone
  <1>2. CASE ~shared
    <2>1. job[t].drive = job[u].drive
      BY Zenon, <1>2 DEF Port
    <2> QED BY Zenon, <2>1 DEF DiskInv, Alone
  <1> QED BY Zenon, <1>1, <1>2

LEMMA SentBytes == ASSUME NEW n PROVE Sent(n) \in Bytes
  BY Zenon DEF Sent, Bytes

\* A buffer of a whole sector is not the mark of an empty cache.
LEMMA NotEmpty == ASSUME AtaAssumption, NEW b \in Bytes PROVE b # <<>>
  <1>1. DOMAIN b = 1 .. SectorSize /\ 1 \in 1 .. SectorSize
    BY DEF Bytes, AtaAssumption
  <1>2. DOMAIN <<>> = 1 .. 0
    OBVIOUS
  <1>3. 1 \notin 1 .. 0
    OBVIOUS
  <1> QED BY Zenon, <1>1, <1>2, <1>3

LEMMA DiskInitInv == ASSUME AtaAssumption, AtaInit PROVE DiskInv
  <1>1. Zeros \in Bytes
    BY Zenon DEF Zeros, Bytes
  <1>2. DiskTypes
    <2>1. shared \in BOOLEAN
      BY Zenon DEF AtaInit
    <2>2. disk \in [Drives -> [Sectors -> Records]]
      BY Zenon, <1>1 DEF AtaInit, Records
    <2>3. (CHOOSE d \in Drives : TRUE) \in Drives /\ (CHOOSE s \in Sectors : TRUE) \in Sectors
      BY Zenon DEF AtaAssumption
    <2>4. selected \in [Ports -> [drive : Drives, sector : Sectors]]
      BY <2>3 DEF AtaInit
    <2>5. job \in [Callers -> Jobs \cup {NoJob}]
      BY Zenon DEF AtaInit
    <2> QED BY Zenon, <2>1, <2>2, <2>4, <2>5 DEF AtaInit, DiskTypes
  <1>3. \A t \in Callers : job[t].step = "idle"
    BY Zenon DEF AtaInit, NoJob
  <1>4. Alone /\ Registers /\ Empty
    BY Zenon, <1>3 DEF AtaInit, Alone, Registers, Empty, Inside, Doing
  <1>5. Latest
    BY Zenon DEF AtaInit, Latest, Content
  <1> QED BY Zenon, <1>2, <1>4, <1>5 DEF DiskInv
-----------------------------------------------------------------------------
\* Entering a section: nobody else is on the port.
LEMMA EnterInv ==
    ASSUME AtaAssumption, DiskInv, NEW t \in Callers, NEW d \in Drives, NEW j \in Jobs,
           j.step = "command", j.drive = d, ~Inside(t), EnterAndSelect(t, d, j),
           UNCHANGED <<shared, present, disk, left>>
    PROVE  DiskInv'
  <1>0. /\ device_lock[d] = "none" /\ (shared => \A u \in Callers : ~Inside(u))
        /\ device_lock' = [device_lock EXCEPT ![d] = t]
        /\ selected' = [selected EXCEPT ![Port(d)].drive = d]
        /\ job' = [job EXCEPT ![t] = j]
        /\ Port(d) \in Ports
    BY Zenon DEF EnterAndSelect, MayEnter, Port, Ports
  <1>1. /\ job'[t] = j /\ \A u \in Callers : u # t => job'[u] = job[u]
        /\ \A u \in Callers : Inside(u)' => u = t \/ Inside(u)
        /\ \A u \in Callers : Doing(u, "transfer")' => u # t /\ Doing(u, "transfer")
        /\ \A u \in Callers : Doing(u, "transfer") => u # t /\ Doing(u, "transfer")'
    BY Zenon, <1>0 DEF DiskInv, DiskTypes, Inside, Doing
  <1>2. DiskTypes'
    <2>1. selected' \in [Ports -> [drive : Drives, sector : Sectors]]
      <3>1. [selected[Port(d)] EXCEPT !.drive = d] \in [drive : Drives, sector : Sectors]
        <4>1. selected[Port(d)] \in [drive : Drives, sector : Sectors]
          BY Zenon, <1>0 DEF DiskInv, DiskTypes
        <4> QED BY Zenon, <4>1
      <3> QED BY Zenon, <1>0, <3>1 DEF DiskInv, DiskTypes
    <2>2. shared' \in BOOLEAN
      BY Zenon DEF DiskInv, DiskTypes
    <2> QED BY Zenon, <1>0, <2>1, <2>2 DEF DiskInv, DiskTypes
  <1>3. Port(job[t].drive)' = Port(d)
    BY Zenon, <1>1 DEF Port
  <1>4. ASSUME NEW u \in Callers, u # t, Inside(u)
        PROVE  ~shared /\ job[u].drive \in Drives /\ job[u].drive # d
    <2>1. job[u].drive \in Drives
      BY Zenon, <1>4, JobTypes DEF DiskInv, Inside
    <2> QED BY Zenon, <1>0, <1>4, <2>1 DEF DiskInv, Alone, AtaAssumption
  <1>5. Alone'
    <2>1. ASSUME NEW u \in Callers, Inside(u)' PROVE device_lock'[job'[u].drive] = u
      <3>1. CASE u = t
        BY Zenon, <1>0, <1>1, <3>1 DEF DiskInv, DiskTypes
      <3>2. CASE u # t
        BY Zenon, <1>0, <1>1, <1>4, <2>1, <3>2 DEF DiskInv, DiskTypes, Alone
      <3> QED BY Zenon, <3>1, <3>2
    <2>2. ASSUME shared', NEW u \in Callers, Inside(u)' PROVE u = t
      BY Zenon, <1>0, <1>1, <2>2
    <2> QED BY Zenon, <2>1, <2>2 DEF Alone
  <1>6. Registers'
    <2>1. ASSUME NEW u \in Callers, Inside(u)'
          PROVE  LET r == selected'[Port(job[u].drive)']
                 IN  r.drive = job'[u].drive /\ (Doing(u, "transfer")' => r.sector = job'[u].sector)
      <3>1. CASE u = t
        BY <1>0, <1>1, <1>3, <3>1 DEF DiskInv, DiskTypes, Doing
      <3>2. CASE u # t
        <4>1. /\ job'[u] = job[u] /\ Inside(u) /\ job[u].drive \in Drives
              /\ Port(job[u].drive)' = Port(job[u].drive)
              /\ Port(job[u].drive) # Port(d) /\ Port(job[u].drive) \in Ports
          BY Zenon, <1>1, <1>4, <2>1, <3>2 DEF Port, Ports
        <4>2. selected'[Port(job[u].drive)] = selected[Port(job[u].drive)]
          BY Zenon, <1>0, <4>1 DEF DiskInv, DiskTypes
        <4> QED BY Zenon, <1>1, <4>1, <4>2 DEF DiskInv, Registers
      <3> QED BY Zenon, <3>1, <3>2
    <2> QED BY Zenon, <2>1 DEF Registers
  <1>7. Empty'
    <2>1. ASSUME NEW u \in Callers, Doing(u, "transfer")
          PROVE  /\ job'[u] = job[u] /\ Port(job[u].drive)' = Port(job[u].drive)
                 /\ Expected(u)' = Expected(u)
      BY Zenon, <1>1, <2>1 DEF Port, Expected
    <2> QED BY <1>1, <2>1 DEF DiskInv, Empty
  <1>8. Latest'
    BY Zenon DEF DiskInv, Latest
  <1> QED BY Zenon, <1>2, <1>5, <1>6, <1>7, <1>8 DEF DiskInv

\* The words that are left on a port of a thread inside belong to it.
LEMMA OwnWords ==
    ASSUME AtaAssumption, DiskInv, NEW t \in Callers, Inside(t)
    PROVE  left[Port(job[t].drive)] = IF Doing(t, "transfer") THEN Expected(t) ELSE 0
  <1>1. Port(job[t].drive) \in Ports
    BY Zenon, JobTypes DEF DiskInv, Inside
  <1>2. \A u \in Callers : Doing(u, "transfer") => Inside(u)
    BY Zenon DEF Doing, Inside
  <1>3. \A u \in Callers : Doing(u, "transfer") /\ Port(job[u].drive) = Port(job[t].drive) => u = t
    BY Zenon, <1>2, PortsApart
  <1> QED BY Zenon, <1>1, <1>3 DEF DiskInv, Empty

\* Leaving a section with the port empty.
LEMMA LeaveInv ==
    ASSUME AtaAssumption, DiskInv, NEW t \in Callers, NEW j \in Jobs \cup {NoJob}, Inside(t),
           j.step \in {"idle", "between"}, Leave(t, j),
           UNCHANGED <<shared, present, selected>>, left' \in [Ports -> Nat],
           left'[Port(job[t].drive)] = 0,
           \A p \in Ports : p # Port(job[t].drive) => left'[p] = left[p],
           disk' \in [Drives -> [Sectors -> Records]], Latest'
    PROVE  DiskInv'
  <1>0. /\ device_lock' = [device_lock EXCEPT ![job[t].drive] = "none"] /\ job' = [job EXCEPT ![t] = j]
        /\ job[t].drive \in Drives /\ Port(job[t].drive) \in Ports
    BY Zenon, JobTypes DEF Leave, DiskInv, Inside
  <1>1. /\ job'[t] = j /\ \A u \in Callers : u # t => job'[u] = job[u]
        /\ \A u \in Callers : Inside(u)' => u # t /\ Inside(u)
        /\ \A u \in Callers : Doing(u, "transfer")' <=> u # t /\ Doing(u, "transfer")
        /\ \A u \in Callers : Doing(u, "transfer") => Inside(u)
    BY Zenon, <1>0 DEF DiskInv, DiskTypes, Inside, Doing
  <1>2. DiskTypes'
    <2>1. shared' \in BOOLEAN
      BY Zenon DEF DiskInv, DiskTypes
    <2> QED BY Zenon, <1>0, <2>1 DEF DiskInv, DiskTypes
  <1>4. \A u \in Callers : u # t /\ Inside(u) =>
            /\ job[u].drive \in Drives /\ job[u].drive # job[t].drive
            /\ Port(job[u].drive) # Port(job[t].drive)
    BY Zenon, PortsApart, JobTypes DEF DiskInv, Inside
  <1>5. Alone'
    BY Zenon, <1>0, <1>1, <1>4 DEF DiskInv, DiskTypes, Alone
  <1>6. Registers'
    <2>1. \A u \in Callers : u # t => Port(job[u].drive)' = Port(job[u].drive)
      BY Zenon, <1>1 DEF Port
    <2> QED BY Zenon, <1>1, <2>1 DEF DiskInv, Registers
  <1>7. Empty'
    <2>1. \A u \in Callers : u # t =>
              Port(job[u].drive)' = Port(job[u].drive) /\ Expected(u)' = Expected(u)
      BY Zenon, <1>1 DEF Port, Expected
    <2>2. ASSUME NEW p \in Ports, p = Port(job[t].drive)
          PROVE  left'[p] = 0 /\ \A u \in Callers :
                     ~(Doing(u, "transfer")' /\ Port(job[u].drive)' = p)
      BY Zenon, <1>1, <1>4, <2>1, <2>2
    <2>3. ASSUME NEW p \in Ports, p # Port(job[t].drive)
          PROVE  \/ left'[p] = 0 /\ \A u \in Callers :
                        ~(Doing(u, "transfer")' /\ Port(job[u].drive)' = p)
                 \/ \E u \in Callers : /\ Doing(u, "transfer")' /\ Port(job[u].drive)' = p
                                       /\ left'[p] = Expected(u)'
      <3>1. left'[p] = left[p]
        BY Zenon, <2>3
      <3>2. CASE left[p] = 0 /\ \A u \in Callers : ~(Doing(u, "transfer") /\ Port(job[u].drive) = p)
        BY Zenon, <1>1, <2>1, <3>1, <3>2
      <3>3. ASSUME NEW u \in Callers, Doing(u, "transfer"), Port(job[u].drive) = p,
                   left[p] = Expected(u)
            PROVE  Doing(u, "transfer")' /\ Port(job[u].drive)' = p /\ left'[p] = Expected(u)'
        <4>1. u # t
          BY Zenon, <2>3, <3>3
        <4> QED BY Zenon, <1>1, <2>1, <3>1, <3>3, <4>1
      <3> QED BY Zenon, <3>2, <3>3 DEF DiskInv, Empty
    <2> QED BY Zenon, <2>2, <2>3 DEF Empty
  <1> QED BY Zenon, <1>2, <1>5, <1>6, <1>7 DEF DiskInv

\* A command fills the port of its thread only.
LEMMA CommandInv == ASSUME AtaAssumption, DiskInv, NEW t \in Callers, Command(t) PROVE DiskInv'
  <1> DEFINE p == Port(job[t].drive)
  <1>0. /\ Inside(t) /\ ~Doing(t, "transfer") /\ job[t] \in Jobs /\ p \in Ports
        /\ job[t].drive \in Drives /\ job[t].sector \in Sectors
    BY Zenon, JobTypes DEF Command, Doing, Inside, DiskInv
  <1>1. /\ selected' = [selected EXCEPT ![p].sector = job[t].sector]
        /\ left' = [left EXCEPT ![p] =
                       @ + IF selected[p].drive \in present THEN SectorSize \div 2 ELSE 0]
        /\ job' = [job EXCEPT ![t].step = "transfer"]
        /\ UNCHANGED <<shared, present, disk, device_lock>>
    BY Zenon DEF Command
  <1>2. left[p] = 0
    BY Zenon, <1>0, OwnWords
  <1>3. selected[p].drive = job[t].drive
    BY Zenon, <1>0 DEF DiskInv, Registers
  <1>4. /\ job'[t] = [job[t] EXCEPT !.step = "transfer"] /\ job'[t] \in Jobs
        /\ job'[t].drive = job[t].drive /\ job'[t].sector = job[t].sector
        /\ job'[t].step = "transfer"
        /\ \A u \in Callers : u # t => job'[u] = job[u]
    BY Zenon, <1>0, <1>1 DEF DiskInv, DiskTypes, Jobs
  <1>5. /\ \A u \in Callers : Inside(u)' <=> Inside(u)
        /\ \A u \in Callers : Doing(u, "transfer")' <=> u = t \/ Doing(u, "transfer")
        /\ \A u \in Callers : Port(job[u].drive)' = Port(job[u].drive)
        /\ \A u \in Callers : Doing(u, "transfer") => Inside(u) /\ u # t
    BY <1>0, <1>1, <1>4 DEF Inside, Doing, Port
  <1>6. \A u \in Callers : u # t /\ Inside(u) =>
            Port(job[u].drive) # p /\ Port(job[u].drive) \in Ports
    BY Zenon, <1>0, PortsApart, JobTypes DEF DiskInv, Inside
  <1>7. DiskTypes'
    <2>1. selected' \in [Ports -> [drive : Drives, sector : Sectors]]
      BY Zenon, <1>0, <1>1 DEF DiskInv, DiskTypes
    <2>2. shared' \in BOOLEAN
      BY <1>1, Zenon DEF DiskInv, DiskTypes
    <2>3. SectorSize \div 2 \in Nat
      BY DEF AtaAssumption
    <2>4. left' \in [Ports -> Nat]
      BY <1>0, <1>1, <2>3 DEF DiskInv, DiskTypes
    <2>5. job' \in [Callers -> Jobs \cup {NoJob}]
      BY Zenon, <1>1, <1>4 DEF DiskInv, DiskTypes
    <2> QED BY Zenon, <1>1, <2>1, <2>2, <2>4, <2>5 DEF DiskInv, DiskTypes
  <1>8. Alone'
    BY <1>1, <1>4, <1>5 DEF DiskInv, Alone
  <1>9. Registers'
    <2>1. ASSUME NEW u \in Callers, Inside(u)'
          PROVE  LET r == selected'[Port(job[u].drive)']
                 IN  r.drive = job'[u].drive /\ (Doing(u, "transfer")' => r.sector = job'[u].sector)
      <3>1. CASE u = t
        BY <1>0, <1>1, <1>3, <1>4, <1>5, <3>1 DEF DiskInv, DiskTypes
      <3>2. CASE u # t
        <4>1. selected'[Port(job[u].drive)] = selected[Port(job[u].drive)]
          BY Zenon, <1>1, <1>5, <1>6, <2>1, <3>2 DEF DiskInv, DiskTypes
        <4> QED BY <1>4, <1>5, <2>1, <3>2, <4>1 DEF DiskInv, Registers
      <3> QED BY Zenon, <3>1, <3>2
    <2> QED BY Zenon, <2>1 DEF Registers
  <1>10. Empty'
    <2>1. /\ left'[p] = Expected(t)'
          /\ \A q \in Ports : q # p => left'[q] = left[q]
          /\ \A u \in Callers : u # t => Expected(u)' = Expected(u)
      <3>1. Expected(t)' = IF job[t].drive \in present THEN SectorSize \div 2 ELSE 0
        BY <1>1, <1>4 DEF Expected
      <3>2. left'[p] = 0 + IF selected[p].drive \in present THEN SectorSize \div 2 ELSE 0
        BY Zenon, <1>0, <1>1, <1>2 DEF DiskInv, DiskTypes
      <3>3. SectorSize \div 2 \in Nat
        BY DEF AtaAssumption
      <3>4. left'[p] = Expected(t)'
        BY <1>3, <3>1, <3>2, <3>3
      <3>5. \A q \in Ports : q # p => left'[q] = left[q]
        BY Zenon, <1>1 DEF DiskInv, DiskTypes
      <3>6. \A u \in Callers : u # t => Expected(u)' = Expected(u)
        BY <1>1, <1>4 DEF Expected
      <3> QED BY Zenon, <3>4, <3>5, <3>6
    <2>2. ASSUME NEW q \in Ports, q # p
          PROVE  \/ left'[q] = 0 /\ \A u \in Callers :
                        ~(Doing(u, "transfer")' /\ Port(job[u].drive)' = q)
                 \/ \E u \in Callers : /\ Doing(u, "transfer")' /\ Port(job[u].drive)' = q
                                       /\ left'[q] = Expected(u)'
      <3>1. left'[q] = left[q]
        BY Zenon, <2>1, <2>2
      <3>2. CASE left[q] = 0 /\ \A u \in Callers : ~(Doing(u, "transfer") /\ Port(job[u].drive) = q)
        BY Zenon, <1>5, <2>2, <3>1, <3>2
      <3>3. ASSUME NEW u \in Callers, Doing(u, "transfer"), Port(job[u].drive) = q,
                   left[q] = Expected(u)
            PROVE  Doing(u, "transfer")' /\ Port(job[u].drive)' = q /\ left'[q] = Expected(u)'
        BY Zenon, <1>5, <2>1, <3>1, <3>3
      <3> QED BY Zenon, <3>2, <3>3 DEF DiskInv, Empty
    <2>3. Doing(t, "transfer")' /\ Port(job[t].drive)' = p /\ left'[p] = Expected(t)'
      BY Zenon, <1>5, <2>1
    <2> QED BY Zenon, <2>2, <2>3 DEF Empty
  <1>11. Latest'
    BY Zenon, <1>1 DEF DiskInv, Latest
  <1> QED BY Zenon, <1>7, <1>8, <1>9, <1>10, <1>11 DEF DiskInv

\* A transfer of t is to or from its own drive and sector, and empties the port.
LEMMA Transfer ==
    ASSUME AtaAssumption, DiskInv, NEW t \in Callers, Doing(t, "transfer")
    PROVE  /\ Inside(t) /\ Port(job[t].drive) \in Ports
           /\ job[t] \in Jobs /\ job[t].drive \in Drives /\ job[t].sector \in Sectors
           /\ selected[Port(job[t].drive)].drive = job[t].drive
           /\ selected[Port(job[t].drive)].sector = job[t].sector
           /\ left[Port(job[t].drive)] = Expected(t)
           /\ job[t].drive \in present =>
                  left[Port(job[t].drive)] - WordsMoved(job[t].size) = 0
  <1>1. Inside(t) /\ job[t].step # "idle"
    BY Zenon DEF Doing, Inside
  <1>2. left[Port(job[t].drive)] = Expected(t)
    BY Zenon, <1>1, OwnWords
  <1>3. job[t].size \in 0 .. SectorSize
    BY Zenon, <1>1, JobTypes DEF DiskInv, AtaAssumption
  <1>4. WordsMoved(job[t].size) = SectorSize \div 2 /\ SectorSize \div 2 \in Nat
    BY <1>3, OneSector DEF AtaAssumption
  <1>5. job[t].drive \in present => left[Port(job[t].drive)] - WordsMoved(job[t].size) = 0
    BY <1>2, <1>4 DEF Expected
  <1> QED BY Zenon, <1>1, <1>2, <1>5, JobTypes DEF DiskInv, Registers

LEMMA ReadInv == ASSUME AtaAssumption, DiskInv, NEW t \in Callers, ata_pio_read_sector(t) PROVE DiskInv'
  <1> DEFINE p == Port(job[t].drive)
  <1>0. Doing(t, "transfer")
    BY Zenon DEF ata_pio_read_sector
  <1>1. /\ Inside(t) /\ p \in Ports /\ selected[p].drive = job[t].drive
        /\ left[p] = Expected(t)
        /\ job[t].drive \in present => left[p] - WordsMoved(job[t].size) = 0
    BY Zenon, <1>0, Transfer
  <1>2. /\ Leave(t, NoJob) /\ UNCHANGED <<shared, present, disk, selected>>
        /\ \/ job[t].drive \notin present /\ UNCHANGED left
           \/ left' = [left EXCEPT ![p] = 0]
           \/ /\ job[t].drive \in present
              /\ left' = [left EXCEPT ![p] = @ - WordsMoved(job[t].size)]
    BY Zenon, <1>1 DEF ata_pio_read_sector, Absent, DeviceError, Move
  <1>3. /\ left' \in [Ports -> Nat] /\ left'[p] = 0
        /\ \A q \in Ports : q # p => left'[q] = left[q]
    BY <1>1, <1>2 DEF DiskInv, DiskTypes, Expected
  <1>4. disk' \in [Drives -> [Sectors -> Records]] /\ Latest'
    BY Zenon, <1>2 DEF DiskInv, DiskTypes, Latest
  <1>5. NoJob \in Jobs \cup {NoJob} /\ NoJob.step \in {"idle", "between"}
    BY Zenon DEF NoJob
  <1> QED BY Zenon, <1>1, <1>2, <1>3, <1>4, <1>5, LeaveInv

LEMMA WriteInv == ASSUME AtaAssumption, DiskInv, NEW t \in Callers, write_section(t) PROVE DiskInv'
  <1> DEFINE p == Port(job[t].drive)
             d == job[t].drive
             s == job[t].sector
             b == Sent(job[t].size)
             r == [disk[d][s] EXCEPT !.cache = b, !.latest = b]
             j == [job[t] EXCEPT !.op = "flush", !.step = "between"]
  <1>0. Doing(t, "transfer")
    BY Zenon DEF write_section
  <1>1. /\ Inside(t) /\ p \in Ports /\ job[t] \in Jobs /\ d \in Drives /\ s \in Sectors
        /\ selected[p].drive = d /\ selected[p].sector = s /\ left[p] = Expected(t)
        /\ d \in present => left[p] - WordsMoved(job[t].size) = 0
    BY Zenon, <1>0, Transfer
  <1>2. /\ Leave(t, j) /\ UNCHANGED <<shared, present, selected>>
        /\ \/ /\ d \in present
              /\ disk' = [disk EXCEPT ![d][s] = r]
              /\ left' = [left EXCEPT ![p] = @ - WordsMoved(job[t].size)]
           \/ d \notin present /\ UNCHANGED <<disk, left>>
    BY Zenon, <1>1 DEF write_section, Move
  <1>3. /\ left' \in [Ports -> Nat] /\ left'[p] = 0
        /\ \A q \in Ports : q # p => left'[q] = left[q]
    <2>1. left \in [Ports -> Nat]
      BY Zenon DEF DiskInv, DiskTypes
    <2>2. CASE d \in present
      <3>1. left' = [left EXCEPT ![p] = left[p] - WordsMoved(job[t].size)]
        BY Zenon, <1>2, <2>2
      <3>2. left[p] - WordsMoved(job[t].size) = 0 /\ p \in Ports
        BY Zenon, <1>1, <2>2
      <3> HIDE DEF p
      <3> QED BY <2>1, <3>1, <3>2
    <2>3. CASE d \notin present
      BY Zenon, <1>1, <1>2, <2>1, <2>3 DEF Expected
    <2> QED BY Zenon, <2>2, <2>3
  <1>4. b \in Bytes /\ b # <<>>
    BY Zenon, SentBytes, NotEmpty
  <1>5. disk' \in [Drives -> [Sectors -> Records]] /\ Latest'
    <2>1. CASE disk' = [disk EXCEPT ![d][s] = r]
      <3>1. disk \in [Drives -> [Sectors -> Records]] /\ d \in Drives /\ s \in Sectors
        BY Zenon, <1>1 DEF DiskInv, DiskTypes
      <3> HIDE DEF d, s, b
      <3>2. r \in Records /\ r.cache = b /\ r.latest = b
        <4>1. disk[d][s] \in Records
          BY Zenon, <3>1
        <4>2. ASSUME NEW o \in Records, NEW c \in Bytes
              PROVE  LET n == [o EXCEPT !.cache = c, !.latest = c]
                     IN  n \in Records /\ n.cache = c /\ n.latest = c
          BY Zenon DEF Records
        <4> QED BY Zenon, <1>4, <4>1, <4>2
      <3> HIDE DEF r
      <3>3. /\ disk' \in [Drives -> [Sectors -> Records]] /\ disk'[d][s] = r
            /\ \A e \in Drives, q \in Sectors : e # d \/ q # s => disk'[e][q] = disk[e][q]
        <4> DEFINE row == [disk[d] EXCEPT ![s] = r]
        <4>1. disk' = [disk EXCEPT ![d] = row]
          BY Zenon, <2>1
        <4>2. /\ row \in [Sectors -> Records] /\ row[s] = r
              /\ \A q \in Sectors : q # s => row[q] = disk[d][q]
          BY Zenon, <3>1, <3>2
        <4> HIDE DEF row
        <4>3. /\ disk' \in [Drives -> [Sectors -> Records]] /\ disk'[d] = row
              /\ \A e \in Drives : e # d => disk'[e] = disk[e]
          BY Zenon, <3>1, <4>1, <4>2
        <4> QED BY Zenon, <4>2, <4>3
      <3> QED BY <1>4, <3>2, <3>3 DEF DiskInv, Latest, Content
    <2>2. CASE UNCHANGED disk
      BY Zenon, <2>2 DEF DiskInv, DiskTypes, Latest
    <2> QED BY Zenon, <1>2, <2>1, <2>2
  <1>7. j \in Jobs \cup {NoJob} /\ j.step \in {"idle", "between"}
    BY Zenon, <1>1 DEF Jobs
  <1> HIDE DEF j
  <1> QED BY Zenon, <1>1, <1>2, <1>3, <1>5, <1>7, LeaveInv

\* A flush stores the whole cache of its own drive, and changes no content.
LEMMA Flushed ==
    ASSUME AtaAssumption, DiskInv, NEW t \in Callers, ata_pio_flush(t)
    PROVE  /\ Inside(t) /\ job[t] \in Jobs /\ Leave(t, NoJob)
           /\ left[Port(job[t].drive)] = 0
           /\ answer'.what \in {"absent", "error", "written"}
           /\ answer'.drive = job[t].drive /\ answer'.sector = job[t].sector
           /\ answer'.drive \in Drives /\ answer'.sector \in Sectors
           /\ disk' \in [Drives -> [Sectors -> Records]] /\ Latest'
           /\ answer'.what = "written" => \A s \in Sectors :
                  disk'[job[t].drive][s].medium = disk'[job[t].drive][s].latest
  <1> DEFINE d == job[t].drive
  <1>1. /\ Inside(t) /\ ~Doing(t, "transfer") /\ job[t] \in Jobs /\ Leave(t, NoJob)
        /\ d \in Drives /\ job[t].sector \in Sectors
    BY Zenon, JobTypes DEF ata_pio_flush, Doing, Inside, DiskInv
  <1>2. left[Port(d)] = 0
    BY Zenon, <1>1, OwnWords
  <1>3. selected[Port(d)].drive = d
    BY Zenon, <1>1 DEF DiskInv, Registers
  <1>4. /\ answer'.what \in {"absent", "error", "written"}
        /\ answer'.drive = d /\ answer'.sector = job[t].sector
        /\ \/ answer'.what # "written" /\ disk' = disk
           \/ /\ answer'.what = "written"
              /\ disk' = [disk EXCEPT ![d] = [s \in Sectors |-> Stored(disk[d][s])]]
    BY <1>3 DEF ata_pio_flush, Absent, DeviceError, Answer
  <1>5. disk \in [Drives -> [Sectors -> Records]] /\ Latest
    BY Zenon DEF DiskInv, DiskTypes
  <1>6. CASE disk' = [disk EXCEPT ![d] = [s \in Sectors |-> Stored(disk[d][s])]]
    <2>1. ASSUME NEW r \in Records
          PROVE  /\ Stored(r) \in Records /\ Stored(r).latest = r.latest
                 /\ Stored(r).medium = Content(r) /\ Content(Stored(r)) = Content(r)
      BY Zenon DEF Stored, Content, Records
    <2> HIDE DEF d
    <2>2. d \in Drives
      BY Zenon, <1>1 DEF d
    <2>3. /\ \A s \in Sectors : disk'[d][s] = Stored(disk[d][s]) /\ disk[d][s] \in Records
          /\ \A e \in Drives : e # d => disk'[e] = disk[e]
      BY Zenon, <1>5, <1>6, <2>2
    <2>4. [s \in Sectors |-> Stored(disk[d][s])] \in [Sectors -> Records]
      BY Zenon, <2>1, <2>3
    <2>5. disk' \in [Drives -> [Sectors -> Records]]
      BY Zenon, <1>5, <1>6, <2>4
    <2>6. Latest'
      BY <1>5, <2>1, <2>3 DEF Latest
    <2>7. \A s \in Sectors : disk'[d][s].medium = disk'[d][s].latest
      BY <1>5, <2>1, <2>2, <2>3 DEF Latest
    <2> QED BY Zenon, <1>1, <1>2, <1>4, <2>5, <2>6, <2>7 DEF d
  <1>7. CASE disk' = disk /\ answer'.what # "written"
    BY Zenon, <1>1, <1>2, <1>4, <1>5, <1>7 DEF Latest
  <1> QED BY Zenon, <1>4, <1>6, <1>7

LEMMA FlushInv == ASSUME AtaAssumption, DiskInv, NEW t \in Callers, ata_pio_flush(t) PROVE DiskInv'
  <1>1. UNCHANGED <<shared, present, selected, left>> /\ left \in [Ports -> Nat]
    BY Zenon DEF ata_pio_flush, DiskInv, DiskTypes
  <1>2. NoJob \in Jobs \cup {NoJob} /\ NoJob.step \in {"idle", "between"}
    BY Zenon DEF NoJob
  <1> QED BY Zenon, <1>1, <1>2, Flushed, LeaveInv

LEMMA StartInv ==
    ASSUME AtaAssumption, DiskInv, NEW t \in Callers, NEW op \in {"read", "write"},
           NEW d \in Drives, NEW s \in Sectors, NEW size \in Sizes, Start(t, op, d, s, size)
    PROVE  DiskInv'
  <1> DEFINE j == [op |-> op, step |-> "command", drive |-> d, sector |-> s, size |-> size]
  <1>1. j \in Jobs /\ j.step = "command" /\ j.drive = d
    BY Zenon DEF Jobs
  <1>2. ~Inside(t) /\ EnterAndSelect(t, d, j) /\ UNCHANGED <<shared, present, disk, left>>
    BY Zenon DEF Start, Doing, Inside
  <1> HIDE DEF j
  <1> QED BY Zenon, <1>1, <1>2, EnterInv

LEMMA FlushSelectInv ==
    ASSUME AtaAssumption, DiskInv, NEW t \in Callers, FlushSelect(t) PROVE DiskInv'
  <1> DEFINE j == [job[t] EXCEPT !.step = "command"]
  <1>1. /\ job[t] \in Jobs /\ job[t].drive \in Drives /\ ~Inside(t)
    BY Zenon, JobTypes DEF FlushSelect, Doing, Inside, DiskInv
  <1>2. j \in Jobs /\ j.step = "command" /\ j.drive = job[t].drive
    BY Zenon, <1>1 DEF Jobs
  <1>3. EnterAndSelect(t, job[t].drive, j) /\ UNCHANGED <<shared, present, disk, left>>
    BY Zenon DEF FlushSelect
  <1> HIDE DEF j
  <1> QED BY Zenon, <1>1, <1>2, <1>3, EnterInv

LEMMA DiskNextInv == ASSUME AtaAssumption, DiskInv, [AtaNext]_ataVars PROVE DiskInv'
  <1>1. ASSUME NEW t \in Callers,
               \/ \E op \in {"read", "write"}, d \in Drives, s \in Sectors, size \in Sizes :
                      Start(t, op, d, s, size)
               \/ Command(t) \/ ata_pio_read_sector(t) \/ write_section(t)
               \/ FlushSelect(t) \/ ata_pio_flush(t)
        PROVE  DiskInv'
    BY Zenon, <1>1, StartInv, CommandInv, ReadInv, WriteInv, FlushSelectInv, FlushInv
  <1>2. CASE UNCHANGED ataVars
    BY <1>2 DEF ataVars, DiskInv, DiskTypes, Alone, Registers, Empty, Latest, Expected, Inside, Doing,
                Port, Content
  <1> QED BY Zenon, <1>1, <1>2 DEF AtaNext
-----------------------------------------------------------------------------
\* What the last call answered stays true: a sector changes only while some
\* thread is rewriting it, and that call ends with an answer of its own.
Rewrites(t) ==
    /\ job[t].op \in {"write", "flush"}
    /\ job[t].drive = answer.drive /\ job[t].sector = answer.sector

Told ==
    /\ answer.what = "written" => answer.drive \in Drives /\ answer.sector \in Sectors
    /\ WrittenIsStored /\ ReadIsLatest

\* Steps that answer nothing.
LEMMA QuietTold ==
    ASSUME Told, UNCHANGED answer, \A t \in Callers : Rewrites(t) => Rewrites(t)',
           answer.what = "written" =>
               \/ disk'[answer.drive][answer.sector] = disk[answer.drive][answer.sector]
               \/ \E t \in Callers : Rewrites(t)'
    PROVE  Told'
  <1>1. WrittenIsStored'
    BY Zenon DEF Told, WrittenIsStored, Rewrites
  <1>2. ReadIsLatest'
    BY Zenon DEF Told, ReadIsLatest
  <1> QED BY Zenon, <1>1, <1>2 DEF Told

LEMMA NextTold == ASSUME AtaAssumption, DiskInv, Told, [AtaNext]_ataVars PROVE Told'
  <1>0. job \in [Callers -> Jobs \cup {NoJob}] /\ NoJob.op = "none"
    BY Zenon DEF DiskInv, DiskTypes, NoJob
  <1>1. ASSUME NEW t \in Callers, NEW op, NEW d, NEW s, NEW size, Start(t, op, d, s, size)
        PROVE  Told'
    <2>1. /\ UNCHANGED <<answer, disk>> /\ Doing(t, "idle")
          /\ \A u \in Callers : u # t => job'[u] = job[u]
      BY Zenon, <1>0, <1>1 DEF Start, EnterAndSelect
    <2>2. job[t] = NoJob
      BY Zenon, <1>0, <2>1 DEF Doing, Jobs
    <2>3. \A u \in Callers : Rewrites(u) => Rewrites(u)'
      BY Zenon, <1>0, <2>1, <2>2 DEF Rewrites
    <2> QED BY Zenon, <2>1, <2>3, QuietTold
  <1>2. ASSUME NEW t \in Callers, Command(t) \/ FlushSelect(t) PROVE Told'
    <2>1. job[t] \in Jobs
      BY Zenon, <1>2, JobTypes DEF Command, FlushSelect, Doing, DiskInv
    <2>2. UNCHANGED <<answer, disk>> /\ \E q : job' = [job EXCEPT ![t] = [job[t] EXCEPT !.step = q]]
      BY Zenon, <1>2 DEF Command, FlushSelect, EnterAndSelect
    <2>3. \A u \in Callers : Rewrites(u) => Rewrites(u)'
      BY <1>0, <2>1, <2>2 DEF Rewrites, Jobs
    <2> QED BY Zenon, <2>2, <2>3, QuietTold
  <1>3. ASSUME NEW t \in Callers, ata_pio_read_sector(t) PROVE Told'
    <2>1. /\ job[t].drive \in Drives /\ job[t].sector \in Sectors
          /\ selected[Port(job[t].drive)].drive = job[t].drive
          /\ selected[Port(job[t].drive)].sector = job[t].sector
      BY Zenon, <1>3, Transfer DEF ata_pio_read_sector
    <2>2. \/ answer'.what \in {"absent", "error"}
          \/ /\ answer'.what = "read"
             /\ answer'.data = Content(disk[job[t].drive][job[t].sector])
             /\ answer'.latest = disk[job[t].drive][job[t].sector].latest
      <3>1. CASE Absent(t) \/ DeviceError(t)
        BY <3>1 DEF Absent, DeviceError, Answer
      <3>2. CASE answer' = [what |-> "read",
                            data |-> Content(disk[job[t].drive][job[t].sector]),
                            latest |-> disk[job[t].drive][job[t].sector].latest]
        BY Zenon, <3>2
      <3> QED BY Zenon, <1>3, <2>1, <3>1, <3>2 DEF ata_pio_read_sector
    <2>3. answer'.what # "written" /\ ReadIsLatest'
      BY Zenon, <2>1, <2>2 DEF DiskInv, Latest, ReadIsLatest
    <2> QED BY Zenon, <2>3 DEF Told, WrittenIsStored
  <1>4. ASSUME NEW t \in Callers, write_section(t) PROVE Told'
    <2> DEFINE d == job[t].drive
               s == job[t].sector
    <2>1. /\ d \in Drives /\ s \in Sectors /\ job[t] \in Jobs
          /\ selected[Port(d)].drive = d /\ selected[Port(d)].sector = s
      BY Zenon, <1>4, Transfer DEF write_section
    <2>2. /\ UNCHANGED answer
          /\ job' = [job EXCEPT ![t] = [job[t] EXCEPT !.op = "flush", !.step = "between"]]
          /\ \/ \E r : disk' = [disk EXCEPT ![d][s] = r]
             \/ UNCHANGED disk
      BY Zenon, <1>4, <2>1 DEF write_section, Leave
    <2>3. /\ job'[t].op = "flush" /\ job'[t].drive = d /\ job'[t].sector = s
          /\ \A u \in Callers : u # t => job'[u] = job[u]
      BY Zenon, <1>0, <2>1, <2>2 DEF Jobs
    <2>4. \A u \in Callers : Rewrites(u) => Rewrites(u)'
      BY Zenon, <2>2, <2>3 DEF Rewrites
    <2>5. CASE d = answer.drive /\ s = answer.sector
      <3>1. Rewrites(t)'
        BY Zenon, <2>2, <2>3, <2>5 DEF Rewrites
      <3> QED BY Zenon, <2>2, <2>4, <3>1, QuietTold
    <2>6. CASE d # answer.drive \/ s # answer.sector
      <3>1. ASSUME answer.what = "written"
            PROVE  disk'[answer.drive][answer.sector] = disk[answer.drive][answer.sector]
        <4>1. /\ answer.drive \in Drives /\ answer.sector \in Sectors
              /\ disk \in [Drives -> [Sectors -> Records]]
          BY Zenon, <3>1 DEF Told, DiskInv, DiskTypes
        <4> HIDE DEF d, s
        <4>2. CASE UNCHANGED disk
          BY Zenon, <4>2
        <4>3. ASSUME NEW r, disk' = [disk EXCEPT ![d][s] = r]
              PROVE  disk'[answer.drive][answer.sector] = disk[answer.drive][answer.sector]
          BY Zenon, <2>6, <4>1, <4>3
        <4> QED BY Zenon, <2>2, <4>2, <4>3
      <3> QED BY Zenon, <2>2, <2>4, <3>1, QuietTold
    <2> QED BY Zenon, <2>5, <2>6
  <1>5. ASSUME NEW t \in Callers, ata_pio_flush(t) PROVE Told'
    <2>1. /\ answer'.what \in {"absent", "error", "written"}
          /\ answer'.drive = job[t].drive /\ answer'.sector = job[t].sector
          /\ answer'.drive \in Drives /\ answer'.sector \in Sectors
          /\ answer'.what = "written" => \A s \in Sectors :
                 disk'[job[t].drive][s].medium = disk'[job[t].drive][s].latest
      BY Zenon, <1>5, Flushed
    <2> QED BY Zenon, <2>1 DEF Told, WrittenIsStored, ReadIsLatest
  <1>6. CASE UNCHANGED ataVars
    <2>1. UNCHANGED <<answer, disk, job>>
      BY Zenon, <1>6 DEF ataVars
    <2>2. \A u \in Callers : Rewrites(u) => Rewrites(u)'
      BY Zenon, <2>1 DEF Rewrites
    <2> QED BY Zenon, <2>1, <2>2, QuietTold
  <1> QED BY Zenon, <1>1, <1>2, <1>3, <1>4, <1>5, <1>6 DEF AtaNext

\* The words that may still cross a port belong to a transfer that is under way.
LEMMA Ready == ASSUME AtaAssumption, DiskInv PROVE TransfersComplete
  <1>1. \A n \in 0 .. SectorSize : WordsMoved(n) = SectorSize \div 2
    BY Zenon, OneSector
  <1> QED BY Zenon, <1>1 DEF DiskInv, Empty, TransfersComplete

\* The disks keep what ata_pio_write_sector acknowledged, ata_pio_read_sector
\* gives it back, and every command moves one sector, for any threads, drives,
\* sectors and buffers that fit in a sector (ata_pio.c 221-541).
THEOREM DisksKeep == ASSUME AtaAssumption PROVE AtaSpec => []DiskKeeps
  <1>1. AtaInit => DiskInv /\ Told
    <2>1. AtaInit => answer.what = "none"
      BY DEF AtaInit
    <2> QED BY Zenon, <2>1, DiskInitInv DEF Told, WrittenIsStored, ReadIsLatest
  <1>2. (DiskInv /\ Told) /\ [AtaNext]_ataVars => (DiskInv /\ Told)'
    BY Zenon, DiskNextInv, NextTold
  <1>3. DiskInv /\ Told => DiskKeeps
    BY Zenon, Ready DEF Told, DiskKeeps
  <1> QED BY <1>1, <1>2, <1>3, PTL DEF AtaSpec
-----------------------------------------------------------------------------
(***************************************************************************)
(* Mutual exclusion of ENTER_CRITICAL / EXIT_CRITICAL for any number of    *)
(* CPUs and threads, under the discipline of CriticalSection!Spec: no      *)
(* section of a lock inside one of the same lock, no call of the scheduler *)
(* inside a section, and the second CPU counted outside of any section.    *)
(***************************************************************************)
\* Interrupts are off from ENTER_CRITICAL to the end of EXIT_CRITICAL: a
\* thread between them is the one its CPU executes.
Pinned ==
    \A t \in Threads :
        pc[t] # "out" => running[Affinity[t]] = t /\ Affinity[t] < booted

\* Sections do not nest.
Flat == \A t \in Threads :
            depth[t] = IF pc[t] \in {"in", "zero", "release"} THEN 1 ELSE 0

Owner(t) == pc[t] \in {"count", "in", "zero"}

\* What the fields of the spinlock say of the thread that took it.
LockFields ==
    /\ \A t \in Threads : Holds(t) => value = 1
    /\ \A t \in Threads : Owner(t) => current_tid = Affinity[t]
    /\ current_tid # -1 =>
           \E t \in Threads : Affinity[t] = current_tid /\ Owner(t)
    /\ \A t \in Threads : pc[t] = "in" => nesting = 1
    /\ (\A t \in Threads : pc[t] # "in") => nesting = 0

OneHolder == \A t, u \in Threads : Holds(t) /\ Holds(u) => t = u

\* With one CPU the lock is not touched.
Untouched ==
    /\ current_tid = -1
    /\ nesting = 0
    /\ \A t \in Threads : pc[t] \in {"out", "in"}

LockInv ==
    /\ TypeOK
    /\ Pinned
    /\ Flat
    /\ booted > 1 => LockFields /\ OneHolder
    /\ booted = 1 => Untouched
-----------------------------------------------------------------------------
\* The invariant gives the two properties: on one CPU only the thread that the
\* CPU executes is inside, on several only the holder of the lock word.
LEMMA InvImplies == LockInv => MutualExclusion /\ OwnerHolds
<1>. SUFFICES ASSUME LockInv PROVE MutualExclusion /\ OwnerHolds
  BY Zenon
<1>0. booted = 1 \/ booted > 1
  BY ConstantsAssumption DEF LockInv, TypeOK
<1>1. MutualExclusion
  <2>. SUFFICES ASSUME NEW t \in Threads, NEW u \in Threads,
                       depth[t] # 0, depth[u] # 0
                PROVE  t = u
    BY Zenon DEF MutualExclusion
  <2>1. /\ pc[t] \in {"in", "zero", "release"}
        /\ pc[u] \in {"in", "zero", "release"}
    BY Zenon DEF LockInv, Flat
  <2>2. CASE booted > 1
    BY Zenon, <2>1, <2>2 DEF LockInv, OneHolder, Holds
  <2>3. CASE booted = 1
    <3>1. running[Affinity[t]] = t /\ Affinity[t] < 1
      BY Zenon, <2>1, <2>3 DEF LockInv, Pinned
    <3>2. running[Affinity[u]] = u /\ Affinity[u] < 1
      BY Zenon, <2>1, <2>3 DEF LockInv, Pinned
    <3>3. Affinity[t] = 0 /\ Affinity[u] = 0
      BY <3>1, <3>2, ConstantsAssumption DEF CPUs
    <3>. QED
      BY Zenon, <3>1, <3>2, <3>3
  <2>. QED
    BY Zenon, <1>0, <2>2, <2>3
<1>2. OwnerHolds
  BY Zenon, <1>0 DEF LockInv, OwnerHolds, LockFields, Untouched, Holds, Owner
<1>. QED
  BY Zenon, <1>1, <1>2

LEMMA LockInitInv == Init => LockInv
<1>. SUFFICES ASSUME Init PROVE LockInv
  BY Zenon
<1>1. TypeOK
  BY ConstantsAssumption DEF Init, TypeOK, CPUs, Labels
<1>2. Pinned /\ Flat /\ LockFields /\ OneHolder /\ Untouched
  BY Zenon DEF Init, Pinned, Flat, LockFields, OneHolder, Untouched, Holds, Owner
<1>. QED
  BY Zenon, <1>1, <1>2 DEF LockInv

\* A step to another label moves one thread only.
LEMMA GotoMoves ==
    ASSUME TypeOK, NEW t \in Threads, NEW l \in Labels, Goto(t, l)
    PROVE  /\ pc' \in [Threads -> Labels]
           /\ pc'[t] = l
           /\ \A u \in Threads : u # t => pc'[u] = pc[u]
BY Zenon DEF Goto, TypeOK

\* The lock is used on several CPUs only, and then by one thread at a time.
LEMMA HolderIsAlone ==
    ASSUME LockInv, NEW t \in Threads, pc[t] \notin {"out", "in"}
    PROVE  /\ booted > 1
           /\ Holds(t) => \A u \in Threads : Holds(u) => u = t
<1>1. booted > 1
  BY ConstantsAssumption DEF LockInv, TypeOK, Untouched
<1>. QED
  BY Zenon, <1>1 DEF LockInv, OneHolder
-----------------------------------------------------------------------------
LEMMA LockEnterInv ==
    ASSUME LockInv, NEW t \in Threads, ENTER_CRITICAL(t) PROVE LockInv'
<1>. USE DEF ENTER_CRITICAL, EnterFrom, lockVars
<1>1. CASE booted > 1
  <2>1. /\ pc' \in [Threads -> Labels]
        /\ pc'[t] = "check"
        /\ \A u \in Threads : u # t => pc'[u] = pc[u]
    BY Zenon, <1>1, GotoMoves DEF LockInv, Labels
  <2>2. TypeOK'
    BY Zenon, <1>1, <2>1 DEF LockInv, TypeOK
  <2>3. Pinned'
    BY Zenon, <1>1, <2>1 DEF LockInv, Pinned, At
  <2>4. Flat'
    BY Zenon, <1>1, <2>1 DEF LockInv, Flat, At
  <2>5. LockFields' /\ OneHolder'
    BY Zenon, <1>1, <2>1 DEF LockInv, LockFields, OneHolder, Holds, Owner, At
  <2>. QED
    BY <1>1, <2>2, <2>3, <2>4, <2>5 DEF LockInv
<1>2. CASE ~(booted > 1)
  <2>1. /\ pc' \in [Threads -> Labels]
        /\ pc'[t] = "in"
        /\ \A u \in Threads : u # t => pc'[u] = pc[u]
    BY Zenon, <1>2, GotoMoves DEF LockInv, Labels
  <2>2. /\ depth' \in [Threads -> Nat]
        /\ depth'[t] = 1
        /\ \A u \in Threads : u # t => depth'[u] = depth[u]
    BY <1>2 DEF LockInv, TypeOK, Flat, At
  <2>3. TypeOK'
    BY Zenon, <1>2, <2>1, <2>2 DEF LockInv, TypeOK
  <2>4. Pinned'
    BY Zenon, <1>2, <2>1 DEF LockInv, Pinned, At
  <2>5. Flat'
    BY Zenon, <2>1, <2>2 DEF LockInv, Flat
  <2>6. booted = 1 => Untouched'
    BY Zenon, <2>1 DEF LockInv, Untouched
  <2>. QED
    BY Zenon, <1>2, <2>3, <2>4, <2>5, <2>6 DEF LockInv
<1>. QED
  BY Zenon, <1>1, <1>2

LEMMA CheckInv == ASSUME LockInv, NEW t \in Threads, CheckOwner(t) PROVE LockInv'
<1>. USE DEF CheckOwner, lockVars
<1>1. booted > 1
  BY Zenon, HolderIsAlone DEF At
\* The owner field names this CPU only while the thread it executes holds the
\* lock word, and that thread is t, which does not.
<1>2. current_tid # Affinity[t]
  <2>. SUFFICES ASSUME current_tid = Affinity[t] PROVE FALSE
    BY Zenon
  <2>1. current_tid # -1
    BY ConstantsAssumption DEF CPUs
  <2>2. PICK u \in Threads : Affinity[u] = current_tid /\ Owner(u)
    BY Zenon, <1>1, <2>1 DEF LockInv, LockFields
  <2>3. running[Affinity[u]] = u
    BY Zenon, <2>2 DEF LockInv, Pinned, Owner
  <2>. QED
    BY Zenon, <2>2, <2>3 DEF At, Owner
<1>3. /\ pc' \in [Threads -> Labels]
      /\ pc'[t] = "spin"
      /\ \A u \in Threads : u # t => pc'[u] = pc[u]
  BY Zenon, <1>2, GotoMoves DEF LockInv, Labels
<1>4. TypeOK'
  BY Zenon, <1>3 DEF LockInv, TypeOK
<1>5. Pinned'
  BY Zenon, <1>3 DEF LockInv, Pinned, At
<1>6. Flat'
  BY Zenon, <1>3 DEF LockInv, Flat, At
<1>7. LockFields' /\ OneHolder'
  BY Zenon, <1>1, <1>3 DEF LockInv, LockFields, OneHolder, Holds, Owner, At
<1>. QED
  BY <1>1, <1>4, <1>5, <1>6, <1>7 DEF LockInv

LEMMA SpinInv ==
    ASSUME LockInv, NEW t \in Threads, __pause_spinlock(t) PROVE LockInv'
<1>. USE DEF __pause_spinlock
<1>1. booted > 1
  BY Zenon, HolderIsAlone DEF At
<1>2. /\ pc' \in [Threads -> Labels]
      /\ pc'[t] = "own"
      /\ \A u \in Threads : u # t => pc'[u] = pc[u]
  BY Zenon, GotoMoves DEF LockInv, Labels
<1>3. \A u \in Threads : ~Holds(u)
  BY <1>1 DEF LockInv, LockFields
<1>4. TypeOK'
  BY Zenon, <1>2 DEF LockInv, TypeOK
<1>5. Pinned'
  BY Zenon, <1>2 DEF LockInv, Pinned, At
<1>6. Flat'
  BY Zenon, <1>2 DEF LockInv, Flat, At
<1>7. LockFields' /\ OneHolder'
  BY Zenon, <1>1, <1>2, <1>3 DEF LockInv, LockFields, OneHolder, Holds, Owner, At
<1>. QED
  BY <1>1, <1>4, <1>5, <1>6, <1>7 DEF LockInv

LEMMA SetOwnerInv == ASSUME LockInv, NEW t \in Threads, SetOwner(t) PROVE LockInv'
<1>. USE DEF SetOwner
<1>1. booted > 1 /\ \A u \in Threads : Holds(u) => u = t
  BY Zenon, HolderIsAlone DEF At, Holds
<1>2. /\ pc' \in [Threads -> Labels]
      /\ pc'[t] = "count"
      /\ \A u \in Threads : u # t => pc'[u] = pc[u]
  BY Zenon, GotoMoves DEF LockInv, Labels
<1>3. TypeOK'
  BY Zenon, <1>2, ConstantsAssumption DEF LockInv, TypeOK
<1>4. Pinned'
  BY Zenon, <1>2 DEF LockInv, Pinned, At
<1>5. Flat'
  BY Zenon, <1>2 DEF LockInv, Flat, At
<1>6. LockFields' /\ OneHolder'
  BY Zenon, <1>1, <1>2 DEF LockInv, LockFields, OneHolder, Holds, Owner, At
<1>. QED
  BY <1>1, <1>3, <1>4, <1>5, <1>6 DEF LockInv

LEMMA CountInv == ASSUME LockInv, NEW t \in Threads, CountIn(t) PROVE LockInv'
<1>. USE DEF CountIn
<1>1. booted > 1 /\ \A u \in Threads : Holds(u) => u = t
  BY Zenon, HolderIsAlone DEF At, Holds
<1>2. /\ pc' \in [Threads -> Labels]
      /\ pc'[t] = "in"
      /\ \A u \in Threads : u # t => pc'[u] = pc[u]
  BY Zenon, GotoMoves DEF LockInv, Labels
<1>3. nesting = 0
  BY Zenon, <1>1 DEF LockInv, LockFields, Holds, At
<1>4. nesting' = 1
  BY <1>3, ConstantsAssumption DEF Inc
<1>5. /\ depth' \in [Threads -> Nat]
      /\ depth'[t] = 1
      /\ \A u \in Threads : u # t => depth'[u] = depth[u]
  BY DEF LockInv, TypeOK, Flat, At
<1>6. TypeOK'
  BY <1>2, <1>4, <1>5, ConstantsAssumption DEF LockInv, TypeOK
<1>7. Pinned'
  BY Zenon, <1>2 DEF LockInv, Pinned, At
<1>8. Flat'
  BY Zenon, <1>2, <1>5 DEF LockInv, Flat
<1>9. LockFields' /\ OneHolder'
  BY Zenon, <1>1, <1>2, <1>4 DEF LockInv, LockFields, OneHolder, Holds, Owner, At
<1>. QED
  BY <1>1, <1>6, <1>7, <1>8, <1>9 DEF LockInv

LEMMA ExitInv == ASSUME LockInv, NEW t \in Threads, EXIT_CRITICAL(t) PROVE LockInv'
<1>. USE DEF EXIT_CRITICAL
<1>1. CASE booted > 1
  <2>1. \A u \in Threads : Holds(u) => u = t
    BY Zenon, <1>1 DEF LockInv, OneHolder, Holds, At
  <2>2. /\ pc' \in [Threads -> Labels]
        /\ pc'[t] = "zero"
        /\ \A u \in Threads : u # t => pc'[u] = pc[u]
    BY Zenon, <1>1, GotoMoves DEF LockInv, Labels
  <2>3. nesting' = 0
    BY <1>1 DEF LockInv, LockFields, At, Dec
  <2>4. TypeOK'
    BY <1>1, <2>2, <2>3, ConstantsAssumption DEF LockInv, TypeOK
  <2>5. Pinned'
    BY Zenon, <1>1, <2>2 DEF LockInv, Pinned, At
  <2>6. Flat'
    BY Zenon, <1>1, <2>2 DEF LockInv, Flat, At
  <2>7. LockFields' /\ OneHolder'
    BY Zenon, <1>1, <2>1, <2>2, <2>3 DEF LockInv, LockFields, OneHolder, Holds, Owner, At
  <2>. QED
    BY <1>1, <2>4, <2>5, <2>6, <2>7 DEF LockInv
<1>2. CASE ~(booted > 1)
  <2>1. /\ depth' \in [Threads -> Nat]
        /\ depth'[t] = 0
        /\ \A u \in Threads : u # t => depth'[u] = depth[u]
    BY <1>2 DEF LockInv, TypeOK, Flat, At
  <2>2. /\ pc' \in [Threads -> Labels]
        /\ pc'[t] = "out"
        /\ \A u \in Threads : u # t => pc'[u] = pc[u]
    BY Zenon, <1>2, <2>1, GotoMoves DEF LockInv, Labels, Outside
  <2>3. TypeOK'
    BY Zenon, <1>2, <2>1, <2>2 DEF LockInv, TypeOK
  <2>4. Pinned'
    BY Zenon, <1>2, <2>2 DEF LockInv, Pinned
  <2>5. Flat'
    BY Zenon, <2>1, <2>2 DEF LockInv, Flat
  <2>6. booted = 1 => Untouched'
    BY Zenon, <1>2, <2>2 DEF LockInv, Untouched
  <2>. QED
    BY Zenon, <1>2, <2>3, <2>4, <2>5, <2>6 DEF LockInv
<1>. QED
  BY Zenon, <1>1, <1>2

LEMMA ClearInv == ASSUME LockInv, NEW t \in Threads, ClearOwner(t) PROVE LockInv'
<1>. USE DEF ClearOwner
<1>1. booted > 1 /\ \A u \in Threads : Holds(u) => u = t
  BY Zenon, HolderIsAlone DEF At, Holds
<1>2. /\ pc' \in [Threads -> Labels]
      /\ pc'[t] = "release"
      /\ \A u \in Threads : u # t => pc'[u] = pc[u]
  BY Zenon, GotoMoves DEF LockInv, Labels
<1>3. nesting = 0
  BY Zenon, <1>1 DEF LockInv, LockFields, Holds, At
<1>4. TypeOK'
  BY Zenon, <1>2, <1>3 DEF LockInv, TypeOK
<1>5. Pinned'
  BY Zenon, <1>2 DEF LockInv, Pinned, At
<1>6. Flat'
  BY Zenon, <1>2 DEF LockInv, Flat, At
<1>7. LockFields' /\ OneHolder'
  BY Zenon, <1>1, <1>2, <1>3 DEF LockInv, LockFields, OneHolder, Holds, Owner, At
<1>. QED
  BY <1>1, <1>4, <1>5, <1>6, <1>7 DEF LockInv

LEMMA ReleaseInv == ASSUME LockInv, NEW t \in Threads, ReleaseLock(t) PROVE LockInv'
<1>. USE DEF ReleaseLock
<1>1. booted > 1 /\ \A u \in Threads : Holds(u) => u = t
  BY Zenon, HolderIsAlone DEF At, Holds
<1>2. /\ depth' \in [Threads -> Nat]
      /\ depth'[t] = 0
      /\ \A u \in Threads : u # t => depth'[u] = depth[u]
  BY DEF LockInv, TypeOK, Flat, At
<1>3. /\ pc' \in [Threads -> Labels]
      /\ pc'[t] = "out"
      /\ \A u \in Threads : u # t => pc'[u] = pc[u]
  BY Zenon, <1>2, GotoMoves DEF LockInv, Labels, Outside
<1>4. TypeOK'
  BY Zenon, <1>2, <1>3 DEF LockInv, TypeOK
<1>5. Pinned'
  BY Zenon, <1>3 DEF LockInv, Pinned
<1>6. Flat'
  BY Zenon, <1>2, <1>3 DEF LockInv, Flat
<1>7. LockFields' /\ OneHolder'
  BY Zenon, <1>1, <1>3 DEF LockInv, LockFields, OneHolder, Holds, Owner, At
<1>. QED
  BY <1>1, <1>4, <1>5, <1>6, <1>7 DEF LockInv

LEMMA SwitchInv == ASSUME LockInv, NEW t \in Threads, Switch(t) PROVE LockInv'
<1>. USE DEF Switch, lockVars
<1>1. /\ running' \in [CPUs -> Threads]
      /\ \A c \in CPUs : c # Affinity[t] => running'[c] = running[c]
  BY Zenon, ConstantsAssumption DEF LockInv, TypeOK
<1>2. TypeOK'
  BY Zenon, <1>1 DEF LockInv, TypeOK
<1>3. Pinned'
  BY Zenon, <1>1, ConstantsAssumption DEF LockInv, Pinned
<1>. QED
  BY Zenon, <1>2, <1>3 DEF LockInv, Flat, LockFields, OneHolder, Untouched, Holds, Owner

\* The second CPU finds a lock nobody has touched and nobody is inside of; the
\* ones after it change nothing the macros look at.
LEMMA CountedInv == ASSUME LockInv, cpu_ap_core_init PROVE LockInv'
<1>. USE DEF cpu_ap_core_init, CountedWhen, lockVars
<1>1. /\ booted \in Nat /\ booted >= 1
      /\ booted' = booted + 1
      /\ booted' \in 1 .. NumCPUs
  BY ConstantsAssumption DEF LockInv, TypeOK
<1>2. TypeOK'
  BY Zenon, <1>1 DEF LockInv, TypeOK
<1>3. Pinned'
  BY <1>1, ConstantsAssumption DEF LockInv, Pinned, CPUs
<1>4. Flat'
  BY Zenon DEF LockInv, Flat
<1>5. LockFields' /\ OneHolder'
  <2>1. CASE booted > 1
    BY Zenon, <2>1 DEF LockInv, LockFields, OneHolder, Holds, Owner
  <2>2. CASE booted = 1
    BY Zenon, <2>2 DEF LockInv, Untouched, LockFields, OneHolder, Holds, Owner
  <2>. QED
    BY <1>1, <2>1, <2>2
<1>. QED
  BY <1>1, <1>2, <1>3, <1>4, <1>5 DEF LockInv

\* Every step of the macros, and every switch of threads, keeps the invariant.
LEMMA LockNextInv == LockInv /\ [Next]_vars => LockInv'
<1>. SUFFICES ASSUME LockInv, [Next]_vars PROVE LockInv'
  BY Zenon
<1>1. CASE UNCHANGED vars
  BY Zenon, <1>1 DEF vars, LockInv, TypeOK, Pinned, Flat, LockFields, OneHolder, Untouched,
              Holds, Owner
<1>2. CASE Next
  BY Zenon, <1>2, LockEnterInv, CheckInv, SpinInv, SetOwnerInv, CountInv, ExitInv,
     ClearInv, ReleaseInv, SwitchInv, CountedInv DEF Next, Progress
<1>. QED
  BY Zenon, <1>1, <1>2
-----------------------------------------------------------------------------
\* The fields of the spinlock keep their types.
THEOREM LockTypes == Spec => []TypeOK
<1>1. LockInv => TypeOK
  BY Zenon DEF LockInv
<1>. QED
  BY <1>1, LockInitInv, LockNextInv, PTL DEF Spec

\* No two threads of the machine are inside sections of one spinlock at once.
THEOREM Exclusion == Spec => []MutualExclusion
BY LockInitInv, LockNextInv, InvImplies, PTL DEF Spec

\* The field that lets a CPU skip the spinlock names only the CPU that holds it.
THEOREM OwnerIsHolder == Spec => []OwnerHolds
BY LockInitInv, LockNextInv, InvImplies, PTL DEF Spec
=============================================================================
