---------------------------- MODULE KernelOutput ----------------------------
(***************************************************************************)
(* The output functions of src/Kernel/Sources/io/kernel_output.c over the  *)
(* colours of vga_text.c: the formatter as an operator, and the calls as   *)
(* steps.  kernel_output.h lets interrupt handlers call them and says that *)
(* they are not thread safe, so calls nest: a handler's call runs between  *)
(* two steps of the one it interrupts, and is over before that goes on.    *)
(* A byte has HALF_BITS \div 2 bits (8 in the code), a word four bytes.    *)
(***************************************************************************)
EXTENDS Lib

CONSTANTS OutputFns,  \* the functions that are called
          Formats,    \* the strings they are called with
          MaxCalls    \* bound on calls inside one another

Byte == 2 ^ (HALF_BITS \div 2)
-----------------------------------------------------------------------------
\* The formatter.  A string is a sequence of characters; arguments are words,
\* those of 64 bits two of them, the lower one first.
NoModifiers == [modifier |-> FALSE, length_mod |-> 4, padding_mod |-> 0, upper_mod |-> FALSE,
                pad_char_mod |-> " "]

Figures == <<"0", "1", "2", "3", "4", "5", "6", "7", "8", "9">>
Figure(ch) == SelectInSeq(Figures, LAMBDA f : f = ch) - 1

Harmonized(length) == IF length > 8 THEN 8 ELSE length
WordsOf(length) == IF Harmonized(length) = 8 THEN 2 ELSE 1

\* GET_SEQ_VAL: seq_val, a size_t, keeps the lower word of a 64-bit argument
GET_SEQ_VAL(words, length) ==
    CASE length = 1 -> Head(words) % Byte
      [] length = 2 -> Head(words) % (Byte * Byte)
      [] OTHER -> Head(words)

\* PAD_SEQ, and the digits; only %x and %p change their case
Number(mods, digits, case) ==
    [op |-> "number", digits |-> digits, case |-> case, pad |-> mods.pad_char_mod,
     pads |-> IF mods.padding_mod > Len(digits) THEN mods.padding_mod - Len(digits) ELSE 0]

HexCase(upper) == IF upper THEN "upper" ELSE "lower"

\* what a specifier prints; seq_val is unsigned, so itoa sees no negative number
Converted(ch, mods, words) ==
    CASE ch = "s" -> [op |-> "string", value |-> Head(words)]
      [] ch = "c" -> [op |-> "char", value |-> GET_SEQ_VAL(words, 1)]
      [] ch \in {"d", "i"} -> Number(mods, itoa(GET_SEQ_VAL(words, mods.length_mod), 10).digits, "upper")
      [] ch = "u" -> Number(mods, uitoa(GET_SEQ_VAL(words, mods.length_mod), 10), "upper")
      [] ch \in {"x", "X"} ->
             Number(mods, uitoa(GET_SEQ_VAL(words, mods.length_mod), 16),
                    HexCase(ch = "X"))
      [] ch \in {"p", "P"} ->
             Number([mods EXCEPT !.padding_mod = 8, !.pad_char_mod = "0"],
                    uitoa(GET_SEQ_VAL(words, 4), 16), HexCase(ch = "P"))

Specifiers == {"s", "d", "i", "u", "x", "X", "p", "P", "c"}

\* the words a specifier takes: %s, %c and %p ignore the length
Taken(ch, mods) == IF ch \in {"s", "c", "p", "P"} THEN 1 ELSE WordsOf(mods.length_mod)

\* one turn of the loop; the modifiers are uint8_t
Turn(st, ch) ==
    LET Emit(piece, n) ==
            [mods |-> NoModifiers, words |-> SubSeq(st.words, n + 1, Len(st.words)),
             out |-> Append(st.out, piece)]
        mods == st.mods
    IN CASE ch = "%" /\ ~mods.modifier -> [st EXCEPT !.mods.modifier = TRUE]
         [] mods.modifier = (ch = "%") -> Emit([op |-> "text", value |-> ch], 0)
         [] mods.modifier /\ ch = "h" -> [st EXCEPT !.mods.length_mod = @ \div 2]
         [] mods.modifier /\ ch = "l" -> [st EXCEPT !.mods.length_mod = (@ * 2) % 256]
         [] mods.modifier /\ ch = "0" /\ mods.padding_mod = 0 -> [st EXCEPT !.mods.pad_char_mod = "0"]
         [] mods.modifier /\ ch \in Range(Figures) /\ ~(ch = "0" /\ mods.padding_mod = 0) ->
                [st EXCEPT !.mods.padding_mod = (@ * 10 + Figure(ch)) % 256]
         [] mods.modifier /\ ch \in Specifiers -> Emit(Converted(ch, mods, st.words), Taken(ch, mods))
         [] OTHER -> st

formater(str, args) ==
    FoldLeft(Turn, [mods |-> NoModifiers, words |-> args, out |-> <<>>], str).out
-----------------------------------------------------------------------------
\* Reference of the formatter: a string is a list of directives, each printed
\* on its own with the words the ones before it have left.
Spelled(d) ==
    IF d.conv = "text" THEN <<"a">>
    ELSE IF d.conv = "%" THEN <<"%", "%">>
    ELSE <<"%">> \o (IF d.zero THEN <<"0">> ELSE <<>>)
         \o (IF d.width = 0 THEN <<>>
             ELSE [i \in 1 .. Len(uitoa(d.width, 10)) |-> Figures[uitoa(d.width, 10)[i] + 1]])
         \o d.length \o <<d.conv>>

BytesOf(d) ==
    IF d.conv \in {"s", "p"} THEN 4
    ELSE IF d.conv = "c" \/ d.length = <<"h", "h">> THEN 1
    ELSE IF d.length = <<"h">> THEN 2
    ELSE IF d.length = <<>> THEN 4 ELSE 8

WordsBefore(ds, k) ==
    Cardinality({i \in 1 .. k - 1 : ds[i].conv \notin {"text", "%"}})
    + Cardinality({i \in 1 .. k - 1 : ds[i].conv \notin {"text", "%"} /\ BytesOf(ds[i]) = 8})

Meaning(ds, k, args) ==
    LET d == ds[k]
        w == args[WordsBefore(ds, k) + 1]
        v == IF BytesOf(d) < 4 THEN w % Byte ^ BytesOf(d) ELSE w
        digits == IF d.conv \in {"x", "p"} THEN uitoa(v, 16) ELSE uitoa(v, 10)
        width == IF d.conv = "p" THEN 8 ELSE d.width % 256
    IN IF d.conv \in {"text", "%"}
       THEN [op |-> "text", value |-> IF d.conv = "%" THEN "%" ELSE "a"]
       ELSE IF d.conv = "s" THEN [op |-> "string", value |-> w]
       ELSE IF d.conv = "c" THEN [op |-> "char", value |-> v]
       ELSE [op |-> "number", digits |-> digits,
             case |-> IF d.conv \in {"x", "p"} THEN "lower" ELSE "upper",
             pad |-> IF d.conv = "p" \/ d.zero THEN "0" ELSE " ",
             pads |-> IF width > Len(digits) THEN width - Len(digits) ELSE 0]

\* Every directive prints what it means, whatever stands before it: no width,
\* length or padding character of one is left for the next, and each takes its
\* own arguments (the modifiers of formater, kernel_output.c 157-309).
DirectivesRight(ds, args) ==
    formater(FoldLeft(LAMBDA s, d : s \o Spelled(d), <<>>, ds), args)
        = [k \in 1 .. Len(ds) |-> Meaning(ds, k, args)]
-----------------------------------------------------------------------------
VARIABLES graphic_driver,  \* "serial", or "vga" once kernel_kickstart selects it
          current_output,  \* field -> it points to the function of graphic.c
          screen_scheme,   \* the foreground of vga_text.c
          calls            \* the calls in progress, the innermost one last

outputVars == <<graphic_driver, current_output, screen_scheme, calls>>

Tagged == {"kernel_error", "kernel_success", "kernel_info", "kernel_debug"}

TagColor(fn) ==
    CASE fn = "kernel_error" -> "red" [] fn = "kernel_success" -> "green"
      [] fn = "kernel_info" -> "cyan" [] fn = "kernel_debug" -> "yellow"

OutputInit ==
    /\ graphic_driver = "serial"
    /\ current_output = [putc |-> FALSE, puts |-> FALSE]
    /\ screen_scheme = "white"
    /\ calls = <<>>

Inner == Last(calls)

\* the innermost call goes on at pc
Goto(pc) == calls' = Front(calls) \o <<[Inner EXCEPT !.pc = pc]>>

InnerAt(pc) == calls # <<>> /\ Inner.pc = pc

\* the strings among what is printed
IsString(fmt) ==
    LET out == formater(fmt, [i \in 1 .. 2 * Len(fmt) |-> 0])
    IN [i \in 1 .. Len(out) |-> out[i].op = "string"]

\* A call, of the thread or of a handler that interrupts it; entry is the
\* colour at that moment.  A null string returns at once.
OutputCall(fn, fmt) ==
    /\ Len(calls) < MaxCalls
    /\ calls' = Append(calls,
           [fn |-> fn, rest |-> IsString(fmt), buffer |-> "garbage", entry |-> screen_scheme,
            pc |-> IF fn = "kernel_serial_debug" THEN "body" ELSE "putc"])
    /\ UNCHANGED <<graphic_driver, current_output, screen_scheme>>

\* current_output, one field after the other
SetPutc ==
    /\ InnerAt("putc")
    /\ current_output' = [current_output EXCEPT !.putc = TRUE]
    /\ Goto("puts")
    /\ UNCHANGED <<graphic_driver, screen_scheme>>

SetPuts ==
    /\ InnerAt("puts")
    /\ current_output' = [current_output EXCEPT !.puts = TRUE]
    /\ Goto(IF Inner.fn \in Tagged THEN "save" ELSE "body")
    /\ UNCHANGED <<graphic_driver, screen_scheme>>

\* graphic_save_color_scheme: the serial driver leaves the buffer as it is
graphic_save_color_scheme ==
    /\ InnerAt("save")
    /\ calls' = Front(calls) \o
           <<[Inner EXCEPT !.pc = "set", !.buffer = IF graphic_driver = "vga" THEN screen_scheme ELSE @]>>
    /\ UNCHANGED <<graphic_driver, current_output, screen_scheme>>

\* graphic_set_color_scheme: the serial driver has no colours
graphic_set_color_scheme(color) ==
    screen_scheme' = IF graphic_driver = "vga" THEN color ELSE screen_scheme

SetTagScheme ==
    /\ InnerAt("set")
    /\ graphic_set_color_scheme(TagColor(Inner.fn))
    /\ Goto("tag")
    /\ UNCHANGED <<graphic_driver, current_output>>

tag_printf ==
    /\ InnerAt("tag")
    /\ Goto("restore")
    /\ UNCHANGED <<graphic_driver, current_output, screen_scheme>>

\* Mutant: the colours are set back to those of the start
RestoreWhite ==
    /\ InnerAt("restore")
    /\ graphic_set_color_scheme("white")
    /\ Goto("body")
    /\ UNCHANGED <<graphic_driver, current_output>>

RestoreScheme ==
    /\ InnerAt("restore")
    /\ graphic_set_color_scheme(Inner.buffer)
    /\ Goto("body")
    /\ UNCHANGED <<graphic_driver, current_output>>

\* the body, piece by piece: a string goes through current_output whatever the
\* output in use, and before the first call on the screen that is a null pointer
PrintPiece ==
    /\ InnerAt("body") /\ Inner.rest # <<>>
    /\ IF Head(Inner.rest) /\ ~current_output.puts THEN Goto("null")
       ELSE calls' = Front(calls) \o <<[Inner EXCEPT !.rest = Tail(@)]>>
    /\ UNCHANGED <<graphic_driver, current_output, screen_scheme>>

OutputReturn ==
    /\ InnerAt("body") /\ Inner.rest = <<>>
    /\ calls' = Front(calls)
    /\ UNCHANGED <<graphic_driver, current_output, screen_scheme>>

\* kernel_kickstart, before there are interrupts
graphic_set_selected_driver ==
    /\ calls = <<>> /\ graphic_driver = "serial"
    /\ graphic_driver' = "vga"
    /\ UNCHANGED <<current_output, screen_scheme, calls>>

OutputNext ==
    \/ \E fn \in OutputFns, fmt \in Formats : OutputCall(fn, fmt)
    \/ SetPutc \/ SetPuts \/ graphic_save_color_scheme \/ SetTagScheme \/ tag_printf
    \/ RestoreScheme \/ PrintPiece \/ OutputReturn \/ graphic_set_selected_driver

OutputSpec == OutputInit /\ [][OutputNext]_outputVars
-----------------------------------------------------------------------------
\* Tags have their colour and messages that of the screen, however handlers
\* interrupt one another's output, and when all have returned the colour is the
\* one of the start: no call restores a colour it has not saved, in particular
\* not the garbage the serial driver leaves in the buffer.  On the screen
\* nothing is printed through a null pointer (kernel_output.h 14-17: the
\* functions can be used in interrupt handlers).
ColoursKept ==
    /\ InnerAt("tag") /\ graphic_driver = "vga" => screen_scheme = TagColor(Inner.fn)
    /\ InnerAt("body") => screen_scheme = Inner.entry
    /\ calls = <<>> => screen_scheme = "white"
    /\ \A i \in 1 .. Len(calls) :
           /\ calls[i].fn # "kernel_serial_debug" /\ calls[i].pc \in {"tag", "body"} =>
                  current_output = [putc |-> TRUE, puts |-> TRUE]
           /\ calls[i].pc = "null" => calls[i].fn = "kernel_serial_debug"
=============================================================================
