SPECIFICATION MCSpec
SYMMETRY Symmetry
CONSTANTS
    n1 = n1
    n2 = n2
    n3 = n3
    plain = plain
    sorted = sorted
    a = a
    NULL = NULL
    Nodes <- MCNodes
    Queues <- MCQueues
    PrioQueues <- MCPrioQueues
    Data = {a}
    Prios <- MCPrios
    MaxSize = 3
    LINES = 2
    COLS = 3
    TAB = 1
    Printers = {p1}
    Keyboard = k
    Printed = {"text", "newline", "formfeed", "return"}
    Typed = {"text", "backspace", "newline", "tab"}
    HALF_BITS = 2
    OutputFns <- MCOutputFns
    Formats <- MCFormats
    MaxCalls = 2
    MAX_RSDPS = 2
    MAX_CPU_COUNT = 2
    MAX_IO_APIC_COUNT = 1
    LengthLimit = 3
    PAGE = 4
INVARIANTS
    QueuesSound
    
    ColoursKept
    AcpiSound
    LibRight
PROPERTIES
    ImplementsAbstractQueue
    TypedEraseStops
CHECK_DEADLOCK FALSE
