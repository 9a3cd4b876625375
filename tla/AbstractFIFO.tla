---------------------------- MODULE AbstractFIFO ----------------------------
(***************************************************************************)
(* What a communication queue and a mailbox promise: a bounded first-in,   *)
(* first-out buffer that blocks writers when it is full and readers when   *)
(* it is empty, and that can be destroyed and initialized again.           *)
(***************************************************************************)
EXTENDS Integers, Sequences

CONSTANTS Capacity, Values, NULL

VARIABLES open, buffer, received   \* the value the last reader got
vars == <<open, buffer, received>>

Init == open = FALSE /\ buffer = <<>> /\ received = NULL

Open ==
    /\ ~open
    /\ open' = TRUE /\ buffer' = <<>>
    /\ UNCHANGED received

Send(v) ==
    /\ open /\ Len(buffer) < Capacity
    /\ buffer' = Append(buffer, v)
    /\ UNCHANGED <<open, received>>

Receive ==
    /\ open /\ buffer # <<>>
    /\ received' = Head(buffer) /\ buffer' = Tail(buffer)
    /\ UNCHANGED open

Close ==
    /\ open
    /\ open' = FALSE /\ buffer' = <<>>
    /\ UNCHANGED received

Next == Open \/ (\E v \in Values : Send(v)) \/ Receive \/ Close

Spec == Init /\ [][Next]_vars
=============================================================================
