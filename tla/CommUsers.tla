----------------------------- MODULE CommUsers -----------------------------
(***************************************************************************)
(* The threads that use a communication queue or a mailbox, what they send *)
(* each other, and EMPTY for a place that holds nothing of it.             *)
(***************************************************************************)
EXTENDS Integers, Sequences, FiniteSets

CONSTANTS Users, Values, EMPTY
=============================================================================
