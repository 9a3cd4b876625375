------------------------------ MODULE Numbers -------------------------------
(***************************************************************************)
(* Two facts about numbers that the invariants of several components rest  *)
(* on.  The lemmas about the steps take them as hypotheses; KernelProofs,  *)
(* CommProofs and SchedulerProofs prove them before their theorems.        *)
(***************************************************************************)
EXTENDS Integers, FiniteSets

\* The sizes of the subsets of S go up and down by one.
Counted(S) ==
    /\ Cardinality({}) = 0
    /\ \A T \in SUBSET S : Cardinality(T) \in Nat
    /\ \A T \in SUBSET S, e \in S :
           /\ e \notin T => Cardinality(T \cup {e}) = Cardinality(T) + 1
           /\ e \in T => Cardinality(T \ {e}) = Cardinality(T) - 1

\* A set of natural numbers that is not empty has a least element.
WellOrdered == \A T \in SUBSET Nat : T # {} => \E n \in T : \A m \in T : n <= m
=============================================================================
