---------------------------- MODULE MCScheduler ----------------------------
(* Instances of Scheduler.  One: CPU 0 only, INIT, main and a child of main. *)
(* Two: CPU 1 as well, where the children of main run.  Priority 0 is the   *)
(* highest, 1 the lowest and the one of the idle threads.                   *)
EXTENDS Scheduler, TLC

CONSTANTS init0, i0, i1, m, w1, w2

OneIdle == 0 :> i0
TwoIdles == 0 :> i0 @@ 1 :> i1

\* main creates w1 and, where there is one, w2
MainCreates == [t \in Workers |-> IF t = m THEN init0 ELSE m]
\* w1 creates w2: a grandchild of main
ChainCreates == [t \in Workers |-> IF t = m THEN init0
                                   ELSE IF t = w1 THEN m ELSE w1]
AllOnZero == [t \in Workers |-> 0]
ChildrenOnOne == [t \in Workers |-> IF t = m THEN 0 ELSE 1]
\* main above its children, so that it preempts them when it is woken
MainFirst == [t \in Workers |-> IF t = m THEN 0 ELSE 1]
AllFirst == [t \in Workers |-> 0]

\* main waits for its child
MainJoins == {<<m, w1>>}
\* every thread may wait for its own children
ParentsJoin == {<<m, w1>>, <<w1, w2>>}
=============================================================================
