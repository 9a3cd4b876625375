------------------------- MODULE MCCriticalSection -------------------------
(* Instances of CriticalSection: two threads on CPU 0, one on CPU 1 and,    *)
(* for the plain discipline, one on CPU 2.                                  *)
EXTENDS CriticalSection, TLC

CONSTANTS t1, t2, t3, t4

TwoCPUs == t1 :> 0 @@ t2 :> 0 @@ t3 :> 1
ThreeCPUs == TwoCPUs @@ t4 :> 2
=============================================================================
