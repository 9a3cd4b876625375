------------------------------ MODULE MCMutex ------------------------------
EXTENDS Mutex, TLC
CONSTANTS t1, t2
TwoPriorities == t1 :> 0 @@ t2 :> 1
=============================================================================
