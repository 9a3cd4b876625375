------------------------------- MODULE MCSse -------------------------------
EXTENDS Sse
CONSTANTS t1, t2
=============================================================================
