------------------------------ MODULE MCScifRing ------------------------------
EXTENDS ScifRing

(* The shadow's callers use the _nolock functions, the master's combine.   *)
MasterCombines == [master |-> 2, shadow |-> 1]

(* The other way round, as the threads of rbs-flow.c get from a shadow.    *)
ShadowCombines == [master |-> 1, shadow |-> 4]
===============================================================================
