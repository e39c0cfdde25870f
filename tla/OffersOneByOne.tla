---------------------------- MODULE OffersOneByOne ----------------------------
(***************************************************************************)
(* What the loops of AlgorithmExecutor::applyTiles promise: the offers of  *)
(* the executors reach the vertices one by one, those of one executor in   *)
(* its order, each of them once and at one instant.                        *)
(***************************************************************************)
EXTENDS Integers, Sequences

CONSTANTS Vertices, Executors, Givens, Initial, Reductions

VARIABLES
  value,             \* of every vertex
  reduction, given,  \* as in VertexReduce; they never change
  applied            \* how many of its offers each executor has applied

vars == <<value, reduction, given, applied>>

Init ==
  /\ value = [v \in Vertices |-> Initial]
  /\ reduction \in Reductions /\ given \in Givens
  /\ applied = [e \in Executors |-> 0]

Reduced(lhs, rhs) ==
  IF reduction = "sum" THEN lhs + rhs ELSE IF lhs < rhs THEN lhs ELSE rhs

Apply(e) ==
  LET offer == given[e][applied[e] + 1]
  IN /\ applied[e] < Len(given[e])
     /\ value' = [value EXCEPT ![offer.to] = Reduced(offer.value, @)]
     /\ applied' = [applied EXCEPT ![e] = @ + 1]
     /\ UNCHANGED <<reduction, given>>

Next == \E e \in Executors : Apply(e)

Spec == Init /\ [][Next]_vars
================================================================================
