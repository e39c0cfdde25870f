----------------------------- MODULE VertexReduce -----------------------------
(***************************************************************************)
(* AlgorithmExecutor::applyTiles: the executors of a pull phase put the    *)
(* results of their tiles into the shared next array, each vertex with a   *)
(* loop of reads, reduceVertex and compare-and-swap, store the neighbour   *)
(* the value came from, and set the vertex's bit in the changed array.     *)
(* Every read and write of shared memory is a step.                        *)
(*                                                                         *)
(* An offer is what one batch of tiles computed for one vertex: a value    *)
(* other than the neutral element and the source of the edge it came over. *)
(* reduceVertex is the smaller value (CC, BFS) or the sum; the offers of   *)
(* PageRank are positive, those of PageRankDelta, which are differences of *)
(* ranks, of either sign.  Numbers are exact, where the code has floats.   *)
(* The vertices share one byte of the changed array, which is the set of the   *)
(* vertices whose bits are set in it.                                      *)
(***************************************************************************)
EXTENDS Integers, Sequences, FiniteSetsExt

CONSTANTS
  Vertices,    \* vertices whose bits share a byte
  Executors,   \* AlgorithmExecutors
  Neighbors,   \* sources of edges
  Givens,      \* the offers each executor may come with, as sequences
  Initial,     \* value of every vertex before the pull phase
  Reductions,  \* of "sum" (PageRank, PageRankDelta) and "min" (CC, BFS)
  UseChanged,  \* Algorithm::USE_CHANGED
  None         \* no critical neighbor (UINT32_MAX)

Offers == [to : Vertices, value : Int, from : Neighbors]

ASSUME OffersAssumption ==
  /\ \A g \in Givens : g \in [Executors -> Seq(Offers)]
  /\ Initial \in Int /\ Reductions \subseteq {"sum", "min"}
  /\ UseChanged \in BOOLEAN /\ None \notin Neighbors

\* A configuration has a number of executors.
ASSUME ExecutorsAssumption == IsFiniteSet(Executors)

VARIABLES
  next, critical, changed,       \* vertex_store_->vertices_
  reduction,                     \* reduceVertex of the algorithm; never changes
  given,                         \* the offers; never changes
  done,                          \* offers each executor is through with
  pc,                            \* what each executor does next
  old, new,                      \* old_value, new_value
  moved,                         \* the local "changed" of applyTiles
  oldByte, newByte               \* set_bool_array_atomically

memory == <<next, critical, changed>>
flagVars == <<oldByte, newByte>>
input == <<reduction, given>>
vars == <<memory, input, done, pc, old, new, moved, flagVars>>

Offer(e) == given[e][done[e] + 1]
Goto(e, label) == pc' = [pc EXCEPT ![e] = label]

Init ==
  /\ next = [v \in Vertices |-> Initial]
  /\ critical = [v \in Vertices |-> None] /\ changed = {}
  /\ reduction \in Reductions /\ given \in Givens
  /\ done = [e \in Executors |-> 0]
  /\ pc = [e \in Executors |-> "read"]
  /\ old = [e \in Executors |-> Initial] /\ new = [e \in Executors |-> Initial]
  /\ moved = [e \in Executors |-> FALSE]
  /\ oldByte = [e \in Executors |-> {}] /\ newByte = [e \in Executors |-> {}]

\* old_value = next[global_target], at the start and after a failed swap.
Read(e) ==
  /\ pc[e] = "read" /\ done[e] < Len(given[e])
  /\ old' = [old EXCEPT ![e] = next[Offer(e).to]]
  /\ Goto(e, "reduce")
  /\ UNCHANGED <<memory, input, done, new, moved, flagVars>>

\* reduceVertex: *ptr is read again, and true says that lhs was taken.
Better(lhs, rhs) == reduction = "min" /\ lhs < rhs
Reduced(lhs, rhs) ==
  IF reduction = "sum" THEN lhs + rhs ELSE IF Better(lhs, rhs) THEN lhs ELSE rhs
Reduce(e) ==
  LET lhs == Offer(e).value
      rhs == next[Offer(e).to]
  IN /\ pc[e] = "reduce"
     /\ new' = [new EXCEPT ![e] = Reduced(lhs, rhs)]
     /\ Goto(e, IF Better(lhs, rhs) THEN "critical" ELSE "swap")
     /\ UNCHANGED <<memory, input, done, old, moved, flagVars>>

SetCritical(e) ==
  /\ pc[e] = "critical"
  /\ critical' = [critical EXCEPT ![Offer(e).to] = Offer(e).from]
  /\ Goto(e, "swap")
  /\ UNCHANGED <<next, changed, input, done, old, new, moved, flagVars>>

Finish(e) == done' = [done EXCEPT ![e] = @ + 1] /\ Goto(e, "read")

\* compareAndSwap, if there is a difference; "moved" is set even if it fails.
SwapIf(e, same) ==
  /\ pc[e] = "swap" /\ old[e] # new[e]
  /\ moved' = [moved EXCEPT ![e] = TRUE]
  /\ IF same
     THEN /\ next' = [next EXCEPT ![Offer(e).to] = new[e]]
          /\ Goto(e, "leave")
     ELSE next' = next /\ Goto(e, "read")
  /\ UNCHANGED <<critical, changed, input, done, old, new, flagVars>>
SwapBlindly(e) == SwapIf(e, TRUE)
Swap(e) == SwapIf(e, next[Offer(e).to] = old[e])

NothingToSwap(e) ==
  /\ pc[e] = "swap" /\ old[e] = new[e]
  /\ Goto(e, "leave")
  /\ UNCHANGED <<memory, input, done, old, new, moved, flagVars>>

\* The loop is left; the changed bit is set if a swap has been tried.
Leave(e) ==
  /\ pc[e] = "leave"
  /\ moved' = [moved EXCEPT ![e] = FALSE]
  /\ IF UseChanged /\ moved[e]
     THEN Goto(e, "readByte") /\ done' = done
     ELSE Finish(e)
  /\ UNCHANGED <<memory, input, old, new, flagVars>>

\* set_bool_array_atomically: two reads of the byte, then a swap.
ReadByte(e) ==
  /\ pc[e] = "readByte"
  /\ oldByte' = [oldByte EXCEPT ![e] = changed]
  /\ Goto(e, "orByte")
  /\ UNCHANGED <<memory, input, done, old, new, moved, newByte>>
OrByte(e) ==
  /\ pc[e] = "orByte"
  /\ newByte' = [newByte EXCEPT ![e] = changed \union {Offer(e).to}]
  /\ Goto(e, "swapByte")
  /\ UNCHANGED <<memory, input, done, old, new, moved, oldByte>>
SwapByteIf(e, same) ==
  /\ pc[e] = "swapByte"
  /\ IF oldByte[e] = newByte[e] THEN changed' = changed /\ Finish(e)
     ELSE IF same THEN changed' = newByte[e] /\ Finish(e)
     ELSE UNCHANGED <<changed, done>> /\ Goto(e, "readByte")
  /\ UNCHANGED <<next, critical, input, old, new, moved, flagVars>>
StoreByte(e) == SwapByteIf(e, TRUE)
SwapByte(e) == SwapByteIf(e, changed = oldByte[e])

Step(e) ==
  \/ Read(e) \/ Reduce(e) \/ SetCritical(e) \/ Swap(e) \/ NothingToSwap(e)
  \/ Leave(e) \/ ReadByte(e) \/ OrByte(e) \/ SwapByte(e)

AllDone == \A e \in Executors : done[e] = Len(given[e])
Done == AllDone /\ UNCHANGED vars

Next == (\E e \in Executors : Step(e)) \/ Done

Spec == Init /\ [][Next]_vars

\* The offers made to a vertex, by executor and place, and what they come to,
\* one after another.
OffersTo(v) ==
  UNION {{<<e, i>> : i \in {j \in 1 .. Len(given[e]) : given[e][j].to = v}}
           : e \in Executors}
ReducedByAll(v) ==
  FoldSet(LAMBDA p, sofar : Reduced(given[p[1]][p[2]].value, sofar),
          Initial, OffersTo(v))

\* An offer counts once the loop for it has been left.
Applied(e) ==
  IF pc[e] \in {"leave", "readByte", "orByte", "swapByte"}
  THEN done[e] + 1 ELSE done[e]
OneByOne ==
  INSTANCE OffersOneByOne
    WITH value <- next, applied <- [e \in Executors |-> Applied(e)]

\* A value goes one way only: the loop, which compares the value it swaps with
\* its first read only, cannot miss that it has changed.
Rising(v) ==
  \A e \in Executors : \A i \in DOMAIN given[e] :
    given[e][i].to = v => given[e][i].value >= 0
Falling(v) ==
  \A e \in Executors : \A i \in DOMAIN given[e] :
    given[e][i].to = v => given[e][i].value <= 0
OneWay == reduction = "sum" => \A v \in Vertices : Rising(v) \/ Falling(v)

(***************************************************************************)
(* Properties.                                                             *)
(***************************************************************************)
\* "Go through all tile-infos that are in use and push their results to the
\* global array" (applyTiles): the vertex ends up as if the offers had come one
\* by one.  It does not when offers of both signs are added up: the value may
\* be back at the first read when the swap compares, but not at the second.
EveryResultPushed == AllDone => \A v \in Vertices : next[v] = ReducedByAll(v)

\* If values go one way, no offer is lost or counted twice in the loop that
\* reads the vertex twice and swaps once.
NothingLost == OneWay => EveryResultPushed

\* If values go one way, each offer takes effect at one instant, the successful
\* swap or the read that made a swap needless, however the loops interleave.
ImplementsOneByOne == OneWay => OneByOne!Spec

\* Every vertex whose value is another than before has its bit in the changed
\* array, although several executors write bits of one byte: the apply phase
\* skips the others.
ChangedMarked ==
  AllDone /\ UseChanged => \A v \in Vertices : next[v] # Initial => v \in changed

================================================================================
