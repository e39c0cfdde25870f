---------------------------- MODULE AlgorithmRound ----------------------------
(***************************************************************************)
(* The threads that run a graph algorithm and the barriers they meet at:   *)
(* the thread in ContinuousAlgorithmExecutor::executeAlgorithm ("main"),   *)
(* the TileDistributor, the AlgorithmExecutors that pull over the tiles    *)
(* and the ApplyExecutors that go over the vertices.                       *)
(*                                                                         *)
(* A pthread barrier is one joint step of all who wait at it; a thread     *)
(* that has been let go but has not run yet is at its next statement.  The *)
(* ring between the distributor and the executors is a bounded queue whose *)
(* messages are each received once (module RingBuffer).  Tiles and chunks  *)
(* are numbers; a vertex value is abstracted to "the chunk has a vertex    *)
(* whose next value differs from its current one".                         *)
(***************************************************************************)
EXTENDS Integers, FiniteSets, Sequences

CONSTANTS
  CountTiles,      \* tile_store_config.count_tiles
  CountExecutors,  \* algorithm_executor_count
  CountAppliers,   \* algorithm_appliers_count
  CountChunks,     \* count_vertices / STEP_SIZE, rounded up
  Batching,        \* algorithm_tile_batching
  Iterations,      \* algorithm_iterations
  Distributions,   \* of "distributor", "atomics" and "static"
  Lazy,            \* enable_lazy_algorithm: edges change while it runs
  RingRoom,        \* bound: messages the distributor's ring holds
  MaxRuns,         \* bound: calls of executeAlgorithm
  Fillings,        \* bound: sets of tiles that hold edges at first
  MaxChanges       \* bound: changes of that set

ASSUME CountsAssumption ==
  /\ CountTiles \in Nat \ {0} /\ CountExecutors \in Nat \ {0}
  /\ CountAppliers \in Nat \ {0} /\ CountChunks \in Nat \ {0}
  /\ Batching \in Nat \ {0} /\ Iterations \in Nat \ {0}
  /\ RingRoom \in Nat \ {0} /\ MaxRuns \in Nat /\ MaxChanges \in Nat
  /\ Fillings \subseteq SUBSET (0 .. CountTiles - 1)
ASSUME ModeAssumption ==
  /\ Lazy \in BOOLEAN
  /\ Distributions \subseteq {"distributor", "atomics", "static"}

Tiles == 0 .. CountTiles - 1
Chunks == 0 .. CountChunks - 1
Executors == 0 .. CountExecutors - 1
Appliers == 1 .. CountAppliers
Least(a, b) == IF a < b THEN a ELSE b

VARIABLES
  distribution,                                  \* tile_distribution
  main, runs, iteration, converged, shutdown,    \* executeAlgorithm, destroy
  filled, changes,                               \* tiles with edges
  due,                                           \* of those, since it began
  distributor, cursor, batch, ring,              \* TileDistributor
  executor, work, gathered, index, currentTile,  \* AlgorithmExecutor
  pulled,                                        \* times a tile was applied
  applier, mine, settled, currentChunk,          \* ApplyExecutor
  differ,                                        \* chunks where next # current
  examined, changed                              \* times a chunk was, and which

mainVars == <<main, runs, iteration, converged, shutdown>>
edgeVars == <<filled, changes, due>>
distVars == <<distributor, cursor, batch, ring>>
execVars == <<executor, work, gathered, index, currentTile, pulled>>
applyVars == <<applier, mine, settled, currentChunk, examined>>
chunkVars == <<differ, changed>>
vars == <<distribution, mainVars, edgeVars, distVars, execVars, applyVars,
          chunkVars>>

Batch(tiles) == [shutdown |-> FALSE, tiles |-> tiles]
EndOfIteration == [shutdown |-> TRUE, tiles |-> {}]

Init ==
  /\ distribution \in Distributions
  /\ main = "idle" /\ runs = 0 /\ iteration = 0
  /\ converged = FALSE /\ shutdown = FALSE
  /\ filled \in Fillings /\ changes = 0 /\ due = {}
  /\ distributor = IF distribution = "distributor" THEN "waiting" ELSE "none"
  /\ cursor = 0 /\ batch = {} /\ ring = <<>>
  /\ executor = [e \in Executors |-> "waiting"]
  /\ work = [e \in Executors |-> {}] /\ gathered = [e \in Executors |-> {}]
  /\ index = [e \in Executors |-> 0] /\ currentTile = 0
  /\ pulled = [t \in Tiles |-> 0]
  /\ applier = [a \in Appliers |-> "waiting"]
  /\ mine = [a \in Appliers |-> 0] /\ settled = [a \in Appliers |-> TRUE]
  /\ currentChunk = 0 /\ examined = [c \in Chunks |-> 0]
  /\ differ = {} /\ changed = {}

(***************************************************************************)
(* The managers insert and delete edges: between runs, or during them in   *)
(* the lazy mode.                                                          *)
(***************************************************************************)
EdgesChange ==
  /\ main # "over" /\ (Lazy \/ main = "idle")
  /\ changes < MaxChanges /\ changes' = changes + 1
  /\ \E t \in Tiles :
       \/ t \notin filled /\ filled' = filled \union {t} /\ due' = due
       \/ t \in filled /\ filled' = filled \ {t} /\ due' = due \ {t}
  /\ UNCHANGED <<distribution, mainVars, distVars, execVars, applyVars,
                 chunkVars>>

StartRun ==
  /\ main = "idle" /\ runs < MaxRuns
  /\ main' = "start" /\ runs' = runs + 1
  /\ iteration' = 0 /\ converged' = FALSE
  /\ UNCHANGED <<distribution, shutdown, edgeVars, distVars, execVars,
                 applyVars, chunkVars>>

\* td_barrier_: main, the executors and, if there is one, the distributor.
AtStartBarrier ==
  /\ \A e \in Executors : executor[e] = "waiting"
  /\ distributor \in {"waiting", "none"}

StartIteration ==
  /\ AtStartBarrier /\ main = "start" /\ ~shutdown
  /\ main' = "pulling"
  /\ executor' = [e \in Executors |-> "receive"]
  /\ distributor' = IF distributor = "none" THEN "none" ELSE "schedule"
  /\ cursor' = 0 /\ batch' = {}
  /\ due' = filled /\ changed' = {}
  /\ pulled' = [t \in Tiles |-> 0] /\ examined' = [c \in Chunks |-> 0]
  /\ UNCHANGED <<distribution, runs, iteration, converged, shutdown, filled,
                 changes, ring, work, gathered, index, currentTile, applier,
                 mine, settled, currentChunk, differ>>

(***************************************************************************)
(* TileDistributor::scheduleTiles.  Empty tiles are skipped; a batch is    *)
(* sent when it has Batching tiles, when it has too many edges (of which   *)
(* the model does not know, so at any tile), and after the last tile.      *)
(***************************************************************************)
LookThenSendAfter(last) ==
  /\ distributor = "schedule" /\ cursor < CountTiles
  /\ batch' = IF cursor \in filled THEN batch \union {cursor} ELSE batch
  /\ cursor' = cursor + 1
  /\ \/ batch' # {} /\ distributor' = "send"
     \/ /\ Cardinality(batch') < Batching /\ (batch' = {} \/ cursor # last)
        /\ distributor' = "schedule"
  /\ UNCHANGED <<distribution, mainVars, edgeVars, ring, execVars, applyVars,
                 chunkVars>>
LookKeepingRest == LookThenSendAfter(CountTiles)
LookAtTile == LookThenSendAfter(CountTiles - 1)

SendBatch ==
  /\ distributor = "send" /\ Len(ring) < RingRoom
  /\ ring' = Append(ring, Batch(batch))
  /\ batch' = {} /\ distributor' = "schedule"
  /\ UNCHANGED <<distribution, mainVars, edgeVars, cursor, execVars, applyVars,
                 chunkVars>>

\* One shutdown message per executor; cursor counts on from CountTiles.
SendEnds(count) ==
  /\ distributor = "schedule" /\ cursor \in CountTiles .. CountTiles + count - 1
  /\ Len(ring) < RingRoom
  /\ ring' = Append(ring, EndOfIteration)
  /\ cursor' = cursor + 1
  /\ distributor' = IF cursor' = CountTiles + count THEN "waiting"
                                                    ELSE "schedule"
  /\ UNCHANGED <<distribution, mainVars, edgeVars, batch, execVars, applyVars,
                 chunkVars>>
SendOneEndOnly == SendEnds(1)
SendEnd == SendEnds(CountExecutors)

(***************************************************************************)
(* AlgorithmExecutor::run.  What it receives is the tiles of a message, or *)
(* a range drawn from the shared counter, or the next piece of its share.  *)
(***************************************************************************)
Take(e, tiles, finished) ==
  /\ work' = [work EXCEPT ![e] = tiles]
  /\ executor' = [executor EXCEPT ![e] = IF finished THEN "done" ELSE "pull"]

Receive(e) ==
  /\ distribution = "distributor" /\ executor[e] = "receive" /\ ring # <<>>
  /\ ring' = Tail(ring)
  /\ Take(e, Head(ring).tiles, Head(ring).shutdown)
  /\ UNCHANGED <<distribution, mainVars, edgeVars, distributor, cursor, batch,
                 gathered, index, currentTile, pulled, applyVars, chunkVars>>

Draw(e) ==
  /\ distribution = "atomics" /\ executor[e] = "receive"
  /\ Take(e, currentTile .. Least(currentTile + Batching, CountTiles) - 1,
          currentTile >= CountTiles)
  /\ currentTile' = currentTile + Batching
  /\ UNCHANGED <<distribution, mainVars, edgeVars, distVars, gathered, index,
                 pulled, applyVars, chunkVars>>

\* A share is rounded down: the tiles past the last share are in nobody's, and
\* what is inserted into them never reaches a vertex.
Share == CountTiles \div CountExecutors
Served == IF distribution = "static" THEN 0 .. CountExecutors * Share - 1
                                     ELSE Tiles
NextPiece(e) ==
  LET start == e * Share + index[e]
  IN /\ distribution = "static" /\ executor[e] = "receive"
     /\ index' = [index EXCEPT ![e] = @ + Batching]
     /\ Take(e, start .. Least(start + Batching, (e + 1) * Share) - 1,
             start >= (e + 1) * Share)
     /\ UNCHANGED <<distribution, mainVars, edgeVars, distVars, gathered,
                    currentTile, pulled, applyVars, chunkVars>>

\* executeTile: an empty tile is skipped, the results of others gathered.
ExecuteTile(e) ==
  /\ executor[e] = "pull"
  /\ \E t \in work[e] :
       /\ \A u \in work[e] : t <= u
       /\ work' = [work EXCEPT ![e] = @ \ {t}]
       /\ gathered' = [gathered EXCEPT
                         ![e] = IF t \in filled THEN @ \union {t} ELSE @]
  /\ UNCHANGED <<distribution, mainVars, edgeVars, distVars, executor, index,
                 currentTile, pulled, applyVars, chunkVars>>

\* applyTiles: the results reach the next array and may change vertices.
ApplyTiles(e) ==
  /\ executor[e] = "pull" /\ work[e] = {}
  /\ executor' = [executor EXCEPT ![e] = "receive"]
  /\ pulled' = [t \in Tiles |-> pulled[t] + (IF t \in gathered[e] THEN 1 ELSE 0)]
  /\ gathered' = [gathered EXCEPT ![e] = {}]
  /\ \E c \in IF gathered[e] = {} THEN {{}} ELSE SUBSET Chunks :
       differ' = differ \union c /\ changed' = changed \union c
  /\ UNCHANGED <<distribution, mainVars, edgeVars, distVars, work, index,
                 currentTile, applyVars>>

ExecutorNext(e) ==
  Receive(e) \/ Draw(e) \/ NextPiece(e) \/ ExecuteTile(e) \/ ApplyTiles(e)

\* pull_barrier_: main and the executors.
PullBarrierOf(arrived) ==
  /\ main = "pulling" /\ \A e \in arrived : executor[e] = "done"
  /\ main' = "collect"
  /\ executor' = [e \in Executors |->
                    IF executor[e] = "done" THEN "waiting" ELSE executor[e]]
  /\ UNCHANGED <<distribution, runs, iteration, converged, shutdown, edgeVars,
                 distVars, work, gathered, index, currentTile, pulled,
                 applyVars, chunkVars>>
PullBarrierShort == PullBarrierOf({0})
PullBarrier == PullBarrierOf(Executors)

\* The statistics of every executor are read and reset; so are its counters.
Collect ==
  /\ main = "collect" /\ main' = "apply"
  /\ index' = [e \in Executors |-> 0] /\ currentTile' = 0
  /\ UNCHANGED <<distribution, runs, iteration, converged, shutdown, edgeVars,
                 distVars, executor, work, gathered, pulled, applyVars,
                 chunkVars>>

(***************************************************************************)
(* ApplyExecutor::run between its two waits at apply_barrier_.             *)
(***************************************************************************)
StartApply ==
  /\ main = "apply" /\ ~shutdown /\ \A a \in Appliers : applier[a] = "waiting"
  /\ main' = "applying"
  /\ applier' = [a \in Appliers |-> "claim"]
  /\ settled' = [a \in Appliers |-> TRUE]
  /\ UNCHANGED <<distribution, runs, iteration, converged, shutdown, edgeVars,
                 distVars, execVars, mine, currentChunk, examined, chunkVars>>

\* An applier stops once it has drawn a chunk past the last one.
Claim(a) ==
  /\ applier[a] = "claim"
  /\ mine' = [mine EXCEPT ![a] = currentChunk]
  /\ currentChunk' = currentChunk + 1
  /\ applier' = [applier EXCEPT
                   ![a] = IF currentChunk < CountChunks THEN "examine" ELSE "done"]
  /\ UNCHANGED <<distribution, mainVars, edgeVars, distVars, execVars, settled,
                 examined, chunkVars>>

\* apply is false for a vertex whose next value differs, and copies it.
Examine(a) ==
  /\ applier[a] = "examine"
  /\ settled' = [settled EXCEPT ![a] = @ /\ mine[a] \notin differ]
  /\ differ' = differ \ {mine[a]}
  /\ examined' = [examined EXCEPT ![mine[a]] = @ + 1]
  /\ applier' = [applier EXCEPT ![a] = "claim"]
  /\ UNCHANGED <<distribution, mainVars, edgeVars, distVars, execVars, mine,
                 currentChunk, changed>>

\* One of those who leave the second wait, any of them, is the serial thread;
\* it resets the shared counter when it gets to it.
EndApply ==
  /\ main = "applying" /\ \A a \in Appliers : applier[a] = "done"
  /\ \E serial \in {0} \union Appliers :
       /\ main' = IF serial = 0 THEN "reset" ELSE "decide"
       /\ applier' = [a \in Appliers |->
                        IF serial = a THEN "reset" ELSE "waiting"]
  /\ UNCHANGED <<distribution, runs, iteration, converged, shutdown, edgeVars,
                 distVars, execVars, mine, settled, currentChunk, examined,
                 chunkVars>>

ResetByApplier(a) ==
  /\ applier[a] = "reset"
  /\ applier' = [applier EXCEPT ![a] = "waiting"]
  /\ currentChunk' = 0
  /\ UNCHANGED <<distribution, mainVars, edgeVars, distVars, execVars, mine,
                 settled, examined, chunkVars>>

ApplierNext(a) == Claim(a) \/ Examine(a) \/ ResetByApplier(a)

ResetByMain ==
  /\ main = "reset" /\ main' = "decide"
  /\ currentChunk' = 0
  /\ UNCHANGED <<distribution, runs, iteration, converged, shutdown, edgeVars,
                 distVars, execVars, applier, mine, settled, examined,
                 chunkVars>>

\* checkConvergence; the vertices are reset only if there is another iteration.
Decide ==
  LET all == \A a \in Appliers : settled[a]
      last == iteration + 1 = Iterations
  IN /\ main = "decide"
     /\ converged' = all
     /\ iteration' = IF all THEN iteration ELSE iteration + 1
     /\ main' = IF all \/ last THEN "idle" ELSE "start"
     /\ UNCHANGED <<distribution, runs, shutdown, edgeVars, distVars, execVars,
                    applyVars, chunkVars>>

(***************************************************************************)
(* ContinuousAlgorithmExecutor::destroy, once nobody starts another run:   *)
(* the flag is set, the threads are let out of both barriers and joined.   *)
(***************************************************************************)
Destroy ==
  /\ main = "idle"
  /\ shutdown' = TRUE /\ main' = "stop"
  /\ UNCHANGED <<distribution, runs, iteration, converged, edgeVars, distVars,
                 execVars, applyVars, chunkVars>>

StopPullers ==
  /\ AtStartBarrier /\ main = "stop" /\ shutdown
  /\ main' = "stopAppliers"
  /\ executor' = [e \in Executors |-> "over"]
  /\ distributor' = IF distributor = "none" THEN "none" ELSE "over"
  /\ UNCHANGED <<distribution, runs, iteration, converged, shutdown, edgeVars,
                 cursor, batch, ring, work, gathered, index, currentTile,
                 pulled, applyVars, chunkVars>>

StopAppliers ==
  /\ main = "stopAppliers" /\ shutdown
  /\ \A a \in Appliers : applier[a] = "waiting"
  /\ main' = "over" /\ applier' = [a \in Appliers |-> "over"]
  /\ UNCHANGED <<distribution, runs, iteration, converged, shutdown, edgeVars,
                 distVars, execVars, mine, settled, currentChunk, examined,
                 chunkVars>>

MainNext ==
  \/ StartRun \/ StartIteration \/ PullBarrier \/ Collect
  \/ StartApply \/ EndApply \/ ResetByMain \/ Decide
  \/ Destroy \/ StopPullers \/ StopAppliers
DistributorNext == LookAtTile \/ SendBatch \/ SendEnd

Next ==
  \/ MainNext \/ DistributorNext \/ EdgesChange
  \/ \E e \in Executors : ExecutorNext(e)
  \/ \E a \in Appliers : ApplierNext(a)

Spec == Init /\ [][Next]_vars

\* The scheduler runs every thread that is not waiting; a barrier opens when
\* the last of its threads has come.  Nothing makes edges arrive.
FairSpec ==
  /\ Spec
  /\ WF_vars(MainNext) /\ WF_vars(DistributorNext)
  /\ \A e \in Executors : WF_vars(ExecutorNext(e))
  /\ \A a \in Appliers : WF_vars(ApplierNext(a))

(***************************************************************************)
(* Properties.                                                             *)
(***************************************************************************)
\* No vertex is applied while a pull may still write to it, and the counters
\* of a phase are zero when it starts: their resets, by the thread that runs
\* the algorithm and by the serial thread of the barrier, are over by then.
PhasesApart ==
  /\ (\E a \in Appliers : applier[a] \in {"claim", "examine"})
       => \A e \in Executors : executor[e] = "waiting"
  /\ (main = "start") => currentTile = 0 /\ \A e \in Executors : index[e] = 0
  /\ (main = "apply" /\ \A a \in Appliers : applier[a] = "waiting")
       => currentChunk = 0

\* The iteration keeps the promise of BulkSynchronous: it pulls every tile that
\* is due, but for those that the static distribution gives to no executor.
Promise == INSTANCE BulkSynchronous WITH
  phase <- IF main \in {"pulling", "collect"} THEN "pull"
           ELSE IF main \in {"apply", "applying", "reset", "decide"}
           THEN "apply" ELSE "idle",
  served <- Served, unsettled <- changed, verdict <- converged
KeepsPromise == Promise!Spec

\* Every run ends and destroy gets every thread out of its barriers.
Ends == <>(main = "over")
================================================================================
