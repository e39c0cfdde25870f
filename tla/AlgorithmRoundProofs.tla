------------------------- MODULE AlgorithmRoundProofs -------------------------
(***************************************************************************)
(* Proofs about AlgorithmRound for any number of tiles, chunks, executors, *)
(* appliers, iterations and runs, and any way of handing out tiles:        *)
(*   - the phases of an iteration do not overlap (PhasesApart);            *)
(*   - a tile is in one place at a time between the distributor and the    *)
(*     next array, and a tile that is due is never nowhere unless it is in *)
(*     the rest that static shares leave over (Scheduling);                *)
(*   - a chunk is examined once, and the appliers settle exactly if no     *)
(*     chunk has changed (Applying);                                       *)
(* and from these that every iteration implements BulkSynchronous.         *)
(***************************************************************************)
EXTENDS AlgorithmRound, FiniteSetTheorems, TLAPS

MainPlaces == {"idle", "start", "pulling", "collect", "apply", "applying", "reset",
               "decide", "stop", "stopAppliers", "over"}
Messages == [shutdown : BOOLEAN, tiles : SUBSET Tiles]

EdgeShapes == filled \in SUBSET Tiles /\ due \in SUBSET filled
DistShapes ==
  /\ distribution \in {"distributor", "atomics", "static"}
  /\ distributor \in {"none", "waiting", "schedule", "send", "over"}
  /\ cursor \in Nat /\ batch \in SUBSET Tiles
  /\ ring \in Seq(Messages)
  /\ \A i \in 1 .. Len(ring) : ring[i].shutdown => ring[i].tiles = {}
ExecShapes ==
  /\ executor \in [Executors -> {"waiting", "receive", "pull", "done", "over"}]
  /\ work \in [Executors -> SUBSET Tiles] /\ gathered \in [Executors -> SUBSET Tiles]
  /\ index \in [Executors -> Nat] /\ currentTile \in Nat
  /\ pulled \in [Tiles -> Nat]
ApplyShapes ==
  /\ applier \in [Appliers -> {"waiting", "claim", "examine", "done", "reset", "over"}]
  /\ mine \in [Appliers -> Nat] /\ settled \in [Appliers -> BOOLEAN]
  /\ currentChunk \in Nat /\ examined \in [Chunks -> Nat]
  /\ differ \in SUBSET Chunks /\ changed \in SUBSET Chunks
Shapes == main \in MainPlaces /\ EdgeShapes /\ DistShapes /\ ExecShapes /\ ApplyShapes

(***************************************************************************)
(* Where the threads are when main is somewhere, and which counters are    *)
(* zero then.                                                              *)
(***************************************************************************)
Pullers ==
  /\ \A e \in Executors :
       /\ executor[e] \notin {"waiting", "over"} => main = "pulling"
       /\ executor[e] = "over" => main \in {"stopAppliers", "over"}
       /\ executor[e] # "pull" => work[e] = {} /\ gathered[e] = {}
  /\ main \notin {"pulling", "collect"} =>
       currentTile = 0 /\ \A e \in Executors : index[e] = 0
Resetting == \E a \in Appliers : applier[a] = "reset"
Settlers ==
  /\ \A a \in Appliers : applier[a] \in {"claim", "examine", "done"} <=> main = "applying"
  /\ Resetting => main # "reset"
  /\ main \notin {"applying", "reset"} /\ ~Resetting => currentChunk = 0

Phases == Shapes /\ Pullers /\ Settlers
-------------------------------------------------------------------------------
(* The shares of the static distribution.                                  *)
First(e) == e * Share
Last(e) == (e + 1) * Share

LEMMA Products ==
  ASSUME NEW m \in Nat, NEW n \in Nat, NEW k \in Nat, m <= n
  PROVE  m * k \in Nat /\ m * k <= n * k
OBVIOUS

LEMMA ShareIsNat == Share \in Nat /\ CountExecutors * Share <= CountTiles
BY CountsAssumption DEF Share

LEMMA SharesFit ==
  ASSUME NEW e \in Executors
  PROVE  /\ First(e) \in Nat /\ Last(e) \in Nat
         /\ First(e) <= Last(e) /\ Last(e) <= CountTiles
<1>1. e \in Nat /\ e + 1 \in Nat /\ e + 1 <= CountExecutors /\ CountExecutors \in Nat
  BY CountsAssumption DEF Executors
<1>2. First(e) \in Nat /\ First(e) <= Last(e)
  BY <1>1, ShareIsNat, Products DEF First, Last
<1>3. Last(e) \in Nat /\ Last(e) <= CountExecutors * Share
  BY <1>1, ShareIsNat, Products DEF Last
<1>4. CountTiles \in Nat /\ CountExecutors * Share \in Nat
  BY CountsAssumption, ShareIsNat
<1> QED
  BY <1>2, <1>3, <1>4, ShareIsNat

LEMMA SharesWithin ==
  ASSUME NEW e \in Executors
  PROVE  CountExecutors * Share \in Nat /\ Last(e) <= CountExecutors * Share
<1>1. e + 1 \in Nat /\ e + 1 <= CountExecutors /\ CountExecutors \in Nat
  BY CountsAssumption DEF Executors
<1> QED
  BY <1>1, ShareIsNat, Products DEF Last

LEMMA SharesApart ==
  ASSUME NEW e \in Executors, NEW q \in Executors, e # q
  PROVE  Last(e) <= First(q) \/ Last(q) <= First(e)
<1>1. /\ e \in Nat /\ q \in Nat /\ e + 1 \in Nat /\ q + 1 \in Nat
      /\ e + 1 <= q \/ q + 1 <= e
  BY DEF Executors
<1> QED
  BY <1>1, ShareIsNat, Products DEF First, Last

LEMMA SharesCover ==
  ASSUME NEW t \in 0 .. CountExecutors * Share - 1
  PROVE  \E e \in Executors : First(e) <= t /\ t < Last(e)
<1>1. CountExecutors \in Nat \ {0} /\ Share \in Nat
  BY CountsAssumption, ShareIsNat
<1>2. CountExecutors * Share \in Nat
  BY <1>1
<1>3. t \in Nat /\ t < CountExecutors * Share
  BY <1>2
<1>4. Share \in Nat \ {0}
  BY <1>1, <1>3
<1> DEFINE e == t \div Share
<1>5. e \in Nat /\ e * Share <= t /\ t < (e + 1) * Share
  BY <1>1, <1>4
<1> HIDE DEF e
<1>6. e < CountExecutors
  <2>1. ASSUME CountExecutors <= e PROVE FALSE
    <3>1. CountExecutors * Share <= e * Share
      BY <2>1, <1>1, <1>4, <1>5, Products
    <3> QED
      BY <3>1, <1>1, <1>3, <1>4, <1>5
  <2> QED
    BY <2>1, <1>1, <1>5
<1> QED
  BY <1>1, <1>5, <1>6 DEF Executors, First, Last
-------------------------------------------------------------------------------
(* The phases keep apart: one lemma per action.                            *)

(* Sending and receiving keep the ring a sequence of messages.             *)
LEMMA Sent ==
  ASSUME NEW r \in Seq(Messages), NEW m \in Messages
  PROVE  /\ Append(r, m) \in Seq(Messages) /\ Len(Append(r, m)) = Len(r) + 1
         /\ \A i \in 1 .. Len(r) : Append(r, m)[i] = r[i]
         /\ Append(r, m)[Len(r) + 1] = m
OBVIOUS

LEMMA Received ==
  ASSUME NEW r \in Seq(Messages), r # <<>>
  PROVE  /\ Tail(r) \in Seq(Messages) /\ Len(Tail(r)) = Len(r) - 1
         /\ Len(r) \in Nat /\ Len(r) > 0
         /\ \A i \in 1 .. Len(r) - 1 : Tail(r)[i] = r[i + 1]
         /\ Head(r) = r[1] /\ r[1] \in Messages
OBVIOUS

LEMMA CountedOn ==
  ASSUME NEW S, NEW f \in [S -> Nat], NEW x
  PROVE  [f EXCEPT ![x] = @ + 1] \in [S -> Nat]
<1>1. CASE x \in S
  BY <1>1
<1>2. CASE x \notin S
  <2>1. [f EXCEPT ![x] = @ + 1] = f
    BY <1>2
  <2> QED
    BY <2>1
<1> QED
  BY <1>1, <1>2

(* What an executor takes; the tiles are none when it is told to finish.   *)
LEMMA Taken ==
  ASSUME Phases, NEW e \in Executors, executor[e] = "receive",
         NEW tiles \in SUBSET Tiles, NEW finished \in BOOLEAN,
         finished => tiles = {}, Take(e, tiles, finished), UNCHANGED main,
         UNCHANGED <<gathered, pulled>>, index' \in [Executors -> Nat],
         currentTile' \in Nat
  PROVE  ExecShapes' /\ Pullers'
<1>1. work' = [work EXCEPT ![e] = tiles]
  BY DEF Take
<1>2. /\ executor' = [executor EXCEPT ![e] = executor'[e]]
      /\ executor'[e] \in {"pull", "done"}
      /\ executor'[e] = "done" => tiles = {}
  BY DEF Take, Phases, Shapes, ExecShapes
<1>3. ExecShapes'
  BY <1>1, <1>2 DEF Phases, Shapes, ExecShapes
<1>4. main = "pulling"
  BY DEF Phases, Pullers
<1>5. Pullers'
  BY <1>1, <1>2, <1>4 DEF Phases, Shapes, ExecShapes, Pullers
<1> QED
  BY <1>3, <1>5

LEMMA EdgesChangePhases ==
  ASSUME Phases, EdgesChange
  PROVE  Phases'
<1> USE DEF Phases, EdgesChange,
            mainVars, edgeVars, distVars, execVars, applyVars, chunkVars
<1>1. EdgeShapes'
  BY DEF Shapes, EdgeShapes
<1>2. DistShapes'
  BY DEF Shapes, DistShapes
<1>3. ExecShapes'
  BY DEF Shapes, ExecShapes
<1>4. ApplyShapes'
  BY DEF Shapes, ApplyShapes
<1>5. main' \in MainPlaces
  BY DEF Shapes, MainPlaces
<1>6. Pullers'
  BY DEF Shapes, ExecShapes, Pullers
<1>7. Settlers'
  BY DEF Shapes, ApplyShapes, Settlers, Resetting
<1> QED
  BY <1>1, <1>2, <1>3, <1>4, <1>5, <1>6, <1>7 DEF Shapes

LEMMA StartRunPhases ==
  ASSUME Phases, StartRun
  PROVE  Phases'
<1> USE DEF Phases, StartRun,
            mainVars, edgeVars, distVars, execVars, applyVars, chunkVars
<1>1. EdgeShapes'
  BY DEF Shapes, EdgeShapes
<1>2. DistShapes'
  BY DEF Shapes, DistShapes
<1>3. ExecShapes'
  BY DEF Shapes, ExecShapes
<1>4. ApplyShapes'
  BY DEF Shapes, ApplyShapes
<1>5. main' \in MainPlaces
  BY DEF Shapes, MainPlaces
<1>6. Pullers'
  BY DEF Shapes, ExecShapes, Pullers
<1>7. Settlers'
  BY DEF Shapes, ApplyShapes, Settlers, Resetting
<1> QED
  BY <1>1, <1>2, <1>3, <1>4, <1>5, <1>6, <1>7 DEF Shapes

LEMMA StartIterationPhases ==
  ASSUME Phases, StartIteration
  PROVE  Phases'
<1> USE DEF Phases, StartIteration,
            mainVars, edgeVars, distVars, execVars, applyVars, chunkVars
<1>1. EdgeShapes'
  BY DEF Shapes, EdgeShapes
<1>2. DistShapes'
  BY DEF Shapes, DistShapes
<1>3. ExecShapes'
  BY DEF Shapes, ExecShapes
<1>4. ApplyShapes'
  BY DEF Shapes, ApplyShapes
<1>5. main' \in MainPlaces
  BY DEF Shapes, MainPlaces
<1>6. Pullers'
  BY DEF Shapes, ExecShapes, Pullers
<1>7. Settlers'
  BY DEF Shapes, ApplyShapes, Settlers, Resetting
<1> QED
  BY <1>1, <1>2, <1>3, <1>4, <1>5, <1>6, <1>7 DEF Shapes

LEMMA LookAtTilePhases ==
  ASSUME Phases, LookAtTile
  PROVE  Phases'
<1> USE DEF Phases, LookAtTile, LookThenSendAfter,
            mainVars, edgeVars, distVars, execVars, applyVars, chunkVars
<1>1. EdgeShapes'
  BY DEF Shapes, EdgeShapes
<1>2. DistShapes'
  <2>1. cursor < CountTiles => cursor \in Tiles
    BY CountsAssumption DEF Shapes, DistShapes, Tiles
  <2> QED
    BY <2>1 DEF Shapes, DistShapes
<1>3. ExecShapes'
  BY DEF Shapes, ExecShapes
<1>4. ApplyShapes'
  BY DEF Shapes, ApplyShapes
<1>5. main' \in MainPlaces
  BY DEF Shapes, MainPlaces
<1>6. Pullers'
  BY DEF Shapes, ExecShapes, Pullers
<1>7. Settlers'
  BY DEF Shapes, ApplyShapes, Settlers, Resetting
<1> QED
  BY <1>1, <1>2, <1>3, <1>4, <1>5, <1>6, <1>7 DEF Shapes

LEMMA SendBatchPhases ==
  ASSUME Phases, SendBatch
  PROVE  Phases'
<1> USE DEF Phases, SendBatch,
            mainVars, edgeVars, distVars, execVars, applyVars, chunkVars
<1>1. EdgeShapes'
  BY DEF Shapes, EdgeShapes
<1>2. DistShapes'
  <2>1. ring' = Append(ring, Batch(batch)) /\ ring \in Seq(Messages)
    BY DEF Shapes, DistShapes
  <2>2. Batch(batch) \in Messages /\ Batch(batch).shutdown = FALSE
    BY DEF Shapes, DistShapes, Batch, Messages
  <2>3. \A i \in 1 .. Len(ring') : ring'[i].shutdown => ring'[i].tiles = {}
    BY <2>1, <2>2, Sent DEF Shapes, DistShapes
  <2>4. ring' \in Seq(Messages)
    BY <2>1, <2>2, Sent
  <2> QED
    BY <2>3, <2>4 DEF Shapes, DistShapes
<1>3. ExecShapes'
  BY DEF Shapes, ExecShapes
<1>4. ApplyShapes'
  BY DEF Shapes, ApplyShapes
<1>5. main' \in MainPlaces
  BY DEF Shapes, MainPlaces
<1>6. Pullers'
  BY DEF Shapes, ExecShapes, Pullers
<1>7. Settlers'
  BY DEF Shapes, ApplyShapes, Settlers, Resetting
<1> QED
  BY <1>1, <1>2, <1>3, <1>4, <1>5, <1>6, <1>7 DEF Shapes

LEMMA SendEndPhases ==
  ASSUME Phases, SendEnd
  PROVE  Phases'
<1> USE DEF Phases, SendEnd, SendEnds,
            mainVars, edgeVars, distVars, execVars, applyVars, chunkVars
<1>1. EdgeShapes'
  BY DEF Shapes, EdgeShapes
<1>2. DistShapes'
  <2>1. ring' = Append(ring, EndOfIteration) /\ ring \in Seq(Messages)
    BY DEF Shapes, DistShapes
  <2>2. EndOfIteration \in Messages /\ EndOfIteration.tiles = {}
    BY DEF EndOfIteration, Messages
  <2>3. \A i \in 1 .. Len(ring') : ring'[i].shutdown => ring'[i].tiles = {}
    BY <2>1, <2>2, Sent DEF Shapes, DistShapes
  <2>4. ring' \in Seq(Messages)
    BY <2>1, <2>2, Sent
  <2> QED
    BY <2>3, <2>4 DEF Shapes, DistShapes
<1>3. ExecShapes'
  BY DEF Shapes, ExecShapes
<1>4. ApplyShapes'
  BY DEF Shapes, ApplyShapes
<1>5. main' \in MainPlaces
  BY DEF Shapes, MainPlaces
<1>6. Pullers'
  BY DEF Shapes, ExecShapes, Pullers
<1>7. Settlers'
  BY DEF Shapes, ApplyShapes, Settlers, Resetting
<1> QED
  BY <1>1, <1>2, <1>3, <1>4, <1>5, <1>6, <1>7 DEF Shapes

LEMMA ReceivePhases ==
  ASSUME Phases, NEW e \in Executors, Receive(e)
  PROVE  Phases'
<1> USE DEF Phases, Receive,
            mainVars, edgeVars, distVars, execVars, applyVars, chunkVars
<1>0. ExecShapes' /\ Pullers'
  <2>1. /\ Head(ring) = ring[1] /\ ring[1] \in Messages /\ 1 \in 1 .. Len(ring)
    BY Received DEF Shapes, DistShapes
  <2>2. /\ Head(ring).tiles \in SUBSET Tiles /\ Head(ring).shutdown \in BOOLEAN
        /\ Head(ring).shutdown => Head(ring).tiles = {}
    BY <2>1 DEF Shapes, DistShapes, Messages
  <2> QED
    BY <2>2, Taken DEF Shapes, ExecShapes
<1>1. EdgeShapes'
  BY DEF Shapes, EdgeShapes
<1>2. DistShapes'
  <2>1. /\ ring' = Tail(ring) /\ ring \in Seq(Messages) /\ ring # <<>>
    BY DEF Shapes, DistShapes
  <2>2. \A i \in 1 .. Len(ring') : ring'[i].shutdown => ring'[i].tiles = {}
    BY <2>1, Received DEF Shapes, DistShapes
  <2> QED
    BY <2>1, <2>2, Received DEF Shapes, DistShapes
<1>3. ExecShapes'
  BY <1>0
<1>4. ApplyShapes'
  BY DEF Shapes, ApplyShapes
<1>5. main' \in MainPlaces
  BY DEF Shapes, MainPlaces
<1>6. Pullers'
  BY <1>0
<1>7. Settlers'
  BY DEF Shapes, ApplyShapes, Settlers, Resetting
<1> QED
  BY <1>1, <1>2, <1>3, <1>4, <1>5, <1>6, <1>7 DEF Shapes

LEMMA DrawPhases ==
  ASSUME Phases, NEW e \in Executors, Draw(e)
  PROVE  Phases'
<1> USE DEF Phases, Draw,
            mainVars, edgeVars, distVars, execVars, applyVars, chunkVars
<1>0. ExecShapes' /\ Pullers'
  <2> DEFINE range == currentTile .. Least(currentTile + Batching, CountTiles) - 1
             finished == currentTile >= CountTiles
  <2>1. /\ currentTile \in Nat /\ CountTiles \in Nat /\ Batching \in Nat
    BY CountsAssumption DEF Shapes, ExecShapes
  <2>2. range \in SUBSET Tiles /\ (finished => range = {})
    BY <2>1 DEF Least, Tiles
  <2>3. currentTile' \in Nat /\ index' \in [Executors -> Nat]
    BY <2>1 DEF Shapes, ExecShapes
  <2>4. /\ executor[e] = "receive" /\ Take(e, range, finished)
        /\ UNCHANGED <<main, gathered, pulled>>
    OBVIOUS
  <2>5. finished \in BOOLEAN
    BY DEF finished
  <2> HIDE DEF range, finished, Draw
  <2> QED
    BY <2>2, <2>3, <2>4, <2>5, Taken
<1>1. EdgeShapes'
  BY DEF Shapes, EdgeShapes
<1>2. DistShapes'
  BY DEF Shapes, DistShapes
<1>3. ExecShapes'
  BY <1>0
<1>4. ApplyShapes'
  BY DEF Shapes, ApplyShapes
<1>5. main' \in MainPlaces
  BY DEF Shapes, MainPlaces
<1>6. Pullers'
  BY <1>0
<1>7. Settlers'
  BY DEF Shapes, ApplyShapes, Settlers, Resetting
<1> QED
  BY <1>1, <1>2, <1>3, <1>4, <1>5, <1>6, <1>7 DEF Shapes

LEMMA NextPiecePhases ==
  ASSUME Phases, NEW e \in Executors, NextPiece(e)
  PROVE  Phases'
<1> USE DEF Phases, NextPiece,
            mainVars, edgeVars, distVars, execVars, applyVars, chunkVars
<1>0. ExecShapes' /\ Pullers'
  <2> DEFINE start == First(e) + index[e]
             range == start .. Least(start + Batching, Last(e)) - 1
             finished == start >= Last(e)
  <2>1. /\ First(e) \in Nat /\ Last(e) \in Nat /\ Last(e) <= CountTiles
        /\ CountTiles \in Nat /\ Batching \in Nat /\ index[e] \in Nat
    BY CountsAssumption, SharesFit DEF Shapes, ExecShapes
  <2>2. range \in SUBSET Tiles /\ (finished => range = {})
    BY <2>1 DEF Least, Tiles
  <2>3. index' \in [Executors -> Nat]
    BY <2>1 DEF Shapes, ExecShapes
  <2>4. /\ executor[e] = "receive" /\ Take(e, range, finished)
        /\ UNCHANGED <<main, gathered, pulled>>
    BY DEF First, Last
  <2>5. finished \in BOOLEAN
    BY DEF finished
  <2>6. currentTile' \in Nat
    BY DEF Shapes, ExecShapes
  <2> HIDE DEF range, finished, NextPiece
  <2> QED
    BY <2>2, <2>3, <2>4, <2>5, <2>6, Taken
<1>1. EdgeShapes'
  BY DEF Shapes, EdgeShapes
<1>2. DistShapes'
  BY DEF Shapes, DistShapes
<1>3. ExecShapes'
  BY <1>0
<1>4. ApplyShapes'
  BY DEF Shapes, ApplyShapes
<1>5. main' \in MainPlaces
  BY DEF Shapes, MainPlaces
<1>6. Pullers'
  BY <1>0
<1>7. Settlers'
  BY DEF Shapes, ApplyShapes, Settlers, Resetting
<1> QED
  BY <1>1, <1>2, <1>3, <1>4, <1>5, <1>6, <1>7 DEF Shapes

LEMMA ExecuteTilePhases ==
  ASSUME Phases, NEW e \in Executors, ExecuteTile(e)
  PROVE  Phases'
<1> USE DEF Phases, ExecuteTile,
            mainVars, edgeVars, distVars, execVars, applyVars, chunkVars
<1>1. EdgeShapes'
  BY DEF Shapes, EdgeShapes
<1>2. DistShapes'
  BY DEF Shapes, DistShapes
<1>3. ExecShapes'
  BY DEF Shapes, ExecShapes
<1>4. ApplyShapes'
  BY DEF Shapes, ApplyShapes
<1>5. main' \in MainPlaces
  BY DEF Shapes, MainPlaces
<1>6. Pullers'
  BY DEF Shapes, ExecShapes, Pullers
<1>7. Settlers'
  BY DEF Shapes, ApplyShapes, Settlers, Resetting
<1> QED
  BY <1>1, <1>2, <1>3, <1>4, <1>5, <1>6, <1>7 DEF Shapes

LEMMA ApplyTilesPhases ==
  ASSUME Phases, NEW e \in Executors, ApplyTiles(e)
  PROVE  Phases'
<1> USE DEF Phases, ApplyTiles,
            mainVars, edgeVars, distVars, execVars, applyVars, chunkVars
<1>1. EdgeShapes'
  BY DEF Shapes, EdgeShapes
<1>2. DistShapes'
  BY DEF Shapes, DistShapes
<1>3. ExecShapes'
  BY DEF Shapes, ExecShapes
<1>4. ApplyShapes'
  BY DEF Shapes, ApplyShapes
<1>5. main' \in MainPlaces
  BY DEF Shapes, MainPlaces
<1>6. Pullers'
  BY DEF Shapes, ExecShapes, Pullers
<1>7. Settlers'
  BY DEF Shapes, ApplyShapes, Settlers, Resetting
<1> QED
  BY <1>1, <1>2, <1>3, <1>4, <1>5, <1>6, <1>7 DEF Shapes

LEMMA PullBarrierPhases ==
  ASSUME Phases, PullBarrier
  PROVE  Phases'
<1> USE DEF Phases, PullBarrier, PullBarrierOf,
            mainVars, edgeVars, distVars, execVars, applyVars, chunkVars
<1>1. EdgeShapes'
  BY DEF Shapes, EdgeShapes
<1>2. DistShapes'
  BY DEF Shapes, DistShapes
<1>3. ExecShapes'
  BY DEF Shapes, ExecShapes
<1>4. ApplyShapes'
  BY DEF Shapes, ApplyShapes
<1>5. main' \in MainPlaces
  BY DEF Shapes, MainPlaces
<1>6. Pullers'
  BY DEF Shapes, ExecShapes, Pullers
<1>7. Settlers'
  BY DEF Shapes, ApplyShapes, Settlers, Resetting
<1> QED
  BY <1>1, <1>2, <1>3, <1>4, <1>5, <1>6, <1>7 DEF Shapes

LEMMA CollectPhases ==
  ASSUME Phases, Collect
  PROVE  Phases'
<1> USE DEF Phases, Collect,
            mainVars, edgeVars, distVars, execVars, applyVars, chunkVars
<1>1. EdgeShapes'
  BY DEF Shapes, EdgeShapes
<1>2. DistShapes'
  BY DEF Shapes, DistShapes
<1>3. ExecShapes'
  BY DEF Shapes, ExecShapes
<1>4. ApplyShapes'
  BY DEF Shapes, ApplyShapes
<1>5. main' \in MainPlaces
  BY DEF Shapes, MainPlaces
<1>6. Pullers'
  BY DEF Shapes, ExecShapes, Pullers
<1>7. Settlers'
  BY DEF Shapes, ApplyShapes, Settlers, Resetting
<1> QED
  BY <1>1, <1>2, <1>3, <1>4, <1>5, <1>6, <1>7 DEF Shapes

LEMMA StartApplyPhases ==
  ASSUME Phases, StartApply
  PROVE  Phases'
<1> USE DEF Phases, StartApply,
            mainVars, edgeVars, distVars, execVars, applyVars, chunkVars
<1>1. EdgeShapes'
  BY DEF Shapes, EdgeShapes
<1>2. DistShapes'
  BY DEF Shapes, DistShapes
<1>3. ExecShapes'
  BY DEF Shapes, ExecShapes
<1>4. ApplyShapes'
  BY DEF Shapes, ApplyShapes
<1>5. main' \in MainPlaces
  BY DEF Shapes, MainPlaces
<1>6. Pullers'
  BY DEF Shapes, ExecShapes, Pullers
<1>7. Settlers'
  BY DEF Shapes, ApplyShapes, Settlers, Resetting
<1> QED
  BY <1>1, <1>2, <1>3, <1>4, <1>5, <1>6, <1>7 DEF Shapes

LEMMA ClaimPhases ==
  ASSUME Phases, NEW a \in Appliers, Claim(a)
  PROVE  Phases'
<1> USE DEF Phases, Claim,
            mainVars, edgeVars, distVars, execVars, applyVars, chunkVars
<1>1. EdgeShapes'
  BY DEF Shapes, EdgeShapes
<1>2. DistShapes'
  BY DEF Shapes, DistShapes
<1>3. ExecShapes'
  BY DEF Shapes, ExecShapes
<1>4. ApplyShapes'
  BY DEF Shapes, ApplyShapes
<1>5. main' \in MainPlaces
  BY DEF Shapes, MainPlaces
<1>6. Pullers'
  BY DEF Shapes, ExecShapes, Pullers
<1>7. Settlers'
  BY DEF Shapes, ApplyShapes, Settlers, Resetting
<1> QED
  BY <1>1, <1>2, <1>3, <1>4, <1>5, <1>6, <1>7 DEF Shapes

LEMMA ExaminePhases ==
  ASSUME Phases, NEW a \in Appliers, Examine(a)
  PROVE  Phases'
<1> USE DEF Phases, Examine,
            mainVars, edgeVars, distVars, execVars, applyVars, chunkVars
<1>1. EdgeShapes'
  BY DEF Shapes, EdgeShapes
<1>2. DistShapes'
  BY DEF Shapes, DistShapes
<1>3. ExecShapes'
  BY DEF Shapes, ExecShapes
<1>4. ApplyShapes'
  <2>1. settled' \in [Appliers -> BOOLEAN]
    BY Zenon DEF Shapes, ApplyShapes
  <2>2. /\ applier' \in [Appliers -> {"waiting", "claim", "examine", "done",
                                        "reset", "over"}]
        /\ differ' \in SUBSET Chunks
    BY DEF Shapes, ApplyShapes
  <2>3. examined' \in [Chunks -> Nat]
    <3>1. examined \in [Chunks -> Nat]
      BY DEF Shapes, ApplyShapes
    <3> HIDE DEF Phases
    <3> QED
      BY <3>1, CountedOn
  <2> QED
    BY <2>1, <2>2, <2>3 DEF Shapes, ApplyShapes
<1>5. main' \in MainPlaces
  BY DEF Shapes, MainPlaces
<1>6. Pullers'
  BY DEF Shapes, ExecShapes, Pullers
<1>7. Settlers'
  BY DEF Shapes, ApplyShapes, Settlers, Resetting
<1> QED
  BY <1>1, <1>2, <1>3, <1>4, <1>5, <1>6, <1>7 DEF Shapes

LEMMA ResetByApplierPhases ==
  ASSUME Phases, NEW a \in Appliers, ResetByApplier(a)
  PROVE  Phases'
<1> USE DEF Phases, ResetByApplier,
            mainVars, edgeVars, distVars, execVars, applyVars, chunkVars
<1>1. EdgeShapes'
  BY DEF Shapes, EdgeShapes
<1>2. DistShapes'
  BY DEF Shapes, DistShapes
<1>3. ExecShapes'
  BY DEF Shapes, ExecShapes
<1>4. ApplyShapes'
  BY DEF Shapes, ApplyShapes
<1>5. main' \in MainPlaces
  BY DEF Shapes, MainPlaces
<1>6. Pullers'
  BY DEF Shapes, ExecShapes, Pullers
<1>7. Settlers'
  BY DEF Shapes, ApplyShapes, Settlers, Resetting
<1> QED
  BY <1>1, <1>2, <1>3, <1>4, <1>5, <1>6, <1>7 DEF Shapes

LEMMA EndApplyPhases ==
  ASSUME Phases, EndApply
  PROVE  Phases'
<1> USE DEF Phases, EndApply,
            mainVars, edgeVars, distVars, execVars, applyVars, chunkVars
<1>1. EdgeShapes'
  BY DEF Shapes, EdgeShapes
<1>2. DistShapes'
  BY DEF Shapes, DistShapes
<1>3. ExecShapes'
  BY DEF Shapes, ExecShapes
<1>4. ApplyShapes'
  BY DEF Shapes, ApplyShapes
<1>5. main' \in MainPlaces
  BY DEF Shapes, MainPlaces
<1>6. Pullers'
  BY DEF Shapes, ExecShapes, Pullers
<1>7. Settlers'
  <2>1. PICK serial \in {0} \union Appliers :
          /\ main' = IF serial = 0 THEN "reset" ELSE "decide"
          /\ applier' = [x \in Appliers |-> IF serial = x THEN "reset" ELSE "waiting"]
    OBVIOUS
  <2>2. 0 \notin Appliers
    BY CountsAssumption DEF Appliers
  <2>3. CASE serial = 0
    <3>1. \A x \in Appliers : applier'[x] = "waiting"
      BY <2>1, <2>2, <2>3
    <3> QED
      BY <2>1, <2>3, <3>1 DEF Settlers, Resetting
  <2>4. CASE serial \in Appliers
    <3>1. /\ \A x \in Appliers : applier'[x] \in {"waiting", "reset"}
          /\ applier'[serial] = "reset" /\ main' = "decide"
      BY <2>1, <2>2, <2>4
    <3> QED
      BY <2>4, <3>1 DEF Settlers, Resetting
  <2> QED
    BY <2>3, <2>4
<1> QED
  BY <1>1, <1>2, <1>3, <1>4, <1>5, <1>6, <1>7 DEF Shapes

LEMMA ResetByMainPhases ==
  ASSUME Phases, ResetByMain
  PROVE  Phases'
<1> USE DEF Phases, ResetByMain,
            mainVars, edgeVars, distVars, execVars, applyVars, chunkVars
<1>1. EdgeShapes'
  BY DEF Shapes, EdgeShapes
<1>2. DistShapes'
  BY DEF Shapes, DistShapes
<1>3. ExecShapes'
  BY DEF Shapes, ExecShapes
<1>4. ApplyShapes'
  BY DEF Shapes, ApplyShapes
<1>5. main' \in MainPlaces
  BY DEF Shapes, MainPlaces
<1>6. Pullers'
  BY DEF Shapes, ExecShapes, Pullers
<1>7. Settlers'
  BY DEF Shapes, ApplyShapes, Settlers, Resetting
<1> QED
  BY <1>1, <1>2, <1>3, <1>4, <1>5, <1>6, <1>7 DEF Shapes

LEMMA DecidePhases ==
  ASSUME Phases, Decide
  PROVE  Phases'
<1> USE DEF Phases, Decide,
            mainVars, edgeVars, distVars, execVars, applyVars, chunkVars
<1>1. EdgeShapes'
  BY DEF Shapes, EdgeShapes
<1>2. DistShapes'
  BY DEF Shapes, DistShapes
<1>3. ExecShapes'
  BY DEF Shapes, ExecShapes
<1>4. ApplyShapes'
  BY DEF Shapes, ApplyShapes
<1>5. main' \in MainPlaces
  BY DEF Shapes, MainPlaces
<1>6. Pullers'
  BY DEF Shapes, ExecShapes, Pullers
<1>7. Settlers'
  BY DEF Shapes, ApplyShapes, Settlers, Resetting
<1> QED
  BY <1>1, <1>2, <1>3, <1>4, <1>5, <1>6, <1>7 DEF Shapes

LEMMA DestroyPhases ==
  ASSUME Phases, Destroy
  PROVE  Phases'
<1> USE DEF Phases, Destroy,
            mainVars, edgeVars, distVars, execVars, applyVars, chunkVars
<1>1. EdgeShapes'
  BY DEF Shapes, EdgeShapes
<1>2. DistShapes'
  BY DEF Shapes, DistShapes
<1>3. ExecShapes'
  BY DEF Shapes, ExecShapes
<1>4. ApplyShapes'
  BY DEF Shapes, ApplyShapes
<1>5. main' \in MainPlaces
  BY DEF Shapes, MainPlaces
<1>6. Pullers'
  BY DEF Shapes, ExecShapes, Pullers
<1>7. Settlers'
  BY DEF Shapes, ApplyShapes, Settlers, Resetting
<1> QED
  BY <1>1, <1>2, <1>3, <1>4, <1>5, <1>6, <1>7 DEF Shapes

LEMMA StopPullersPhases ==
  ASSUME Phases, StopPullers
  PROVE  Phases'
<1> USE DEF Phases, StopPullers,
            mainVars, edgeVars, distVars, execVars, applyVars, chunkVars
<1>1. EdgeShapes'
  BY DEF Shapes, EdgeShapes
<1>2. DistShapes'
  BY DEF Shapes, DistShapes
<1>3. ExecShapes'
  BY DEF Shapes, ExecShapes
<1>4. ApplyShapes'
  BY DEF Shapes, ApplyShapes
<1>5. main' \in MainPlaces
  BY DEF Shapes, MainPlaces
<1>6. Pullers'
  BY DEF Shapes, ExecShapes, Pullers
<1>7. Settlers'
  BY DEF Shapes, ApplyShapes, Settlers, Resetting
<1> QED
  BY <1>1, <1>2, <1>3, <1>4, <1>5, <1>6, <1>7 DEF Shapes

LEMMA StopAppliersPhases ==
  ASSUME Phases, StopAppliers
  PROVE  Phases'
<1> USE DEF Phases, StopAppliers,
            mainVars, edgeVars, distVars, execVars, applyVars, chunkVars
<1>1. EdgeShapes'
  BY DEF Shapes, EdgeShapes
<1>2. DistShapes'
  BY DEF Shapes, DistShapes
<1>3. ExecShapes'
  BY DEF Shapes, ExecShapes
<1>4. ApplyShapes'
  BY DEF Shapes, ApplyShapes
<1>5. main' \in MainPlaces
  BY DEF Shapes, MainPlaces
<1>6. Pullers'
  BY DEF Shapes, ExecShapes, Pullers
<1>7. Settlers'
  BY DEF Shapes, ApplyShapes, Settlers, Resetting
<1> QED
  BY <1>1, <1>2, <1>3, <1>4, <1>5, <1>6, <1>7 DEF Shapes

LEMMA InitPhases == Init => Phases
<1> SUFFICES ASSUME Init PROVE Phases
    OBVIOUS
<1> USE CountsAssumption, ModeAssumption DEF Init
<1>1. EdgeShapes
  BY DEF EdgeShapes, Tiles
<1>2. DistShapes
  BY DEF DistShapes
<1>3. ExecShapes
  BY DEF ExecShapes
<1>4. ApplyShapes
  BY DEF ApplyShapes
<1>5. Pullers
  BY DEF Pullers
<1>6. Settlers
  BY DEF Settlers
<1> QED
  BY <1>1, <1>2, <1>3, <1>4, <1>5, <1>6 DEF Phases, Shapes, MainPlaces

LEMMA StutterPhases == Phases /\ UNCHANGED vars => Phases'
BY DEF Phases, Shapes, EdgeShapes, DistShapes, ExecShapes, ApplyShapes, Pullers,
       Settlers, Resetting, vars, mainVars, edgeVars, distVars, execVars,
       applyVars, chunkVars

THEOREM PhasesInvariant == Spec => []Phases
<1>1. ASSUME Phases, [Next]_vars PROVE Phases'
  <2> USE <1>1
  <2>1. CASE MainNext
    BY <2>1, StartRunPhases, StartIterationPhases, PullBarrierPhases, CollectPhases,
       StartApplyPhases, EndApplyPhases, ResetByMainPhases, DecidePhases,
       DestroyPhases, StopPullersPhases, StopAppliersPhases DEF MainNext
  <2>2. CASE DistributorNext
    BY <2>2, LookAtTilePhases, SendBatchPhases, SendEndPhases DEF DistributorNext
  <2>3. CASE EdgesChange
    BY <2>3, EdgesChangePhases
  <2>4. ASSUME NEW e \in Executors, ExecutorNext(e) PROVE Phases'
    BY <2>4, ReceivePhases, DrawPhases, NextPiecePhases, ExecuteTilePhases,
       ApplyTilesPhases DEF ExecutorNext
  <2>5. ASSUME NEW a \in Appliers, ApplierNext(a) PROVE Phases'
    BY <2>5, ClaimPhases, ExaminePhases, ResetByApplierPhases DEF ApplierNext
  <2>6. CASE UNCHANGED vars
    BY <2>6, StutterPhases
  <2> QED
    BY <2>1, <2>2, <2>3, <2>4, <2>5, <2>6 DEF Next
<1> QED
  BY InitPhases, <1>1, PTL DEF Spec

(***************************************************************************)
(* No applier is at a chunk while an executor may still write to the next  *)
(* array, and the shared counters are zero when a phase begins, whichever  *)
(* thread resets them (executeAlgorithm, ApplyExecutor::run).              *)
(***************************************************************************)
THEOREM PhasesKeepApart == Spec => []PhasesApart
<1>1. ASSUME Phases PROVE PhasesApart
  <2> USE <1>1 DEF Phases
  <2>1. ASSUME NEW a \in Appliers, applier[a] \in {"claim", "examine"}
        PROVE  \A e \in Executors : executor[e] = "waiting"
    <3>1. main = "applying"
      BY <2>1 DEF Settlers
    <3> QED
      BY <3>1 DEF Pullers
  <2>2. main = "start" => currentTile = 0 /\ \A e \in Executors : index[e] = 0
    BY DEF Pullers
  <2>3. main = "apply" /\ (\A a \in Appliers : applier[a] = "waiting")
          => currentChunk = 0
    BY DEF Settlers, Resetting
  <2> QED
    BY <2>1, <2>2, <2>3 DEF PhasesApart
<1> QED
  BY PhasesInvariant, <1>1, PTL

-------------------------------------------------------------------------------
(***************************************************************************)
(* The apply phase.  While the appliers go over the chunks, every chunk    *)
(* that has been drawn has been examined, once, or one applier is about to *)
(* examine it; differ is what they have not come to of what has changed,   *)
(* and they are all settled as long as they have not come to any of that.  *)
(***************************************************************************)
Examining ==
  /\ \A c \in Chunks :
       /\ examined[c] = 0 \/ (examined[c] = 1 /\ c < currentChunk)
       /\ c < currentChunk =>
            \/ examined[c] = 1
            \/ \E a \in Appliers : applier[a] = "examine" /\ mine[a] = c
  /\ \A a \in Appliers : applier[a] = "examine" =>
       /\ mine[a] \in Chunks /\ mine[a] < currentChunk /\ examined[mine[a]] = 0
       /\ \A b \in Appliers : applier[b] = "examine" /\ mine[b] = mine[a] => b = a
  /\ \A a \in Appliers : applier[a] = "done" => currentChunk >= CountChunks

Settling ==
  /\ differ = {c \in changed : examined[c] = 0}
  /\ (\A a \in Appliers : settled[a]) <=> (\A c \in changed : examined[c] = 0)

Applying ==
  /\ main \in {"idle", "start"} => differ = {}
  /\ main \in {"pulling", "collect", "apply"} =>
       differ = changed /\ \A c \in Chunks : examined[c] = 0
  /\ main = "applying" => Examining
  /\ main \in {"reset", "decide"} => \A c \in Chunks : examined[c] = 1
  /\ main \in {"applying", "reset", "decide"} => Settling
-------------------------------------------------------------------------------
LEMMA InitApplying == Init => Applying
BY DEF Init, Applying

LEMMA FrameApplying ==
  ASSUME Applying, UNCHANGED <<main, applyVars, chunkVars>>
  PROVE  Applying'
BY DEF Applying, Examining, Settling, applyVars, chunkVars

(* Between the phases main moves on and the chunks stay as they are.       *)
LEMMA MainApplying ==
  ASSUME Phases, Applying,
         \/ StartRun \/ StartIteration \/ PullBarrier \/ Collect \/ ResetByMain
         \/ Destroy \/ StopPullers \/ StopAppliers
  PROVE  Applying'
<1> USE DEF Applying
<1>1. CASE StartRun
  BY <1>1 DEF StartRun, chunkVars
<1>2. CASE StartIteration
  BY <1>2 DEF StartIteration
<1>3. CASE PullBarrier
  BY <1>3 DEF PullBarrier, PullBarrierOf, applyVars, chunkVars
<1>4. CASE Collect
  BY <1>4 DEF Collect, applyVars, chunkVars
<1>5. CASE ResetByMain
  BY <1>5 DEF ResetByMain, chunkVars, Settling
<1>6. CASE Destroy
  BY <1>6 DEF Destroy
<1>7. CASE StopPullers
  BY <1>7 DEF StopPullers
<1>8. CASE StopAppliers
  BY <1>8 DEF StopAppliers
<1> QED
  BY <1>1, <1>2, <1>3, <1>4, <1>5, <1>6, <1>7, <1>8

LEMMA ApplyTilesApplying ==
  ASSUME Phases, Applying, NEW e \in Executors, ApplyTiles(e)
  PROVE  Applying'
<1>1. main = "pulling" /\ main' = "pulling"
  BY DEF Phases, Pullers, ApplyTiles, mainVars
<1>2. examined' = examined
  BY DEF ApplyTiles, applyVars
<1>3. differ = changed => differ' = changed'
  BY DEF ApplyTiles
<1> QED
  BY <1>1, <1>2, <1>3 DEF Applying

LEMMA StartApplyApplying ==
  ASSUME Phases, Applying, StartApply
  PROVE  Applying'
<1> USE DEF StartApply, chunkVars
<1>1. /\ main = "apply" /\ main' = "applying" /\ currentChunk' = 0
      /\ \A a \in Appliers : applier'[a] = "claim" /\ settled'[a]
  BY DEF Phases, Settlers, Resetting
<1>2. /\ examined' = examined /\ differ' = differ /\ changed' = changed
      /\ differ = changed /\ \A c \in Chunks : examined[c] = 0
      /\ changed \in SUBSET Chunks
  BY <1>1 DEF Applying, Phases, Shapes, ApplyShapes
<1>3. Examining'
  <2>1. \A c \in Chunks : ~(c < currentChunk')
    BY <1>1 DEF Chunks
  <2> QED
    BY <1>1, <1>2, <2>1 DEF Examining
<1>4. Settling'
  BY <1>1, <1>2 DEF Settling
<1> QED
  BY <1>1, <1>3, <1>4 DEF Applying

LEMMA ClaimApplying ==
  ASSUME Phases, Applying, NEW a \in Appliers, Claim(a)
  PROVE  Applying'
<1> USE DEF Claim, mainVars, chunkVars
<1>1. main = "applying" /\ main' = "applying"
  BY DEF Phases, Settlers
<1>2. Examining /\ Settling
  BY <1>1 DEF Applying
<1>3. /\ mine' = [mine EXCEPT ![a] = currentChunk]
      /\ currentChunk' = currentChunk + 1 /\ currentChunk \in Nat
      /\ examined' = examined /\ CountChunks \in Nat
      /\ applier[a] = "claim"
      /\ applier' = [applier EXCEPT ![a] = applier'[a]]
      /\ applier'[a] = IF currentChunk < CountChunks THEN "examine" ELSE "done"
      /\ a \in DOMAIN applier /\ a \in DOMAIN mine
  BY CountsAssumption DEF Phases, Shapes, ApplyShapes
<1>4. \A b \in Appliers : b # a => applier'[b] = applier[b] /\ mine'[b] = mine[b]
  BY <1>3
<1>5. mine'[a] = currentChunk
  BY <1>3
<1>6. \A c \in Chunks : c \in Nat /\ c < CountChunks
  BY <1>3 DEF Chunks
<1> HIDE DEF Claim
<1>7. Examining'
  <2>1. ASSUME NEW c \in Chunks
        PROVE  /\ examined'[c] = 0 \/ (examined'[c] = 1 /\ c < currentChunk')
               /\ c < currentChunk' =>
                    \/ examined'[c] = 1
                    \/ \E b \in Appliers : applier'[b] = "examine" /\ mine'[b] = c
    <3>1. examined'[c] = 0 \/ (examined'[c] = 1 /\ c < currentChunk')
      BY <1>2, <1>3, <1>6 DEF Examining
    <3>2. CASE c < currentChunk
      <4>1. CASE examined[c] = 1
        BY <3>1, <4>1, <1>3
      <4>2. ASSUME NEW b \in Appliers, applier[b] = "examine", mine[b] = c
            PROVE  applier'[b] = "examine" /\ mine'[b] = c
        BY <4>2, <1>3, <1>4
      <4> QED
        BY <3>1, <3>2, <4>1, <4>2, <1>2 DEF Examining
    <3>3. CASE c = currentChunk
      BY <3>1, <3>3, <1>3, <1>5, <1>6
    <3>4. CASE c > currentChunk
      BY <3>1, <3>4, <1>3, <1>6
    <3> QED
      BY <3>2, <3>3, <3>4, <1>3, <1>6
  <2>2. ASSUME NEW b \in Appliers, applier'[b] = "examine"
        PROVE  /\ mine'[b] \in Chunks /\ mine'[b] < currentChunk'
               /\ examined'[mine'[b]] = 0
               /\ \A d \in Appliers :
                    applier'[d] = "examine" /\ mine'[d] = mine'[b] => d = b
    <3>1. CASE b = a
      <4>1. mine'[b] = currentChunk /\ currentChunk < CountChunks
        BY <2>2, <3>1, <1>3, <1>5
      <4>2. currentChunk \in Chunks
        BY <4>1, <1>3 DEF Chunks
      <4>3. examined[currentChunk] = 0
        BY <4>2, <1>2, <1>3 DEF Examining
      <4>4. \A d \in Appliers : d # a /\ applier[d] = "examine" => mine[d] # currentChunk
        BY <1>2, <1>3, <1>6 DEF Examining
      <4> QED
        BY <3>1, <4>1, <4>2, <4>3, <4>4, <1>3, <1>4
    <3>2. CASE b # a
      <4>1. applier[b] = "examine" /\ mine'[b] = mine[b]
        BY <2>2, <3>2, <1>4
      <4>2. /\ mine[b] \in Chunks /\ mine[b] < currentChunk /\ examined[mine[b]] = 0
            /\ \A d \in Appliers : applier[d] = "examine" /\ mine[d] = mine[b] => d = b
        BY <4>1, <1>2 DEF Examining
      <4>3. mine'[a] # mine[b]
        BY <4>2, <1>3, <1>5, <1>6
      <4> QED
        BY <4>1, <4>2, <4>3, <1>3, <1>4, <1>6
    <3> QED
      BY <3>1, <3>2
  <2>3. ASSUME NEW b \in Appliers, applier'[b] = "done"
        PROVE  currentChunk' >= CountChunks
    BY <2>3, <1>2, <1>3, <1>4 DEF Examining
  <2> QED
    BY <2>1, <2>2, <2>3 DEF Examining
<1>8. Settling'
  BY <1>2 DEF Settling, Claim
<1> QED
  BY <1>1, <1>7, <1>8 DEF Applying

LEMMA ExamineApplying ==
  ASSUME Phases, Applying, NEW a \in Appliers, Examine(a)
  PROVE  Applying'
<1> USE DEF Examine, mainVars
<1>1. main = "applying" /\ main' = "applying"
  BY DEF Phases, Settlers
<1>2. Examining /\ Settling
  BY <1>1 DEF Applying
<1> DEFINE m == mine[a]
<1>3. /\ m \in Chunks /\ examined[m] = 0 /\ m < currentChunk
      /\ \A b \in Appliers : applier[b] = "examine" /\ mine[b] = m => b = a
  BY <1>2 DEF Examining
<1>4. /\ mine' = mine /\ currentChunk' = currentChunk /\ changed' = changed
      /\ differ' = differ \ {m} /\ changed \in SUBSET Chunks
      /\ applier'[a] = "claim"
      /\ \A b \in Appliers : b # a => applier'[b] = applier[b]
  BY DEF Phases, Shapes, ApplyShapes
<1>5. examined'[m] = 1 /\ \A c \in Chunks : c # m => examined'[c] = examined[c]
  BY <1>3 DEF Phases, Shapes, ApplyShapes
<1>6. /\ settled'[a] <=> settled[a] /\ m \notin differ
      /\ \A b \in Appliers : b # a => settled'[b] = settled[b]
  BY DEF Phases, Shapes, ApplyShapes
<1> HIDE DEF Examine, m
<1>7. Examining'
  <2>1. ASSUME NEW c \in Chunks
        PROVE  /\ examined'[c] = 0 \/ (examined'[c] = 1 /\ c < currentChunk')
               /\ c < currentChunk' =>
                    \/ examined'[c] = 1
                    \/ \E b \in Appliers : applier'[b] = "examine" /\ mine'[b] = c
    <3>1. CASE c = m
      BY <3>1, <1>3, <1>4, <1>5
    <3>2. CASE c # m
      <4>1. examined'[c] = examined[c] /\ currentChunk' = currentChunk
        BY <3>2, <1>4, <1>5
      <4>2. ASSUME NEW b \in Appliers, applier[b] = "examine", mine[b] = c
            PROVE  applier'[b] = "examine" /\ mine'[b] = c
        BY <4>2, <3>2, <1>4 DEF m
      <4> QED
        BY <4>1, <4>2, <1>2 DEF Examining
    <3> QED
      BY <3>1, <3>2
  <2>2. ASSUME NEW b \in Appliers, applier'[b] = "examine"
        PROVE  /\ mine'[b] \in Chunks /\ mine'[b] < currentChunk'
               /\ examined'[mine'[b]] = 0
               /\ \A d \in Appliers :
                    applier'[d] = "examine" /\ mine'[d] = mine'[b] => d = b
    <3>1. b # a /\ applier[b] = "examine"
      BY <2>2, <1>4
    <3>2. mine[b] # m
      BY <3>1, <1>3
    <3>3. /\ mine[b] \in Chunks /\ mine[b] < currentChunk /\ examined[mine[b]] = 0
          /\ \A d \in Appliers : applier[d] = "examine" /\ mine[d] = mine[b] => d = b
      BY <3>1, <1>2 DEF Examining
    <3>4. examined'[mine[b]] = 0
      BY <3>2, <3>3, <1>5
    <3> QED
      BY <3>1, <3>3, <3>4, <1>4
  <2>3. ASSUME NEW b \in Appliers, applier'[b] = "done"
        PROVE  currentChunk' >= CountChunks
    BY <2>3, <1>2, <1>4 DEF Examining
  <2> QED
    BY <2>1, <2>2, <2>3 DEF Examining
<1>8. Settling'
  <2>1. differ' = {c \in changed' : examined'[c] = 0}
    BY <1>2, <1>3, <1>4, <1>5 DEF Settling
  <2>2. m \in differ <=> m \in changed
    BY <1>2, <1>3 DEF Settling
  <2>3. (\A b \in Appliers : settled'[b])
          <=> (\A b \in Appliers : settled[b]) /\ m \notin changed
    BY <1>6, <2>2
  <2>4. (\A c \in changed' : examined'[c] = 0)
          <=> (\A c \in changed : examined[c] = 0) /\ m \notin changed
    BY <1>3, <1>4, <1>5
  <2>5. (\A b \in Appliers : settled[b]) <=> (\A c \in changed : examined[c] = 0)
    BY <1>2 DEF Settling
  <2> QED
    BY <2>1, <2>3, <2>4, <2>5 DEF Settling
<1> QED
  BY <1>1, <1>7, <1>8 DEF Applying

(* All appliers have drawn a chunk past the last one: none is left.        *)
LEMMA EndApplyApplying ==
  ASSUME Phases, Applying, EndApply
  PROVE  Applying'
<1>1. /\ main = "applying" /\ main' \in {"reset", "decide"}
      /\ \A a \in Appliers : applier[a] = "done"
      /\ UNCHANGED <<settled, examined, differ, changed>>
  BY DEF EndApply, chunkVars
<1>2. Examining /\ Settling
  BY <1>1 DEF Applying
<1>3. 1 \in Appliers /\ CountChunks \in Nat /\ currentChunk \in Nat
  BY CountsAssumption DEF Appliers, Phases, Shapes, ApplyShapes
<1>4. currentChunk >= CountChunks
  BY <1>1, <1>2, <1>3 DEF Examining
<1>5. ASSUME NEW c \in Chunks PROVE examined[c] = 1
  <2>1. c < currentChunk
    BY <1>3, <1>4 DEF Chunks
  <2> QED
    BY <2>1, <1>1, <1>2 DEF Examining
<1>6. Settling'
  BY <1>1, <1>2 DEF Settling
<1> QED
  BY <1>1, <1>5, <1>6 DEF Applying

LEMMA ResetByApplierApplying ==
  ASSUME Phases, Applying, NEW a \in Appliers, ResetByApplier(a)
  PROVE  Applying'
<1>1. main # "applying" /\ main' = main
  BY DEF ResetByApplier, Phases, Settlers, mainVars
<1> QED
  BY <1>1 DEF ResetByApplier, Applying, Settling, chunkVars

LEMMA DecideApplying ==
  ASSUME Phases, Applying, Decide
  PROVE  Applying'
<1>1. main = "decide" /\ main' \in {"idle", "start"} /\ differ' = differ
  BY DEF Decide, chunkVars
<1>2. differ = {}
  BY <1>1 DEF Applying, Settling, Phases, Shapes, ApplyShapes
<1> QED
  BY <1>1, <1>2 DEF Applying

LEMMA NextApplying == Phases /\ Applying /\ [Next]_vars => Applying'
<1> SUFFICES ASSUME Phases, Applying, [Next]_vars PROVE Applying'
    OBVIOUS
<1> USE DEF mainVars
<1>1. CASE MainNext
  BY <1>1, MainApplying, StartApplyApplying, EndApplyApplying, DecideApplying
     DEF MainNext
<1>2. CASE DistributorNext
  BY <1>2, FrameApplying
     DEF DistributorNext, LookAtTile, LookThenSendAfter, SendBatch, SendEnd, SendEnds
<1>3. CASE EdgesChange
  BY <1>3, FrameApplying DEF EdgesChange
<1>4. ASSUME NEW e \in Executors, ExecutorNext(e) PROVE Applying'
  <2>1. CASE ApplyTiles(e)
    BY <2>1, ApplyTilesApplying
  <2>2. CASE Receive(e) \/ Draw(e) \/ NextPiece(e) \/ ExecuteTile(e)
    BY <2>2, FrameApplying DEF Receive, Draw, NextPiece, ExecuteTile
  <2> QED
    BY <1>4, <2>1, <2>2 DEF ExecutorNext
<1>5. ASSUME NEW a \in Appliers, ApplierNext(a) PROVE Applying'
  BY <1>5, ClaimApplying, ExamineApplying, ResetByApplierApplying DEF ApplierNext
<1>6. CASE UNCHANGED vars
  BY <1>6, FrameApplying DEF vars
<1> QED
  BY <1>1, <1>2, <1>3, <1>4, <1>5, <1>6 DEF Next

-------------------------------------------------------------------------------
(***************************************************************************)
(* The pull phase.  A tile is ahead of those who hand out tiles, or in the *)
(* batch being filled, or in one message of the ring, or with one          *)
(* executor, or pulled.                                                    *)
(***************************************************************************)
Ahead(t) ==
  \/ distribution = "distributor" /\ t >= cursor
  \/ distribution = "atomics" /\ t >= currentTile
  \/ /\ distribution = "static"
     /\ \E e \in Executors : First(e) + index[e] <= t /\ t < Last(e)
InRing(t) == \E i \in 1 .. Len(ring) : t \in ring[i].tiles
With(e) == work[e] \union gathered[e]
Untaken(t) == pulled[t] = 0 /\ \A e \in Executors : t \notin With(e)

\* No tile is in two places.
Apart ==
  /\ \A t \in Tiles : Ahead(t) => t \notin batch /\ ~InRing(t) /\ Untaken(t)
  /\ \A t \in batch : ~InRing(t) /\ Untaken(t)
  /\ \A i \in 1 .. Len(ring) : \A t \in ring[i].tiles :
       Untaken(t) /\ \A j \in 1 .. Len(ring) : t \in ring[j].tiles => j = i
  /\ \A e \in Executors : \A t \in With(e) :
       pulled[t] = 0 /\ \A q \in Executors : t \in With(q) => q = e
  /\ \A e \in Executors : \A t \in work[e] : t \notin gathered[e]
  /\ \A t \in Tiles : pulled[t] \in {0, 1}

\* A tile that is due and served is in some place.
Kept ==
  \A t \in due \intersect Served :
    \/ Ahead(t) \/ t \in batch \/ InRing(t)
    \/ \E e \in Executors : t \in With(e)
    \/ pulled[t] = 1

\* The distributor's messages: batches first, then an end for each executor.
\* Those that have gone through are counted by the executors that are done.
Finished == {e \in Executors : executor[e] = "done"}
EndsSent == IF cursor > CountTiles THEN cursor - CountTiles ELSE 0
EndsLeft == EndsSent - Cardinality(Finished)
Distributing ==
  /\ distributor # "over"
  /\ cursor <= CountTiles + CountExecutors
  /\ distributor = "schedule" => cursor < CountTiles + CountExecutors
  /\ distributor = "send" => cursor <= CountTiles
  /\ distributor # "send" /\ cursor >= CountTiles => batch = {}
  /\ EndsLeft \in 0 .. Len(ring)
  /\ \A i \in 1 .. Len(ring) : ring[i].shutdown <=> i > Len(ring) - EndsLeft
  /\ Finished # {} => Len(ring) = EndsLeft

\* An executor that is done has found nothing left to draw.
Drawing ==
  \A e \in Finished :
    /\ distribution = "atomics" => currentTile >= CountTiles
    /\ distribution = "static" => First(e) + index[e] >= Last(e)

Scheduling ==
  /\ distributor = "none" <=> distribution # "distributor"
  /\ distribution # "distributor" => ring = <<>> /\ batch = {}
  /\ distribution = "static" => "static" \in Distributions
  /\ main # "pulling" => ring = <<>> /\ distributor \in {"waiting", "none", "over"}
  /\ main = "pulling" =>
       Apart /\ Kept /\ Drawing /\ (distribution = "distributor" => Distributing)
  /\ main = "collect" => \A t \in due \intersect Served : pulled[t] = 1
-------------------------------------------------------------------------------
LEMMA FinishedCount ==
  /\ CountExecutors \in Nat /\ CountTiles \in Nat
  /\ CountExecutors > 0 /\ CountTiles > 0
  /\ IsFiniteSet(Executors) /\ Cardinality(Executors) = CountExecutors
  /\ \A S \in SUBSET Executors :
       /\ IsFiniteSet(S) /\ Cardinality(S) \in Nat
       /\ Cardinality(S) = 0 <=> S = {}
       /\ \A e \in Executors \ S : Cardinality(S \union {e}) = Cardinality(S) + 1
<1>1. /\ CountExecutors \in Nat /\ CountTiles \in Nat
      /\ CountExecutors > 0 /\ CountTiles > 0
  BY CountsAssumption
<1>2. IsFiniteSet(Executors) /\ Cardinality(Executors) = CountExecutors
  BY <1>1, FS_Interval DEF Executors
<1>3. ASSUME NEW S \in SUBSET Executors
      PROVE  /\ IsFiniteSet(S) /\ Cardinality(S) \in Nat
             /\ Cardinality(S) = 0 <=> S = {}
             /\ \A e \in Executors \ S : Cardinality(S \union {e}) = Cardinality(S) + 1
  <2>1. IsFiniteSet(S)
    BY <1>2, FS_Subset
  <2> QED
    BY <2>1, FS_CardinalityType, FS_EmptySet, FS_AddElement
<1> QED
  BY <1>1, <1>2, <1>3

LEMMA SameServed == UNCHANGED distribution => Served' = Served
BY DEF Served

LEMMA InitScheduling == Init => Scheduling
<1> SUFFICES ASSUME Init PROVE Scheduling
    OBVIOUS
<1> QED
  BY ModeAssumption DEF Init, Scheduling

LEMMA FrameScheduling ==
  ASSUME Scheduling, UNCHANGED <<main, due, distribution, distVars, execVars>>
  PROVE  Scheduling'
BY SameServed
   DEF Scheduling, Apart, Kept, Distributing, Drawing, Ahead, InRing, With, Untaken,
       Finished, EndsSent, EndsLeft, distVars, execVars

LEMMA EdgesChangeScheduling ==
  ASSUME Phases, Scheduling, EdgesChange
  PROVE  Scheduling'
<1>1. UNCHANGED <<main, distribution, distVars, execVars>> /\ due' \subseteq due
  BY DEF EdgesChange, mainVars
<1> QED
  BY <1>1, SameServed
  DEF Scheduling, Apart, Kept, Distributing, Drawing, Ahead, InRing, With,
       Untaken, Finished, EndsSent, EndsLeft, distVars, execVars

(* Nothing is scheduled but between the first and the second barrier.      *)
LEMMA MainScheduling ==
  ASSUME Phases, Scheduling,
         \/ StartRun \/ Collect \/ StartApply \/ EndApply \/ ResetByMain \/ Decide
         \/ Destroy \/ StopPullers \/ StopAppliers
  PROVE  Scheduling'
<1>1. /\ main # "pulling" /\ main' \notin {"pulling", "collect"}
      /\ UNCHANGED <<distribution, ring, batch>>
      /\ \/ UNCHANGED distributor
         \/ distributor # "none" /\ distributor' = "over"
  BY DEF StartRun, Collect, StartApply, EndApply, ResetByMain, Decide, Destroy,
         StopPullers, StopAppliers, AtStartBarrier, distVars
<1> QED
  BY <1>1 DEF Scheduling

LEMMA StartIterationScheduling ==
  ASSUME Phases, Scheduling, StartIteration
  PROVE  Scheduling'
<1> USE DEF StartIteration
<1>1. /\ main = "start" /\ main' = "pulling" /\ cursor' = 0 /\ batch' = {}
      /\ ring' = <<>> /\ distribution' = distribution
      /\ currentTile' = 0 /\ (\A e \in Executors : index'[e] = 0)
      /\ \A t \in Tiles : pulled'[t] = 0
  BY DEF Scheduling, Phases, Pullers
<1>2. \A e \in Executors : With(e)' = {} /\ work'[e] = {}
  <2>1. \A e \in Executors : executor[e] = "waiting"
    BY DEF AtStartBarrier
  <2> QED
    BY <2>1 DEF Phases, Pullers, With
<1>3. Finished' = {}
  BY DEF Finished
<1>4. \A t \in Tiles : Untaken(t)' /\ ~InRing(t)'
  BY <1>1, <1>2 DEF Untaken, InRing
<1>5. Apart'
  BY <1>1, <1>2, <1>4 DEF Apart
<1>6. Kept'
  <2> SUFFICES ASSUME NEW t \in Tiles, t \in Served PROVE Ahead(t)'
    BY <1>1, SameServed DEF Kept, Phases, Shapes, EdgeShapes
  <2>1. t \in Nat
    BY DEF Tiles
  <2>2. CASE distribution \in {"distributor", "atomics"}
    BY <2>1, <2>2, <1>1 DEF Ahead
  <2>3. CASE distribution = "static"
    <3>1. PICK e \in Executors : First(e) <= t /\ t < Last(e)
      BY <2>3, SharesCover DEF Served
    <3>2. First(e) + index'[e] = First(e)
      BY <1>1, SharesFit
    <3> QED
      BY <2>3, <3>1, <3>2, <1>1 DEF Ahead
  <2> QED
    BY <2>2, <2>3 DEF Phases, Shapes, DistShapes
<1>7. Drawing'
  BY <1>3 DEF Drawing
<1>8. distribution = "distributor" => Distributing'
  <2>1. EndsLeft' = 0
    BY <1>1, <1>3, FinishedCount, FS_EmptySet DEF EndsLeft, EndsSent
  <2>2. Len(ring') = 0
    BY <1>1
  <2>3. distribution = "distributor" => distributor' = "schedule"
    BY DEF Scheduling
  <2> QED
    BY <1>1, <1>3, <2>1, <2>2, <2>3, FinishedCount DEF Distributing
<1>9. distributor' = "none" <=> distribution # "distributor"
  BY DEF Scheduling
<1> QED
  BY <1>1, <1>5, <1>6, <1>7, <1>8, <1>9 DEF Scheduling

(* What the steps of the distributor have in common.                       *)
LEMMA Distributor ==
  ASSUME Phases, Scheduling, distributor \in {"schedule", "send"}
  PROVE  /\ main = "pulling" /\ distribution = "distributor"
         /\ Apart /\ Kept /\ Drawing /\ Distributing
         /\ cursor \in Nat /\ CountTiles \in Nat
         /\ \A t \in Tiles : Ahead(t) <=> t >= cursor
<1>1. main = "pulling" /\ distribution = "distributor"
  BY DEF Scheduling
<1> QED
  BY <1>1, FinishedCount DEF Scheduling, Ahead, Phases, Shapes, DistShapes

LEMMA LookAtTileScheduling ==
  ASSUME Phases, Scheduling, LookAtTile
  PROVE  Scheduling'
<1> USE DEF LookAtTile, LookThenSendAfter
<1>1. /\ main = "pulling" /\ distribution = "distributor"
      /\ Apart /\ Kept /\ Drawing /\ Distributing
      /\ cursor \in Nat /\ CountTiles \in Nat /\ cursor < CountTiles
      /\ \A t \in Tiles : Ahead(t) <=> t >= cursor
  BY Distributor
<1>2. /\ cursor' = cursor + 1 /\ cursor \in Tiles
      /\ UNCHANGED <<main, due, ring, distribution, executor, work, gathered, index,
                     currentTile, pulled>>
  BY <1>1 DEF Tiles, mainVars, edgeVars, execVars
<1>3. /\ batch' \subseteq batch \union {cursor} /\ batch \subseteq batch'
      /\ cursor \in filled => cursor \in batch'
  OBVIOUS
<1>4. \/ distributor' = "send"
      \/ distributor' = "schedule" /\ (batch' = {} \/ cursor # CountTiles - 1)
  OBVIOUS
<1> HIDE DEF LookAtTile, LookThenSendAfter
<1>5. /\ \A t \in Tiles : Ahead(t)' <=> Ahead(t) /\ t # cursor
      /\ \A t \in Tiles : InRing(t)' = InRing(t) /\ Untaken(t)' = Untaken(t)
      /\ \A e \in Executors : With(e)' = With(e)
  <2>1. \A t \in Tiles : Ahead(t)' <=> t >= cursor + 1
    BY <1>1, <1>2 DEF Ahead
  <2>2. \A t \in Tiles : t >= cursor + 1 <=> t >= cursor /\ t # cursor
    BY <1>1 DEF Tiles
  <2> QED
    BY <2>1, <2>2, <1>1, <1>2 DEF InRing, Untaken, With
<1>6. Apart'
  <2>1. ~InRing(cursor) /\ Untaken(cursor)
    BY <1>1, <1>2 DEF Apart
  <2>2. batch' \subseteq Tiles
    BY <1>2, <1>3 DEF Phases, Shapes, DistShapes
  <2> QED
    BY <2>1, <2>2, <1>1, <1>2, <1>3, <1>5 DEF Apart, Untaken, InRing, With
<1>7. Kept'
  <2>1. due \subseteq Tiles /\ due \subseteq filled
    BY DEF Phases, Shapes, EdgeShapes
  <2>2. ASSUME NEW t \in due \intersect Served
        PROVE  \/ Ahead(t)' \/ t \in batch' \/ InRing(t)'
               \/ \E e \in Executors : t \in With(e)'
               \/ pulled'[t] = 1
    <3>1. CASE t = cursor
      BY <3>1, <2>1, <1>3
    <3>2. CASE t # cursor
      BY <3>2, <2>1, <1>1, <1>2, <1>3, <1>5 DEF Kept
    <3> QED
      BY <3>1, <3>2
  <2> QED
    BY <2>2, <1>2, SameServed DEF Kept
<1>8. Drawing'
  BY <1>1, <1>2 DEF Drawing, Finished
<1>9. Distributing'
  <2>1. EndsSent = 0 /\ EndsSent' = 0 /\ Finished' = Finished
    BY <1>1, <1>2, FinishedCount DEF EndsSent, Finished
  <2>2. EndsLeft' = EndsLeft
    BY <2>1 DEF EndsLeft
  <2>3. distributor' # "send" /\ cursor' >= CountTiles => batch' = {}
    BY <1>1, <1>2, <1>4
  <2> QED
    BY <2>1, <2>2, <2>3, <1>1, <1>2, <1>4, FinishedCount DEF Distributing
<1> QED
  BY <1>1, <1>2, <1>4, <1>6, <1>7, <1>8, <1>9 DEF Scheduling

(* Before the first end is sent nobody has finished.                       *)
LEMMA SendBatchScheduling ==
  ASSUME Phases, Scheduling, SendBatch
  PROVE  Scheduling'
<1> USE DEF SendBatch
<1>1. /\ main = "pulling" /\ distribution = "distributor"
      /\ Apart /\ Kept /\ Drawing /\ Distributing
      /\ cursor \in Nat /\ CountTiles \in Nat
  BY Distributor
<1>2. /\ UNCHANGED <<main, due, cursor, distribution, executor, work, gathered, index,
                     currentTile, pulled>>
      /\ batch' = {} /\ distributor' = "schedule" /\ cursor <= CountTiles
  BY <1>1 DEF mainVars, edgeVars, execVars, Distributing
<1> DEFINE n == Len(ring)
<1>3. /\ n \in Nat /\ Len(ring') = n + 1
      /\ \A i \in 1 .. n : ring'[i] = ring[i]
      /\ ring'[n + 1].tiles = batch /\ ring'[n + 1].shutdown = FALSE
  <2>1. ring \in Seq(Messages) /\ Batch(batch) \in Messages
    BY DEF Phases, Shapes, DistShapes, Batch, Messages
  <2>2. ring' = Append(ring, Batch(batch))
    OBVIOUS
  <2>3. Batch(batch).tiles = batch /\ Batch(batch).shutdown = FALSE
    BY DEF Batch
  <2> QED
    BY <2>1, <2>2, <2>3, Sent
<1> HIDE DEF SendBatch, n
<1>4. \A i \in 1 .. n + 1 : i \in 1 .. n \/ i = n + 1
  BY <1>3
<1>5. /\ \A t \in Tiles : Ahead(t)' = Ahead(t) /\ Untaken(t)' = Untaken(t)
      /\ \A t \in Tiles : InRing(t)' <=> InRing(t) \/ t \in batch
      /\ \A e \in Executors : With(e)' = With(e)
  <2>1. \A t \in Tiles : InRing(t)' <=> InRing(t) \/ t \in batch
    BY <1>3, <1>4 DEF InRing, n
  <2> QED
    BY <2>1, <1>2 DEF Ahead, Untaken, With
<1>6. Apart'
  <2>1. batch \subseteq Tiles
    BY DEF Phases, Shapes, DistShapes
  <2>2. ASSUME NEW i \in 1 .. n + 1, NEW t \in ring'[i].tiles
        PROVE  /\ Untaken(t)'
               /\ \A j \in 1 .. n + 1 : t \in ring'[j].tiles => j = i
    <3>1. CASE i = n + 1
      <4>1. t \in batch
        BY <2>2, <3>1, <1>3
      <4>2. Untaken(t) /\ ~InRing(t)
        BY <4>1, <1>1 DEF Apart
      <4> QED
        BY <3>1, <4>1, <4>2, <2>1, <1>3, <1>4, <1>5 DEF InRing, n
    <3>2. CASE i \in 1 .. n
      <4>1. t \in ring[i].tiles
        BY <2>2, <3>2, <1>3
      <4>2. /\ Untaken(t) /\ \A j \in 1 .. n : t \in ring[j].tiles => j = i
            /\ InRing(t)
        BY <3>2, <4>1, <1>1 DEF Apart, InRing, n
      <4>3. t \notin batch
        BY <4>2, <1>1 DEF Apart
      <4>4. Untaken(t)'
        BY <4>2, <1>2 DEF Untaken, With
      <4> QED
        BY <4>2, <4>3, <4>4, <1>3, <1>4
    <3> QED
      BY <3>1, <3>2, <1>4
  <2>3. \A t \in Tiles : Ahead(t)' => t \notin batch' /\ ~InRing(t)' /\ Untaken(t)'
    BY <1>1, <1>2, <1>5 DEF Apart
  <2>4. /\ \A e \in Executors : \A t \in With(e)' :
             pulled'[t] = 0 /\ \A q \in Executors : t \in With(q)' => q = e
        /\ \A e \in Executors : \A t \in work'[e] : t \notin gathered'[e]
        /\ \A t \in Tiles : pulled'[t] \in {0, 1}
    BY <1>1, <1>2, <1>5 DEF Apart
  <2>5. \A t \in batch' : ~InRing(t)' /\ Untaken(t)'
    BY <1>2
  <2> HIDE DEF Apart
  <2> QED
    BY <2>2, <2>3, <2>4, <2>5, <1>3 DEF Apart
<1>7. Kept'
  <2>1. due \subseteq Tiles
    BY DEF Phases, Shapes, EdgeShapes
  <2> QED
    BY <2>1, <1>1, <1>2, <1>5, SameServed DEF Kept
<1>8. Drawing'
  BY <1>1, <1>2 DEF Drawing, Finished
<1>9. Distributing'
  <2>1. Finished \in SUBSET Executors /\ Finished' = Finished
    BY <1>2 DEF Finished
  <2>2. EndsSent = 0 /\ EndsSent' = 0
    BY <1>1, <1>2 DEF EndsSent
  <2>3. EndsLeft = 0 /\ EndsLeft' = 0 /\ Finished = {}
    BY <2>1, <2>2, <1>1, FinishedCount DEF EndsLeft, Distributing
  <2>4. \A i \in 1 .. n : ring[i].shutdown <=> i > n
    BY <2>3, <1>1, <1>3 DEF Distributing, n
  <2>5. \A i \in 1 .. n + 1 : ring'[i].shutdown <=> i > n + 1
    BY <2>4, <1>3, <1>4
  <2> QED
    BY <2>1, <2>3, <2>5, <1>1, <1>2, <1>3, FinishedCount DEF Distributing
<1> QED
  BY <1>1, <1>2, <1>6, <1>7, <1>8, <1>9 DEF Scheduling

(* Ends are sent after the last tile has left the batch.                   *)
LEMMA SendEndScheduling ==
  ASSUME Phases, Scheduling, SendEnd
  PROVE  Scheduling'
<1> USE DEF SendEnd, SendEnds
<1>1. /\ main = "pulling" /\ distribution = "distributor"
      /\ Apart /\ Kept /\ Drawing /\ Distributing
      /\ cursor \in Nat /\ CountTiles \in Nat
  BY Distributor
<1>2. /\ UNCHANGED <<main, due, batch, distribution, executor, work, gathered, index,
                     currentTile, pulled>>
      /\ cursor' = cursor + 1 /\ cursor >= CountTiles /\ batch = {}
      /\ distributor' \in {"waiting", "schedule"}
      /\ distributor' = "schedule" => cursor' # CountTiles + CountExecutors
      /\ cursor < CountTiles + CountExecutors
  BY <1>1, FinishedCount DEF mainVars, edgeVars, execVars, Distributing
<1> DEFINE n == Len(ring)
<1>3. /\ n \in Nat /\ Len(ring') = n + 1
      /\ \A i \in 1 .. n : ring'[i] = ring[i]
      /\ ring'[n + 1].tiles = {} /\ ring'[n + 1].shutdown = TRUE
  <2>1. ring \in Seq(Messages) /\ EndOfIteration \in Messages
    BY DEF Phases, Shapes, DistShapes, EndOfIteration, Messages
  <2>2. ring' = Append(ring, EndOfIteration)
    OBVIOUS
  <2>3. EndOfIteration.tiles = {} /\ EndOfIteration.shutdown = TRUE
    BY DEF EndOfIteration
  <2> QED
    BY <2>1, <2>2, <2>3, Sent
<1> HIDE DEF SendEnd, SendEnds, n
<1>4. \A i \in 1 .. n + 1 : i \in 1 .. n \/ i = n + 1
  BY <1>3
<1>5. /\ \A t \in Tiles : ~Ahead(t) /\ ~Ahead(t)' /\ Untaken(t)' = Untaken(t)
      /\ \A t \in Tiles : InRing(t)' <=> InRing(t)
      /\ \A e \in Executors : With(e)' = With(e)
  <2>1. \A t \in Tiles : InRing(t)' <=> InRing(t)
    BY <1>3, <1>4 DEF InRing, n
  <2>2. \A t \in Tiles : t < cursor /\ t < cursor'
    BY <1>1, <1>2 DEF Tiles
  <2> QED
    BY <2>1, <2>2, <1>1, <1>2 DEF Ahead, Untaken, With, Tiles
<1>6. Apart'
  <2>1. ASSUME NEW i \in 1 .. n + 1, NEW t \in ring'[i].tiles
        PROVE  /\ Untaken(t)'
               /\ \A j \in 1 .. n + 1 : t \in ring'[j].tiles => j = i
    <3>1. i \in 1 .. n /\ t \in ring[i].tiles
      BY <2>1, <1>3, <1>4
    <3>2. Untaken(t) /\ \A j \in 1 .. n : t \in ring[j].tiles => j = i
      BY <3>1, <1>1 DEF Apart, n
    <3>3. Untaken(t)'
      BY <3>2, <1>2 DEF Untaken, With
    <3> QED
      BY <3>2, <3>3, <1>3, <1>4
  <2>2. /\ \A e \in Executors : \A t \in With(e)' :
             pulled'[t] = 0 /\ \A q \in Executors : t \in With(q)' => q = e
        /\ \A e \in Executors : \A t \in work'[e] : t \notin gathered'[e]
        /\ \A t \in Tiles : pulled'[t] \in {0, 1}
    BY <1>1, <1>2, <1>5 DEF Apart
  <2> QED
    BY <2>1, <2>2, <1>2, <1>3, <1>5 DEF Apart
<1>7. Kept'
  <2>1. due \subseteq Tiles
    BY DEF Phases, Shapes, EdgeShapes
  <2> QED
    BY <2>1, <1>1, <1>2, <1>5, SameServed DEF Kept
<1>8. Drawing'
  BY <1>1, <1>2 DEF Drawing, Finished
<1>9. Distributing'
  <2>1. Finished \in SUBSET Executors /\ Finished' = Finished
    BY <1>2 DEF Finished
  <2>2. EndsSent \in Nat /\ EndsSent' = EndsSent + 1
    BY <1>1, <1>2 DEF EndsSent
  <2>3. EndsLeft \in 0 .. n /\ EndsLeft' = EndsLeft + 1
    BY <2>1, <2>2, <1>1, FinishedCount DEF EndsLeft, Distributing, n
  <2>4. \A i \in 1 .. n : ring[i].shutdown <=> i > n - EndsLeft
    BY <1>1 DEF Distributing, n
  <2>5. \A i \in 1 .. n + 1 : ring'[i].shutdown <=> i > (n + 1) - (EndsLeft + 1)
    BY <2>3, <2>4, <1>3, <1>4
  <2>6. Finished' # {} => n + 1 = EndsLeft + 1
    BY <2>1, <1>1 DEF Distributing, n
  <2>7. EndsLeft' \in 0 .. Len(ring')
    BY <2>3, <1>3
  <2> QED
    BY <2>3, <2>5, <2>6, <2>7, <1>1, <1>2, <1>3, FinishedCount DEF Distributing
<1> QED
  BY <1>1, <1>2, <1>6, <1>7, <1>8, <1>9 DEF Scheduling

(* An end comes to an executor when no batch is left in the ring.          *)
LEMMA ReceiveScheduling ==
  ASSUME Phases, Scheduling, NEW e \in Executors, Receive(e)
  PROVE  Scheduling'
<1> USE DEF Receive, Take
<1>1. /\ main = "pulling" /\ distribution = "distributor"
      /\ Apart /\ Kept /\ Drawing /\ Distributing
      /\ work[e] = {} /\ gathered[e] = {}
  BY DEF Phases, Pullers, Scheduling
<1> DEFINE n == Len(ring)
           head == ring[1]
<1>2. /\ n \in Nat /\ n > 0 /\ Len(ring') = n - 1
      /\ \A i \in 1 .. n - 1 : ring'[i] = ring[i + 1]
      /\ head.tiles \in SUBSET Tiles
      /\ head.shutdown => head.tiles = {}
  <2>1. ring \in Seq(Messages) /\ ring # <<>> /\ ring' = Tail(ring)
    BY DEF Phases, Shapes, DistShapes
  <2>2. head \in Messages /\ 1 \in 1 .. Len(ring)
    BY <2>1, Received
  <2> QED
    BY <2>1, <2>2, Received DEF Phases, Shapes, DistShapes, Messages
<1>3. /\ UNCHANGED <<main, due, batch, distributor, distribution, cursor, gathered,
                     index, currentTile, pulled>>
      /\ work' = [work EXCEPT ![e] = head.tiles]
      /\ executor' = [executor EXCEPT ![e] = IF head.shutdown THEN "done" ELSE "pull"]
  <2>1. Head(ring) = head
    BY Received DEF Phases, Shapes, DistShapes
  <2> QED
    BY <2>1 DEF mainVars, edgeVars
<1>4. executor[e] = "receive" /\ executor \in [Executors -> {"waiting", "receive", "pull",
                                                            "done", "over"}]
      /\ work \in [Executors -> SUBSET Tiles]
  BY DEF Phases, Shapes, ExecShapes
<1> HIDE DEF Receive, Take, n, head
<1>5. /\ With(e) = {} /\ With(e)' = head.tiles /\ work'[e] = head.tiles
      /\ \A q \in Executors : q # e => With(q)' = With(q) /\ work'[q] = work[q]
  BY <1>1, <1>3, <1>4 DEF With
<1>6. \A i \in 1 .. n : i = 1 \/ \E j \in 1 .. n - 1 : i = j + 1
  <2> SUFFICES ASSUME NEW i \in 1 .. n, i # 1 PROVE i - 1 \in 1 .. n - 1 /\ i = (i - 1) + 1
    OBVIOUS
  <2> QED
    BY <1>2
<1>7. \A j \in 1 .. n - 1 : j + 1 \in 1 .. n /\ j + 1 # 1
  BY <1>2
<1>8. /\ 1 \in 1 .. n
      /\ \A t \in head.tiles :
           Untaken(t) /\ InRing(t) /\ \A j \in 1 .. n : t \in ring[j].tiles => j = 1
  BY <1>1, <1>2 DEF Apart, InRing, head, n
<1>9. /\ \A t \in Tiles : Ahead(t)' = Ahead(t)
      /\ \A t \in Tiles : InRing(t) <=> InRing(t)' \/ t \in head.tiles
      /\ \A t \in head.tiles : ~InRing(t)' /\ ~Ahead(t) /\ t \notin batch
  <2>1. \A t : InRing(t) <=> InRing(t)' \/ t \in head.tiles
    BY <1>2, <1>6, <1>7, <1>8 DEF InRing, head, n
  <2>2. \A t \in head.tiles : ~InRing(t)'
    BY <1>2, <1>7, <1>8 DEF InRing, n
  <2>3. \A t \in head.tiles : ~Ahead(t) /\ t \notin batch
    BY <1>1, <1>2, <1>8 DEF Apart
  <2> QED
    BY <2>1, <2>2, <2>3, <1>3 DEF Ahead
<1>10. ASSUME NEW t, t \notin head.tiles
       PROVE  Untaken(t)' <=> Untaken(t)
  BY <1>10, <1>3, <1>5 DEF Untaken
<1>11. Apart'
  <2>1. \A t \in Tiles : Ahead(t)' => t \notin batch' /\ ~InRing(t)' /\ Untaken(t)'
    BY <1>1, <1>3, <1>9, <1>10 DEF Apart
  <2>2. \A t \in batch' : ~InRing(t)' /\ Untaken(t)'
    <3>1. batch \subseteq Tiles
      BY DEF Phases, Shapes, DistShapes
    <3> QED
      BY <3>1, <1>1, <1>3, <1>9, <1>10 DEF Apart
  <2>3. ASSUME NEW i \in 1 .. n - 1, NEW t \in ring'[i].tiles
        PROVE  /\ Untaken(t)'
               /\ \A j \in 1 .. n - 1 : t \in ring'[j].tiles => j = i
    <3>1. t \in ring[i + 1].tiles /\ i + 1 \in 1 .. n /\ i + 1 # 1
      BY <2>3, <1>2, <1>7
    <3>2. Untaken(t) /\ \A j \in 1 .. n : t \in ring[j].tiles => j = i + 1
      BY <3>1, <1>1 DEF Apart, n
    <3>3. t \notin head.tiles
      BY <3>1, <3>2, <1>8
    <3>4. \A j \in 1 .. n - 1 : t \in ring'[j].tiles => j + 1 = i + 1
      BY <3>2, <1>2, <1>7
    <3>5. \A j \in 1 .. n - 1 : j + 1 = i + 1 => j = i
      BY <1>2
    <3> QED
      BY <3>2, <3>3, <3>4, <3>5, <1>10
  <2>4. ASSUME NEW q \in Executors, NEW t \in With(q)'
        PROVE  pulled'[t] = 0 /\ \A r \in Executors : t \in With(r)' => r = q
    <3>1. CASE q = e
      BY <2>4, <3>1, <1>3, <1>5, <1>8 DEF Untaken
    <3>2. CASE q # e
      <4>1. t \in With(q)
        BY <2>4, <3>2, <1>5
      <4>2. pulled[t] = 0 /\ \A r \in Executors : t \in With(r) => r = q
        BY <4>1, <1>1 DEF Apart
      <4>3. t \notin head.tiles
        BY <4>1, <1>8 DEF Untaken
      <4> QED
        BY <4>2, <4>3, <1>3, <1>5
    <3> QED
      BY <3>1, <3>2
  <2>5. \A q \in Executors : \A t \in work'[q] : t \notin gathered'[q]
    BY <1>1, <1>3, <1>5 DEF Apart
  <2>6. \A t \in Tiles : pulled'[t] \in {0, 1}
    BY <1>1, <1>3 DEF Apart
  <2> QED
    BY <2>1, <2>2, <2>3, <2>4, <2>5, <2>6, <1>2 DEF Apart
<1>12. Kept'
  <2>1. due \subseteq Tiles
    BY DEF Phases, Shapes, EdgeShapes
  <2>2. ASSUME NEW t \in due \intersect Served
        PROVE  \/ Ahead(t)' \/ t \in batch' \/ InRing(t)'
               \/ \E q \in Executors : t \in With(q)'
               \/ pulled'[t] = 1
    <3>1. CASE t \in head.tiles
      BY <3>1, <1>5
    <3>2. CASE t \notin head.tiles
      <4>1. \A q \in Executors : t \in With(q) => t \in With(q)'
        BY <1>5
      <4> QED
        BY <3>2, <4>1, <2>1, <1>1, <1>3, <1>9 DEF Kept
    <3> QED
      BY <3>1, <3>2
  <2> QED
    BY <2>2, <1>3, SameServed DEF Kept
<1>13. Drawing'
  BY <1>1, <1>3 DEF Drawing
<1>14. Distributing'
  <2>1. Finished \in SUBSET Executors /\ e \notin Finished
    BY <1>4 DEF Finished
  <2>2. EndsSent \in Nat /\ EndsSent' = EndsSent
    BY <1>3, FinishedCount DEF EndsSent, Phases, Shapes, DistShapes
  <2>3. EndsLeft \in 0 .. n /\ \A i \in 1 .. n : ring[i].shutdown <=> i > n - EndsLeft
    BY <1>1 DEF Distributing, n
  <2>4. CASE head.shutdown
    <3>1. Finished' = Finished \union {e}
      BY <2>4, <1>3, <1>4 DEF Finished
    <3>2. EndsLeft' = EndsLeft - 1
      BY <3>1, <2>1, <2>2, <2>3, FinishedCount DEF EndsLeft
    <3>3. EndsLeft = n
      BY <2>3, <2>4, <1>2, <1>8 DEF head
    <3>4. \A i \in 1 .. n - 1 : ring'[i].shutdown <=> i > (n - 1) - (EndsLeft - 1)
      BY <2>3, <3>3, <1>2, <1>7
    <3>5. EndsLeft' \in 0 .. Len(ring') /\ Len(ring') = EndsLeft'
      BY <3>2, <3>3, <1>2
    <3> QED
      BY <3>2, <3>4, <3>5, <1>1, <1>2, <1>3 DEF Distributing
  <2>5. CASE ~head.shutdown
    <3>1. Finished' = Finished
      BY <2>5, <1>3, <1>4 DEF Finished
    <3>2. EndsLeft' = EndsLeft
      BY <3>1, <2>2 DEF EndsLeft
    <3>3. EndsLeft <= n - 1
      BY <2>3, <2>5, <1>2, <1>8 DEF head
    <3>4. Finished = {}
      BY <3>3, <2>3, <1>1, <1>2 DEF Distributing, n
    <3>5. \A i \in 1 .. n - 1 : ring'[i].shutdown <=> i > (n - 1) - EndsLeft
      BY <2>3, <1>2, <1>7
    <3>6. EndsLeft' \in 0 .. Len(ring')
      BY <2>3, <3>2, <3>3, <1>2
    <3> QED
      BY <3>1, <3>2, <3>4, <3>5, <3>6, <1>1, <1>2, <1>3 DEF Distributing
  <2> QED
    BY <2>4, <2>5
<1>15. distribution' = "distributor" /\ distributor' # "none"
  BY <1>1, <1>3 DEF Scheduling
<1> QED
  BY <1>1, <1>3, <1>11, <1>12, <1>13, <1>14, <1>15 DEF Scheduling

(* Whoever draws a range of tiles has them for itself.                     *)
LEMMA Handed ==
  ASSUME Phases, Apart, Kept, NEW e \in Executors, executor[e] = "receive",
         distribution # "distributor",
         NEW R \in SUBSET Tiles, \A t \in R : Ahead(t),
         \A t \in Tiles : Ahead(t)' <=> Ahead(t) /\ t \notin R,
         work' = [work EXCEPT ![e] = R],
         UNCHANGED <<distribution, due, batch, ring, gathered, pulled>>
  PROVE  Apart' /\ Kept'
<1>1. work[e] = {} /\ gathered[e] = {} /\ e \in DOMAIN work
  BY DEF Phases, Shapes, ExecShapes, Pullers
<1>2. /\ With(e) = {} /\ With(e)' = R /\ work'[e] = R
      /\ \A q \in Executors : q # e => With(q)' = With(q) /\ work'[q] = work[q]
  BY <1>1 DEF With
<1>3. \A t \in R : t \notin batch /\ ~InRing(t) /\ Untaken(t)
  BY DEF Apart
<1>4. \A t : InRing(t)' = InRing(t)
  BY DEF InRing
<1>5. ASSUME NEW t, t \notin R PROVE Untaken(t)' <=> Untaken(t)
  BY <1>2, <1>5 DEF Untaken
<1>6. Apart'
  <2>1. \A t \in Tiles : Ahead(t)' => t \notin batch' /\ ~InRing(t)' /\ Untaken(t)'
    BY <1>4, <1>5 DEF Apart
  <2>2. \A t \in batch' : ~InRing(t)' /\ Untaken(t)'
    BY <1>3, <1>4, <1>5 DEF Apart
  <2>3. ASSUME NEW i \in 1 .. Len(ring), NEW t \in ring[i].tiles
        PROVE  Untaken(t)' /\ \A j \in 1 .. Len(ring) : t \in ring[j].tiles => j = i
    <3>1. InRing(t)
      BY DEF InRing
    <3> QED
      BY <3>1, <1>3, <1>5 DEF Apart
  <2>4. ASSUME NEW q \in Executors, NEW t \in With(q)'
        PROVE  pulled'[t] = 0 /\ \A r \in Executors : t \in With(r)' => r = q
    <3>1. CASE q = e
      BY <2>4, <3>1, <1>2, <1>3 DEF Untaken
    <3>2. CASE q # e
      <4>1. t \in With(q)
        BY <2>4, <3>2, <1>2
      <4>2. pulled[t] = 0 /\ \A r \in Executors : t \in With(r) => r = q
        BY <4>1 DEF Apart
      <4>3. t \notin R
        BY <4>1, <1>3 DEF Untaken
      <4> QED
        BY <4>2, <4>3, <1>2
    <3> QED
      BY <3>1, <3>2
  <2>5. \A q \in Executors : \A t \in work'[q] : t \notin gathered'[q]
    BY <1>1, <1>2 DEF Apart
  <2>6. \A t \in Tiles : pulled'[t] \in {0, 1}
    BY DEF Apart
  <2> QED
    BY <2>1, <2>2, <2>3, <2>4, <2>5, <2>6 DEF Apart
<1>7. Kept'
  <2>1. due \subseteq Tiles
    BY DEF Phases, Shapes, EdgeShapes
  <2>2. ASSUME NEW t \in due \intersect Served
        PROVE  \/ Ahead(t)' \/ t \in batch \/ InRing(t)
               \/ \E q \in Executors : t \in With(q)'
               \/ pulled[t] = 1
    <3>1. CASE t \in R
      BY <3>1, <1>2
    <3>2. CASE t \notin R
      <4>1. \A q \in Executors : t \in With(q) => t \in With(q)'
        BY <1>2
      <4> QED
        BY <3>2, <4>1, <2>1 DEF Kept
    <3> QED
      BY <3>1, <3>2
  <2> QED
    BY <2>2, <1>4, SameServed DEF Kept
<1> QED
  BY <1>6, <1>7

LEMMA DrawScheduling ==
  ASSUME Phases, Scheduling, NEW e \in Executors, Draw(e)
  PROVE  Scheduling'
<1> USE DEF Draw, Take
<1>1. /\ main = "pulling" /\ distribution = "atomics" /\ executor[e] = "receive"
      /\ Apart /\ Kept /\ Drawing
  BY DEF Phases, Pullers, Scheduling
<1> DEFINE R == currentTile .. Least(currentTile + Batching, CountTiles) - 1
<1>2. /\ UNCHANGED <<main, due, distribution, distributor, cursor, batch, ring,
                     gathered, index, pulled>>
      /\ work' = [work EXCEPT ![e] = R] /\ currentTile' = currentTile + Batching
      /\ executor' = [executor EXCEPT
                        ![e] = IF currentTile >= CountTiles THEN "done" ELSE "pull"]
  BY DEF mainVars, edgeVars, distVars
<1>3. /\ currentTile \in Nat /\ CountTiles \in Nat /\ Batching \in Nat /\ Batching > 0
      /\ executor \in [Executors -> {"waiting", "receive", "pull", "done", "over"}]
  BY CountsAssumption DEF Phases, Shapes, ExecShapes
<1>4. /\ R \in SUBSET Tiles /\ \A t \in R : t >= currentTile
      /\ \A t \in Tiles : t >= currentTile' <=> t >= currentTile /\ t \notin R
  <2>1. R \in SUBSET Tiles /\ \A t \in R : t >= currentTile
    BY <1>3 DEF Least, Tiles
  <2>2. ASSUME NEW t \in Tiles
        PROVE  t >= currentTile + Batching <=> t >= currentTile /\ t \notin R
    BY <1>3 DEF Least, Tiles
  <2> QED
    BY <2>1, <2>2, <1>2
<1> HIDE DEF Draw, Take, R
<1>5. /\ \A t \in R : Ahead(t)
      /\ \A t \in Tiles : Ahead(t)' <=> Ahead(t) /\ t \notin R
  BY <1>1, <1>2, <1>4 DEF Ahead
<1>6. Apart' /\ Kept'
  BY <1>1, <1>2, <1>4, <1>5, Handed
<1>7. Drawing'
  <2> SUFFICES ASSUME NEW q \in Finished' PROVE currentTile' >= CountTiles
    BY <1>1, <1>2 DEF Drawing
  <2>1. currentTile >= CountTiles
    <3>1. CASE q = e
      BY <3>1, <1>2, <1>3 DEF Finished
    <3>2. CASE q # e
      BY <3>2, <1>1, <1>2, <1>3 DEF Finished, Drawing
    <3> QED
      BY <3>1, <3>2
  <2> QED
    BY <2>1, <1>2, <1>3
<1> QED
  BY <1>1, <1>2, <1>6, <1>7 DEF Scheduling

LEMMA NextPieceScheduling ==
  ASSUME Phases, Scheduling, NEW e \in Executors, NextPiece(e)
  PROVE  Scheduling'
<1> USE DEF NextPiece, Take
<1>1. /\ main = "pulling" /\ distribution = "static" /\ executor[e] = "receive"
      /\ Apart /\ Kept /\ Drawing
  BY DEF Phases, Pullers, Scheduling
<1> DEFINE start == First(e) + index[e]
           R == start .. Least(start + Batching, Last(e)) - 1
<1>2. /\ UNCHANGED <<main, due, distribution, distributor, cursor, batch, ring,
                     gathered, currentTile, pulled>>
      /\ work' = [work EXCEPT ![e] = R] /\ index' = [index EXCEPT ![e] = @ + Batching]
      /\ executor' = [executor EXCEPT ![e] = IF start >= Last(e) THEN "done" ELSE "pull"]
  BY DEF mainVars, edgeVars, distVars, First, Last
<1>3. /\ First(e) \in Nat /\ Last(e) \in Nat /\ Last(e) <= CountTiles
      /\ CountTiles \in Nat /\ Batching \in Nat /\ Batching > 0 /\ index[e] \in Nat
      /\ executor \in [Executors -> {"waiting", "receive", "pull", "done", "over"}]
      /\ index \in [Executors -> Nat]
  BY CountsAssumption, SharesFit DEF Phases, Shapes, ExecShapes
<1>4. /\ R \in SUBSET Tiles /\ \A t \in R : start <= t /\ t < Last(e)
      /\ \A t \in Tiles :
           start + Batching <= t /\ t < Last(e)
             <=> start <= t /\ t < Last(e) /\ t \notin R
  <2>1. R \in SUBSET Tiles /\ \A t \in R : start <= t /\ t < Last(e)
    BY <1>3 DEF Least, Tiles
  <2>2. ASSUME NEW t \in Tiles
        PROVE  start + Batching <= t /\ t < Last(e)
                 <=> start <= t /\ t < Last(e) /\ t \notin R
    BY <1>3 DEF Least, Tiles
  <2> QED
    BY <2>1, <2>2
<1>5. /\ First(e) + index'[e] = start + Batching
      /\ \A q \in Executors : q # e => index'[q] = index[q]
  BY <1>2, <1>3
<1> HIDE DEF NextPiece, Take
<1>6. ASSUME NEW q \in Executors, q # e, NEW t \in R
      PROVE  ~(First(q) + index[q] <= t /\ t < Last(q))
  <2>1. /\ Last(e) <= First(q) \/ Last(q) <= First(e)
        /\ First(q) \in Nat /\ Last(q) \in Nat /\ index[q] \in Nat
    BY <1>3, <1>6, SharesApart, SharesFit
  <2>2. t \in Nat /\ First(e) + index[e] <= t /\ t < Last(e)
    BY <1>4 DEF Tiles
  <2> QED
    BY <2>1, <2>2, <1>3
<1> HIDE DEF start, R
<1>7. /\ \A t \in R : Ahead(t)
      /\ \A t \in Tiles : Ahead(t)' <=> Ahead(t) /\ t \notin R
  <2>1. \A t \in R : Ahead(t)
    BY <1>1, <1>4 DEF Ahead, start
  <2>2. ASSUME NEW t \in Tiles
        PROVE  (\E q \in Executors : First(q) + index'[q] <= t /\ t < Last(q))
                 <=> /\ \E q \in Executors : First(q) + index[q] <= t /\ t < Last(q)
                     /\ t \notin R
    <3>1. ASSUME NEW q \in Executors
          PROVE  First(q) + index'[q] <= t /\ t < Last(q)
                   <=> First(q) + index[q] <= t /\ t < Last(q) /\ t \notin R
      <4>1. CASE q = e
        BY <4>1, <1>4, <1>5 DEF start
      <4>2. CASE q # e
        BY <4>2, <1>5, <1>6
      <4> QED
        BY <4>1, <4>2
    <3> QED
      BY <3>1
  <2> QED
    BY <2>1, <2>2, <1>1, <1>2 DEF Ahead
<1>8. Apart' /\ Kept'
  BY <1>1, <1>2, <1>4, <1>7, Handed
<1>9. Drawing'
  <2> SUFFICES ASSUME NEW q \in Finished' PROVE First(q) + index'[q] >= Last(q)
    BY <1>1, <1>2 DEF Drawing
  <2>1. q \in Executors
    BY DEF Finished
  <2>2. CASE q = e
    <3>1. start >= Last(e)
      BY <2>2, <1>2, <1>3 DEF Finished
    <3>2. start + Batching >= Last(e)
      BY <3>1, <1>3 DEF start
    <3> QED
      BY <2>2, <3>2, <1>5
  <2>3. CASE q # e
    <3>1. q \in Finished
      BY <2>1, <2>3, <1>2, <1>3 DEF Finished
    <3> QED
      BY <2>1, <2>3, <3>1, <1>1, <1>5 DEF Drawing
  <2> QED
    BY <2>2, <2>3
<1> QED
  BY <1>1, <1>2, <1>8, <1>9 DEF Scheduling

(* The executor passes over a tile without edges, which is not due.        *)
LEMMA ExecuteTileScheduling ==
  ASSUME Phases, Scheduling, NEW e \in Executors, ExecuteTile(e)
  PROVE  Scheduling'
<1> USE DEF ExecuteTile
<1>1. /\ main = "pulling" /\ Apart /\ Kept /\ Drawing
      /\ distribution = "distributor" => Distributing
  BY DEF Phases, Pullers, Scheduling
<1>2. UNCHANGED <<main, due, distribution, distributor, cursor, batch, ring, executor,
                  index, currentTile, pulled>>
  BY DEF mainVars, edgeVars, distVars
<1>3. PICK t \in work[e] :
        /\ work' = [work EXCEPT ![e] = @ \ {t}]
        /\ gathered' = [gathered EXCEPT ![e] = IF t \in filled THEN @ \union {t} ELSE @]
  OBVIOUS
<1>4. /\ work'[e] = work[e] \ {t}
      /\ gathered'[e] = IF t \in filled THEN gathered[e] \union {t} ELSE gathered[e]
      /\ \A q \in Executors : q # e => work'[q] = work[q] /\ gathered'[q] = gathered[q]
  BY <1>3 DEF Phases, Shapes, ExecShapes
<1> HIDE DEF ExecuteTile
<1>5. /\ \A u \in Tiles : Ahead(u)' = Ahead(u)
      /\ \A u : InRing(u)' = InRing(u)
      /\ \A q \in Executors : With(q)' \subseteq With(q)
      /\ \A q \in Executors : \A u \in filled : u \in With(q) => u \in With(q)'
  <2>1. \A q \in Executors : With(q)' \subseteq With(q)
    BY <1>3, <1>4 DEF With
  <2>2. \A q \in Executors : \A u \in filled : u \in With(q) => u \in With(q)'
    BY <1>3, <1>4 DEF With
  <2> QED
    BY <2>1, <2>2, <1>2 DEF Ahead, InRing
<1>6. \A u : Untaken(u) => Untaken(u)'
  BY <1>2, <1>5 DEF Untaken
<1>7. Apart'
  <2>1. \A u \in Tiles : Ahead(u)' => u \notin batch' /\ ~InRing(u)' /\ Untaken(u)'
    BY <1>1, <1>2, <1>5, <1>6 DEF Apart
  <2>2. \A u \in batch' : ~InRing(u)' /\ Untaken(u)'
    BY <1>1, <1>2, <1>5, <1>6 DEF Apart
  <2>3. \A i \in 1 .. Len(ring) : \A u \in ring[i].tiles :
          Untaken(u)' /\ \A j \in 1 .. Len(ring) : u \in ring[j].tiles => j = i
    BY <1>1, <1>6 DEF Apart
  <2>4. \A q \in Executors : \A u \in With(q)' :
          pulled'[u] = 0 /\ \A r \in Executors : u \in With(r)' => r = q
    BY <1>1, <1>2, <1>5 DEF Apart
  <2>5. \A q \in Executors : \A u \in work'[q] : u \notin gathered'[q]
    BY <1>1, <1>4 DEF Apart
  <2>6. \A u \in Tiles : pulled'[u] \in {0, 1}
    BY <1>1, <1>2 DEF Apart
  <2> QED
    BY <2>1, <2>2, <2>3, <2>4, <2>5, <2>6, <1>2 DEF Apart
<1>8. Kept'
  <2>1. due \subseteq Tiles /\ due \subseteq filled
    BY DEF Phases, Shapes, EdgeShapes
  <2> QED
    BY <2>1, <1>1, <1>2, <1>5, SameServed DEF Kept
<1>9. Drawing'
  BY <1>1, <1>2 DEF Drawing, Finished
<1>10. distribution = "distributor" => Distributing'
  BY <1>1, <1>2 DEF Distributing, Finished, EndsSent, EndsLeft
<1> QED
  BY <1>1, <1>2, <1>7, <1>8, <1>9, <1>10 DEF Scheduling

LEMMA ApplyTilesScheduling ==
  ASSUME Phases, Scheduling, NEW e \in Executors, ApplyTiles(e)
  PROVE  Scheduling'
<1> USE DEF ApplyTiles
<1>1. /\ main = "pulling" /\ Apart /\ Kept /\ Drawing
      /\ distribution = "distributor" => Distributing
  BY DEF Phases, Pullers, Scheduling
<1>2. /\ UNCHANGED <<main, due, distribution, distributor, cursor, batch, ring, work,
                     index, currentTile>>
      /\ gathered' = [gathered EXCEPT ![e] = {}] /\ work[e] = {}
      /\ executor' = [executor EXCEPT ![e] = "receive"] /\ executor[e] = "pull"
      /\ executor \in [Executors -> {"waiting", "receive", "pull", "done", "over"}]
  BY DEF mainVars, edgeVars, distVars, Phases, Shapes, ExecShapes
<1>3. /\ With(e) = gathered[e] /\ With(e)' = {} /\ gathered[e] \subseteq Tiles
      /\ \A q \in Executors : q # e => With(q)' = With(q) /\ gathered'[q] = gathered[q]
  BY <1>2 DEF With, Phases, Shapes, ExecShapes
<1>4. /\ \A t \in gathered[e] : pulled[t] = 0 /\ pulled'[t] = 1
      /\ \A t \in Tiles \ gathered[e] : pulled'[t] = pulled[t]
  <2>1. \A t \in gathered[e] : pulled[t] = 0
    BY <1>1, <1>3 DEF Apart
  <2>2. pulled \in [Tiles -> Nat]
    BY DEF Phases, Shapes, ExecShapes
  <2> QED
    BY <2>1, <2>2, <1>3
<1>5. Finished' = Finished
  BY <1>2 DEF Finished
<1> HIDE DEF ApplyTiles
<1>6. /\ \A t \in Tiles : Ahead(t)' = Ahead(t)
      /\ \A t : InRing(t)' = InRing(t)
  BY <1>2 DEF Ahead, InRing
<1>7. \A t \in Tiles : Untaken(t) => Untaken(t)'
  <2> SUFFICES ASSUME NEW t \in Tiles, Untaken(t) PROVE Untaken(t)'
    OBVIOUS
  <2>1. t \notin gathered[e]
    BY <1>3 DEF Untaken
  <2> QED
    BY <2>1, <1>3, <1>4 DEF Untaken
<1>8. Apart'
  <2>1. \A t \in Tiles : Ahead(t)' => t \notin batch' /\ ~InRing(t)' /\ Untaken(t)'
    BY <1>1, <1>2, <1>6, <1>7 DEF Apart
  <2>2. \A t \in batch' : ~InRing(t)' /\ Untaken(t)'
    <3>1. batch \subseteq Tiles
      BY DEF Phases, Shapes, DistShapes
    <3> QED
      BY <3>1, <1>1, <1>2, <1>6, <1>7 DEF Apart
  <2>3. \A i \in 1 .. Len(ring) : \A t \in ring[i].tiles :
          Untaken(t)' /\ \A j \in 1 .. Len(ring) : t \in ring[j].tiles => j = i
    <3>1. ASSUME NEW i \in 1 .. Len(ring) PROVE ring[i].tiles \subseteq Tiles
      <4>1. ring \in Seq(Messages)
        BY DEF Phases, Shapes, DistShapes
      <4>2. ring[i] \in Messages
        BY <4>1
      <4> QED
        BY <4>2 DEF Messages
    <3> QED
      BY <3>1, <1>1, <1>7 DEF Apart
  <2>4. ASSUME NEW q \in Executors, NEW t \in With(q)'
        PROVE  pulled'[t] = 0 /\ \A r \in Executors : t \in With(r)' => r = q
    <3>1. q # e /\ t \in With(q)
      BY <2>4, <1>3
    <3>2. pulled[t] = 0 /\ \A r \in Executors : t \in With(r) => r = q
      BY <3>1, <1>1 DEF Apart
    <3>3. t \notin gathered[e] /\ t \in Tiles
      BY <3>1, <3>2, <1>3 DEF With, Phases, Shapes, ExecShapes
    <3> QED
      BY <3>2, <3>3, <1>3, <1>4
  <2>5. \A q \in Executors : \A t \in work'[q] : t \notin gathered'[q]
    BY <1>1, <1>2, <1>3 DEF Apart
  <2>6. \A t \in Tiles : pulled'[t] \in {0, 1}
    BY <1>1, <1>4 DEF Apart
  <2> QED
    BY <2>1, <2>2, <2>3, <2>4, <2>5, <2>6, <1>2 DEF Apart
<1>9. Kept'
  <2>1. due \subseteq Tiles
    BY DEF Phases, Shapes, EdgeShapes
  <2>2. ASSUME NEW t \in due \intersect Served
        PROVE  \/ Ahead(t) \/ t \in batch \/ InRing(t)
               \/ \E q \in Executors : t \in With(q)'
               \/ pulled'[t] = 1
    <3>1. CASE t \in gathered[e]
      BY <3>1, <1>4
    <3>2. CASE t \notin gathered[e]
      <4>1. \A q \in Executors : t \in With(q) => t \in With(q)'
        BY <3>2, <1>3
      <4>2. pulled'[t] = pulled[t]
        BY <3>2, <2>1, <1>4
      <4> QED
        BY <4>1, <4>2, <1>1 DEF Kept
    <3> QED
      BY <3>1, <3>2
  <2> QED
    BY <2>1, <2>2, <1>2, <1>6, SameServed DEF Kept
<1>10. Drawing'
  BY <1>1, <1>2, <1>5 DEF Drawing
<1>11. distribution = "distributor" => Distributing'
  BY <1>1, <1>2, <1>5 DEF Distributing, EndsSent, EndsLeft
<1> QED
  BY <1>1, <1>2, <1>8, <1>9, <1>10, <1>11 DEF Scheduling

(* When all executors are done, so is the distributor, nothing is left in  *)
(* the ring, and every tile that is due has been pulled.                   *)
LEMMA PullBarrierScheduling ==
  ASSUME Phases, Scheduling, PullBarrier
  PROVE  Scheduling'
<1> USE DEF PullBarrier, PullBarrierOf
<1>1. /\ main = "pulling" /\ main' = "collect" /\ Apart /\ Kept /\ Drawing
      /\ distribution = "distributor" => Distributing
      /\ UNCHANGED <<due, distribution, distributor, batch, ring, pulled>>
  BY DEF Scheduling, distVars, edgeVars
<1>2. Finished = Executors
  BY DEF Finished
<1>3. \A e \in Executors : With(e) = {}
  BY DEF Phases, Pullers, With
<1> HIDE DEF PullBarrier, PullBarrierOf
<1>4. /\ ring = <<>> /\ distributor \in {"waiting", "none", "over"}
      /\ batch = {}
      /\ distribution = "distributor" => cursor = CountTiles + CountExecutors
  <2>1. CASE distribution # "distributor"
    BY <2>1 DEF Scheduling
  <2>2. CASE distribution = "distributor"
    <3>1. Cardinality(Finished) = CountExecutors /\ Finished # {}
      BY <1>2, FinishedCount
    <3>2. /\ Distributing /\ cursor \in Nat /\ Len(ring) \in Nat /\ ring \in Seq(Messages)
      BY <2>2, <1>1 DEF Phases, Shapes, DistShapes
    <3>3. EndsLeft >= 0 /\ Len(ring) = EndsLeft
          /\ cursor <= CountTiles + CountExecutors
      BY <3>1, <3>2 DEF Distributing
    <3>4. EndsLeft = 0 /\ cursor = CountTiles + CountExecutors
      BY <3>1, <3>2, <3>3, FinishedCount DEF EndsLeft, EndsSent
    <3>5. ring = <<>>
      BY <3>2, <3>3, <3>4
    <3>6. distributor \in {"waiting", "none"} /\ batch = {}
      BY <3>2, <3>4, FinishedCount DEF Distributing, Phases, Shapes, DistShapes
    <3> QED
      BY <3>4, <3>5, <3>6
  <2> QED
    BY <2>1, <2>2
<1>5. \A t \in Tiles : ~Ahead(t)
  <2> SUFFICES ASSUME NEW t \in Tiles, Ahead(t) PROVE FALSE
    OBVIOUS
  <2>1. t \in Nat /\ t < CountTiles
    BY FinishedCount DEF Tiles
  <2>2. CASE distribution = "distributor"
    BY <2>1, <2>2, <1>4, FinishedCount DEF Ahead
  <2>3. CASE distribution = "atomics"
    <3>1. currentTile >= CountTiles
      BY <2>3, <1>1, <1>2, FinishedCount DEF Drawing, Executors
    <3>2. t >= currentTile
      BY <2>3 DEF Ahead
    <3>3. currentTile \in Nat
      BY DEF Phases, Shapes, ExecShapes
    <3> QED
      BY <2>1, <3>1, <3>2, <3>3, FinishedCount
  <2>4. CASE distribution = "static"
    <3>1. PICK e \in Executors : First(e) + index[e] <= t /\ t < Last(e)
      BY <2>4 DEF Ahead
    <3>2. First(e) + index[e] >= Last(e)
      BY <2>4, <1>1, <1>2 DEF Drawing
    <3>3. First(e) \in Nat /\ Last(e) \in Nat /\ index[e] \in Nat
      BY SharesFit DEF Phases, Shapes, ExecShapes
    <3> QED
      BY <2>1, <3>1, <3>2, <3>3
  <2> QED
    BY <2>2, <2>3, <2>4 DEF Ahead
<1>6. \A t \in due \intersect Served : pulled[t] = 1
  <2>1. due \subseteq Tiles
    BY DEF Phases, Shapes, EdgeShapes
  <2>2. \A t : ~InRing(t)
    BY <1>4 DEF InRing
  <2> QED
    BY <2>1, <2>2, <1>1, <1>3, <1>4, <1>5 DEF Kept
<1> QED
  BY <1>1, <1>4, <1>6, SameServed DEF Scheduling

LEMMA NextScheduling == Phases /\ Scheduling /\ [Next]_vars => Scheduling'
<1> SUFFICES ASSUME Phases, Scheduling, [Next]_vars PROVE Scheduling'
    OBVIOUS
<1> USE DEF mainVars, edgeVars
<1>1. CASE MainNext
  BY <1>1, MainScheduling, StartIterationScheduling, PullBarrierScheduling DEF MainNext
<1>2. CASE DistributorNext
  BY <1>2, LookAtTileScheduling, SendBatchScheduling, SendEndScheduling
     DEF DistributorNext
<1>3. CASE EdgesChange
  BY <1>3, EdgesChangeScheduling
<1>4. ASSUME NEW e \in Executors, ExecutorNext(e) PROVE Scheduling'
  BY <1>4, ReceiveScheduling, DrawScheduling, NextPieceScheduling,
     ExecuteTileScheduling, ApplyTilesScheduling DEF ExecutorNext
<1>5. ASSUME NEW a \in Appliers, ApplierNext(a) PROVE Scheduling'
  BY <1>5, FrameScheduling DEF ApplierNext, Claim, Examine, ResetByApplier
<1>6. CASE UNCHANGED vars
  BY <1>6, FrameScheduling DEF vars
<1> QED
  BY <1>1, <1>2, <1>3, <1>4, <1>5, <1>6 DEF Next

(* The tiles that the static shares leave over are with nobody.            *)
OnlyServed == \A e \in Executors : With(e) \subseteq Served

LEMMA NextOnlyServed == Phases' /\ Phases /\ OnlyServed /\ [Next]_vars => OnlyServed'
<1> SUFFICES ASSUME Phases', Phases, OnlyServed, [Next]_vars PROVE OnlyServed'
    OBVIOUS
<1>1. UNCHANGED distribution
  BY DEF Next, MainNext, DistributorNext, ExecutorNext, ApplierNext, vars, EdgesChange,
         StartRun, StartIteration, PullBarrier, PullBarrierOf, Collect, StartApply,
         EndApply, ResetByMain, Decide, Destroy, StopPullers, StopAppliers, LookAtTile,
         LookThenSendAfter, SendBatch, SendEnd, SendEnds, Receive, Draw, NextPiece,
         ExecuteTile, ApplyTiles, Claim, Examine, ResetByApplier
<1>2. CASE distribution # "static"
  <2>1. \A e \in Executors : With(e)' \subseteq Tiles
    BY DEF Phases, Shapes, ExecShapes, With
  <2> QED
    BY <1>1, <1>2, <2>1 DEF OnlyServed, Served
<1>3. CASE distribution = "static"
  <2>1. ASSUME NEW e \in Executors, NextPiece(e) PROVE OnlyServed'
    <3> DEFINE start == First(e) + index[e]
               R == start .. Least(start + Batching, Last(e)) - 1
    <3>1. /\ work' = [work EXCEPT ![e] = R] /\ UNCHANGED gathered
      BY <2>1 DEF NextPiece, Take, First, Last
    <3>2. R \subseteq 0 .. CountExecutors * Share - 1
      <4>1. First(e) \in Nat /\ Last(e) \in Nat /\ index[e] \in Nat /\ Batching \in Nat
        BY SharesFit, CountsAssumption DEF Phases, Shapes, ExecShapes
      <4>2. CountExecutors * Share \in Nat /\ Last(e) <= CountExecutors * Share
        BY SharesWithin
      <4> QED
        BY <4>1, <4>2 DEF Least
    <3>3. R \subseteq Served /\ Served' = Served
      BY <1>1, <1>3, <3>2, SameServed DEF Served
    <3> HIDE DEF R
    <3> QED
      BY <3>1, <3>3 DEF OnlyServed, With, Phases, Shapes, ExecShapes
  <2>2. ASSUME NEW e \in Executors, ExecuteTile(e) \/ ApplyTiles(e) PROVE OnlyServed'
    <3>1. \A q \in Executors : With(q)' \subseteq With(q)
      BY <2>2 DEF ExecuteTile, ApplyTiles, With, Phases, Shapes, ExecShapes
    <3> QED
      BY <3>1, <1>1, SameServed DEF OnlyServed
  <2>3. CASE UNCHANGED <<work, gathered>>
    BY <2>3, <1>1, SameServed DEF OnlyServed, With
  <2>4. \A e \in Executors : ~Receive(e) /\ ~Draw(e)
    BY <1>3 DEF Receive, Draw
  <2> QED
    BY <2>1, <2>2, <2>3, <2>4
       DEF Next, MainNext, DistributorNext, ExecutorNext, ApplierNext, vars, EdgesChange,
           execVars, StartRun, StartIteration, PullBarrier, PullBarrierOf, Collect,
           StartApply, EndApply, ResetByMain, Decide, Destroy, StopPullers, StopAppliers,
           LookAtTile, LookThenSendAfter, SendBatch, SendEnd, SendEnds, Claim, Examine,
           ResetByApplier
<1> QED
  BY <1>2, <1>3

(***************************************************************************)
(* The invariant of an iteration: the phases and their counters, the place *)
(* of every tile, and the state of every chunk.                            *)
(***************************************************************************)
THEOREM Invariant == Spec => [](Phases /\ Scheduling /\ OnlyServed /\ Applying)
<1>1. Init => Scheduling /\ OnlyServed /\ Applying
  BY InitScheduling, InitApplying DEF Init, OnlyServed, With
<1>2. Phases /\ Scheduling /\ Applying /\ [Next]_vars => Scheduling' /\ Applying'
  BY NextScheduling, NextApplying
<1> QED
  BY <1>1, <1>2, NextOnlyServed, PhasesInvariant, PTL DEF Spec

-------------------------------------------------------------------------------
(***************************************************************************)
(* Every iteration is a step of BulkSynchronous.                           *)
(***************************************************************************)
LEMMA InitPromise == Init => Promise!Init
<1> SUFFICES ASSUME Init PROVE Promise!Init
    OBVIOUS
<1>1. Served \subseteq Tiles
  BY ShareIsNat, CountsAssumption DEF Served, Tiles
<1> QED
  BY <1>1 DEF Init, Promise!Init

(* The steps that hand tiles and messages on, or only move threads.        *)
LEMMA InnerPromise ==
  ASSUME UNCHANGED <<distribution, due, pulled, examined, changed, converged>>,
         \/ UNCHANGED main
         \/ main = "pulling" /\ main' = "collect"
         \/ main \in {"apply", "applying", "reset"}
            /\ main' \in {"applying", "reset", "decide"}
         \/ main \in {"idle", "stop", "stopAppliers"}
            /\ main' \in {"stop", "stopAppliers", "over"}
  PROVE  UNCHANGED Promise!vars
BY SameServed DEF Promise!vars

LEMMA EdgesChangePromise == EdgesChange => Promise!Next
<1> SUFFICES ASSUME EdgesChange PROVE Promise!Forget
    BY DEF Promise!Next
<1>1. /\ UNCHANGED <<distribution, main, converged, pulled, examined, changed>>
      /\ due' \in SUBSET due
  BY DEF EdgesChange, mainVars, execVars, applyVars, chunkVars
<1> QED
  BY <1>1, SameServed DEF Promise!Forget

LEMMA StartRunPromise == StartRun => Promise!Next
<1> SUFFICES ASSUME StartRun PROVE Promise!Restart
    BY DEF Promise!Next
<1> QED
  BY SameServed DEF StartRun, Promise!Restart, edgeVars, execVars, applyVars, chunkVars

LEMMA StartIterationPromise == Phases /\ StartIteration => Promise!Next
<1> SUFFICES ASSUME Phases, StartIteration PROVE Promise!Begin
    BY DEF Promise!Next
<1>1. due' \in SUBSET Tiles
  BY DEF StartIteration, Phases, Shapes, EdgeShapes
<1> QED
  BY <1>1, SameServed DEF StartIteration, Promise!Begin

LEMMA ApplyTilesPromise ==
  ASSUME Phases, Scheduling, OnlyServed, NEW e \in Executors, ApplyTiles(e)
  PROVE  Promise!Next
<1> SUFFICES Promise!Pull
    BY DEF Promise!Next
<1>1. /\ main = "pulling" /\ Apart /\ UNCHANGED Served
      /\ UNCHANGED <<main, due, examined, converged>>
  BY SameServed
     DEF Phases, Pullers, Scheduling, ApplyTiles, mainVars, edgeVars, applyVars
<1>2. /\ gathered[e] \in SUBSET {t \in Served : pulled[t] = 0}
      /\ gathered[e] \in SUBSET Tiles
  BY <1>1 DEF Apart, OnlyServed, With, Phases, Shapes, ExecShapes
<1>3. pulled' = [t \in Tiles |-> IF t \in gathered[e] THEN 1 ELSE pulled[t]]
  <2>1. \A t \in Tiles : pulled[t] \in Nat
    BY DEF Phases, Shapes, ExecShapes
  <2>2. \A t \in Tiles : pulled[t] + (IF t \in gathered[e] THEN 1 ELSE 0)
                          = IF t \in gathered[e] THEN 1 ELSE pulled[t]
    BY <1>2, <2>1
  <2>3. pulled' = [t \in Tiles |-> pulled[t] + (IF t \in gathered[e] THEN 1 ELSE 0)]
    BY DEF ApplyTiles
  <2> QED
    BY <2>2, <2>3
<1>4. \E c \in SUBSET Chunks : changed' = changed \union c
  BY DEF ApplyTiles
<1> QED
  BY <1>1, <1>2, <1>3, <1>4 DEF Promise!Pull

(* All that is due has been pulled when the barrier is behind main.        *)
LEMMA CollectPromise == Scheduling /\ Collect => Promise!Next
<1> SUFFICES ASSUME Scheduling, Collect PROVE Promise!Turn
    BY DEF Promise!Next
<1>1. \A t \in due \intersect Served : pulled[t] = 1
  BY DEF Scheduling, Collect
<1> QED
  BY <1>1, SameServed DEF Collect, Promise!Turn, edgeVars, applyVars, chunkVars

LEMMA ExaminePromise ==
  ASSUME Phases, Applying, NEW a \in Appliers, Examine(a)
  PROVE  Promise!Next
<1> SUFFICES Promise!Examine
    BY DEF Promise!Next
<1>1. /\ main = "applying" /\ UNCHANGED Served
      /\ UNCHANGED <<main, due, pulled, changed, converged>>
  BY SameServed DEF Phases, Settlers, Examine, mainVars, edgeVars, execVars
<1>2. mine[a] \in Chunks /\ examined[mine[a]] = 0
  BY <1>1 DEF Applying, Examining, Examine
<1>3. examined' = [examined EXCEPT ![mine[a]] = 1]
  BY <1>2 DEF Examine, Phases, Shapes, ApplyShapes
<1> QED
  BY <1>1, <1>2, <1>3 DEF Promise!Examine

(* Everybody is settled exactly if nothing has changed.                    *)
LEMMA DecidePromise == Phases /\ Applying /\ Decide => Promise!Next
<1> SUFFICES ASSUME Phases, Applying, Decide PROVE Promise!Decide
    BY DEF Promise!Next
<1>1. main = "decide" /\ main' \in {"idle", "start"}
      /\ UNCHANGED <<due, pulled, examined, changed>> /\ UNCHANGED Served
  BY SameServed DEF Decide, edgeVars, execVars, applyVars, chunkVars
<1>2. (\A c \in Chunks : examined[c] = 1) /\ Settling /\ changed \in SUBSET Chunks
  BY <1>1 DEF Applying, Phases, Shapes, ApplyShapes
<1>3. (\A a \in Appliers : settled[a]) <=> changed = {}
  BY <1>2 DEF Settling
<1>4. converged' = (changed = {})
  BY <1>3 DEF Decide
<1> QED
  BY <1>1, <1>2, <1>4 DEF Promise!Decide

LEMMA NextPromise ==
  Phases /\ Scheduling /\ OnlyServed /\ Applying /\ [Next]_vars
    => [Promise!Next]_(Promise!vars)
<1> SUFFICES ASSUME Phases, Scheduling, OnlyServed, Applying, [Next]_vars,
                    ~(UNCHANGED Promise!vars)
             PROVE  Promise!Next
    OBVIOUS
<1> USE DEF mainVars, edgeVars, execVars, applyVars, chunkVars
<1>1. CASE MainNext
  <2>1. CASE StartRun \/ StartIteration \/ Collect \/ Decide
    BY <2>1, StartRunPromise, StartIterationPromise, CollectPromise, DecidePromise
  <2>2. CASE PullBarrier \/ StartApply \/ EndApply \/ ResetByMain \/ Destroy
             \/ StopPullers \/ StopAppliers
    <3>1. UNCHANGED <<distribution, due, pulled, examined, changed, converged>>
      BY <2>2 DEF PullBarrier, PullBarrierOf, StartApply, EndApply, ResetByMain,
                  Destroy, StopPullers, StopAppliers
    <3>2. \/ main = "pulling" /\ main' = "collect"
          \/ main \in {"apply", "applying", "reset"}
             /\ main' \in {"applying", "reset", "decide"}
          \/ main \in {"idle", "stop", "stopAppliers"}
             /\ main' \in {"stop", "stopAppliers", "over"}
      BY <2>2 DEF PullBarrier, PullBarrierOf, StartApply, EndApply, ResetByMain,
                  Destroy, StopPullers, StopAppliers
    <3> QED
      BY <3>1, <3>2, InnerPromise
  <2> QED
    BY <1>1, <2>1, <2>2 DEF MainNext
<1>2. CASE DistributorNext
  BY <1>2, InnerPromise
     DEF DistributorNext, LookAtTile, LookThenSendAfter, SendBatch, SendEnd, SendEnds
<1>3. CASE EdgesChange
  BY <1>3, EdgesChangePromise
<1>4. ASSUME NEW e \in Executors, ExecutorNext(e) PROVE Promise!Next
  <2>1. CASE ApplyTiles(e)
    BY <2>1, ApplyTilesPromise
  <2>2. CASE Receive(e) \/ Draw(e) \/ NextPiece(e) \/ ExecuteTile(e)
    BY <2>2, InnerPromise DEF Receive, Draw, NextPiece, ExecuteTile
  <2> QED
    BY <1>4, <2>1, <2>2 DEF ExecutorNext
<1>5. ASSUME NEW a \in Appliers, ApplierNext(a) PROVE Promise!Next
  <2>1. CASE Examine(a)
    BY <2>1, ExaminePromise
  <2>2. CASE Claim(a) \/ ResetByApplier(a)
    BY <2>2, InnerPromise DEF Claim, ResetByApplier
  <2> QED
    BY <1>5, <2>1, <2>2 DEF ApplierNext
<1>6. CASE UNCHANGED vars
  BY <1>6, InnerPromise DEF vars
<1> QED
  BY <1>1, <1>2, <1>3, <1>4, <1>5, <1>6 DEF Next

(***************************************************************************)
(* AlgorithmRound implements BulkSynchronous: whoever hands out the tiles, *)
(* and however the threads run, every served tile that holds edges         *)
(* throughout an iteration is pulled once and no tile that is not served   *)
(* is pulled, every chunk is examined once after that, and the algorithm   *)
(* is declared converged exactly if no vertex has changed.  All tiles are  *)
(* served but the rest that the rounded-down static shares leave over.     *)
(***************************************************************************)
THEOREM Refinement == Spec => KeepsPromise
BY Invariant, InitPromise, NextPromise, PTL DEF Spec, KeepsPromise, Promise!Spec
===============================================================================
