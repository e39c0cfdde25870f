------------------------------ MODULE TileStore ------------------------------
(***************************************************************************)
(* TileStore: the tiles of the graph from the first insertion to the last  *)
(* compaction.  While there are batches, each manager inserts edges into   *)
(* its tiles and deletes at random; tiles may compact themselves on the    *)
(* way.  In the end execute() may compact all of them, one by one.  A tile *)
(* is only ever in the hands of its manager or of execute(), so its        *)
(* operations are atomic.                                                  *)
(*                                                                         *)
(* The configuration g, chosen at the start, is a grid of Tiling with      *)
(*   dynamic     use_dynamic_compaction                                    *)
(*   after       enable_static_algorithm_after_compaction                  *)
(*   random      deletion_percentage > 0                                   *)
(*   byValue     edges are deleted by value, which nothing in this         *)
(*               repository asks for                                       *)
(*   insertions  a bound: the insertions                                   *)
(***************************************************************************)
EXTENDS TileManager, FiniteSetsExt

CONSTANTS
  Configs,
  Edges,      \* of the input, pairs <<source, target>>
  Deletions   \* a bound: the deletions

IsConfig(c) ==
  /\ c.traversal \in {"hilbert", "row", "column"}
  /\ c.vertices \in Nat \ {0} /\ c.metas \in Nat /\ c.managers \in Nat \ {0}
  /\ c.perTile \in Nat /\ \E b \in 0 .. c.perTile : c.perTile = Pow2[b]
  /\ c.idMax \in Nat /\ \E b \in 2 .. c.idMax : c.idMax + 1 = Pow2[b]
  /\ c.dynamic \in BOOLEAN /\ c.after \in BOOLEAN /\ c.random \in BOOLEAN
  /\ c.byValue \in BOOLEAN /\ c.insertions \in Nat

ASSUME StoreAssumption ==
  Edges \subseteq Nat \X Nat /\ Deletions \in Nat /\ \A c \in Configs : IsConfig(c)

VARIABLES
  g,          \* the configuration
  tiles,      \* [Tiles(g) -> tile]
  metaCounts, \* td_meta_tile_counts_ of each manager
  phase,      \* "insert", "compact", "done", or "dead": died or crashed
  at,         \* the id of the tile to be compacted next
  deletions,  \* so far
  log         \* history: per tile, what was inserted and not drawn since

vars == <<g, tiles, metaCounts, phase, at, deletions, log>>

Managers == 0 .. g.managers - 1

\* TileStore::init and MetaTileManager's constructor.  With meta tiles that
\* do not cut the grid evenly the tiles overrun the array of meta tiles.
Overrun(c) == TwoLevel(c) /\ \E tile \in Tiles(c) : MetaTileId(c, tile) >= CountMetas(c)
Fails(c) == Overrun(c) \/ \E m \in 0 .. c.managers - 1 : ManagerDies(c, m)

Init ==
  /\ g \in Configs
  /\ tiles = [tile \in Tiles(g) |-> NewTile]
  /\ metaCounts = [m \in Managers |-> [i \in 0 .. CountMetas(g) - 1 |-> 0]]
  /\ phase = IF Fails(g) THEN "dead" ELSE "insert"
  /\ at = 0 /\ deletions = 0
  /\ log = [tile \in Tiles(g) |-> <<>>]

Alive(tile, t) == IF t.dead THEN "dead" ELSE phase
Inserted ==
  MapThenSumSet(LAMBDA tile : Len(tiles[tile].bitset), {tile \in Tiles(g) : tiles[tile].bitset # <<>>})

\* MetaTileManager::insertEdge; a weight is the number of the insertion into
\* the tile.
Insert(e) ==
  LET tile == TileOfEdge(g, e)
      weight == Len(log[tile]) + 1
      t == InsertEdge(g, tiles[tile], e, weight, g.dynamic)
  IN /\ phase = "insert" /\ InRange(g, e) /\ Inserted < g.insertions
     /\ tiles' = [tiles EXCEPT ![tile] = t]
     /\ metaCounts' =
          IF TwoLevel(g)
          THEN [metaCounts EXCEPT ![ManagerOf(g, tile)][MetaTileId(g, tile)] = @ + 1]
          ELSE metaCounts
     /\ log' = [log EXCEPT ![tile] = Append(@, [edge |-> e, weight |-> weight])]
     /\ phase' = Alive(tile, t)
     /\ UNCHANGED <<g, at, deletions>>

Delete(e) ==
  LET tile == TileOfEdge(g, e)
  IN /\ phase = "insert" /\ g.byValue /\ InRange(g, e) /\ deletions < Deletions
     /\ tiles' = [tiles EXCEPT ![tile] = DeleteEdge(g, @, e)]
     /\ deletions' = deletions + 1
     /\ UNCHANGED <<g, metaCounts, phase, at, log>>

\* One random deletion of a manager, from a tile that is not empty.  It reads
\* the edge first, which may be past the end of the list; and a tile id taken
\* from beyond the manager's list may be of no tile at all.
Draw(m) ==
  /\ phase = "insert" /\ g.random /\ deletions < Deletions
  /\ deletions' = deletions + 1
  /\ \/ \E tile \in DrawnTiles(g, m) : \E i \in 1 .. CountEdges(tiles[tile]) :
          /\ tiles' = [tiles EXCEPT ![tile] = DeleteRandomEdge(@, i)]
          /\ phase' = phase \/ (PastList(tiles[tile], i) /\ phase' = "dead")
     \/ /\ DrawnTiles(g, m) = Tiles(g)
        /\ phase' = "dead" /\ UNCHANGED tiles
  /\ UNCHANGED <<g, metaCounts, at, log>>

EndInsert ==
  /\ phase = "insert" /\ Inserted = g.insertions
  /\ phase' = IF g.after THEN "compact" ELSE "done"
  /\ UNCHANGED <<g, tiles, metaCounts, at, deletions, log>>

\* doGlobalCompaction, a tile at a time.
CompactTile ==
  LET tile == TileOfId(g, at)
      t == CompactStorage(g, tiles[tile])
  IN /\ phase = "compact"
     /\ tiles' = [tiles EXCEPT ![tile] = t]
     /\ at' = at + 1
     /\ phase' = IF t.dead THEN "dead" ELSE IF at' = CountTiles(g) THEN "done" ELSE phase
     /\ UNCHANGED <<g, metaCounts, deletions, log>>

End == phase \in {"done", "dead"} /\ UNCHANGED vars

Next ==
  \/ \E e \in Edges : Insert(e) \/ Delete(e)
  \/ \E m \in Managers : Draw(m)
  \/ EndInsert \/ CompactTile \/ End

Spec == Init /\ [][Next]_vars

(***************************************************************************)
(* Properties.                                                             *)
(***************************************************************************)
Read(tile) == Executed(g, tile, tiles[tile])

\* In a tile as large as its ids allow the edge between the largest ids passes
\* for a repetition when it is compacted alone (fillCSR), and is lost; and
\* positions mean nothing with both random deletions and compaction.
Sound == g.perTile <= g.idMax /\ (g.random => ~g.dynamic /\ ~g.after)

\* The edges the executors make of all tiles change as EdgeSet says: storing,
\* compacting, deleting and switching the form of the CSR never lose an edge,
\* bring one back or make one up (TileManager::compactStorage).
Visible == IF Sound THEN UNION {{x.edge : x \in ToSet(Read(tile))} : tile \in Tiles(g)} ELSE {}
Condemned ==
  IF Sound THEN UNION {{GetGlobalEdge(g, tile, l) : l \in tiles[tile].deleted} : tile \in Tiles(g)}
  ELSE {}
ES == INSTANCE EdgeSet WITH visible <- Visible, condemned <- Condemned
ImplementsEdgeSet == ES!ESSpec

\* A CSR is sorted, repeats nothing, holds nothing but what was inserted, and
\* its counts add up to its targets, in either form and across changes of form.
\* So compaction never dies of a mismatch; it fails an assertion when a vertex
\* has 65535 targets in a tile, which takes a tile of 65536 (fillCSR).
CSRInOrder ==
  \A tile \in Tiles(g) :
    LET t == tiles[tile]
        csr == CSREdges(g, t)
        given == {GetLocalEdge(g, x.edge) : x \in ToSet(log[tile])}
    IN IF t.dead
       THEN g.perTile > g.idMax
            /\ \E v \in 0 .. g.perTile - 1 : Cardinality({l \in given : l[1] = v}) >= g.idMax
       ELSE /\ Len(CSRSources(g, t)) = Len(t.targets) /\ ToSet(csr) \subseteq given
            /\ \A i \in 1 .. Len(csr) - 1 : EdgeBefore(csr[i], csr[i + 1])

\* Every edge of a list stands beside a weight it was inserted with, over all
\* compactions (insertEdge, compactStorage).  It says nothing of the edges of a
\* CSR, whose weights are lost: see EdgesKeepWeights.
WeightsFollow ==
  Weighted => \A tile \in Tiles(g) : LET t == tiles[tile] IN
    \A i \in DOMAIN t.edges :
      [edge |-> GetGlobalEdge(g, tile, t.edges[i]), weight |-> t.weights[i]] \in ToSet(log[tile])

\* "Simply sort the edges in the un-weighted case, otherwise keep relationship
\* between edges and their weights." (compactStorage): every edge is executed
\* with a weight it was inserted with.
EdgesKeepWeights ==
  Weighted => \A tile \in Tiles(g) : ToSet(Read(tile)) \subseteq ToSet(log[tile])

\* "Mark edge as deleted." (deleteRandomEdge): when a bit is set, the executors
\* see an edge of its tile less.
MarkedIsDeleted ==
  [][\A tile \in Tiles(g) :
       LET bits == tiles[tile].bitset
       IN bits' # bits /\ Len(bits') = Len(bits) => Len(Read(tile)') < Len(Read(tile))]_vars

\* There is a bit for every position deleteRandomEdge may draw and for every
\* list position the executors test, although the bits are never cleared and
\* the list is (deleteRandomEdge, executeAlgoOnTile).
BitForEveryEdge ==
  \A tile \in Tiles(g) : CountEdges(tiles[tile]) <= Len(tiles[tile].bitset)

\* A meta tile the distributor skips has no edge in any of its tiles: the
\* counts the managers keep by meta tile and the lists the distributor walks
\* agree on which tiles are in it (TileDistributor::run, TileStore::init).
TilesOfMeta(i) ==
  {D2XY(g, d) : d \in i * TilesPerMeta(g) .. (i + 1) * TilesPerMeta(g) - 1}
SkippedIsEmpty ==
  TwoLevel(g) /\ phase # "dead" =>
    \A i \in 0 .. CountMetas(g) - 1 :
      SumFunction([m \in Managers |-> metaCounts[m][i]]) = 0 =>
        \A tile \in TilesOfMeta(i) : CountEdges(tiles[tile]) = 0

\* The traversal visits every tile exactly once and knows the way back, and
\* start-up fails exactly with meta tiles that do not cut the grid evenly or
\* when the largest share of the diagonals is longer than a manager's list
\* (Hilbert, TileStore::init, MetaTileManager).
LargestShare(c) ==
  LET n == TilesPerDim(c)
      q == n \div c.managers
      s == n % c.managers
  IN q * n + q * s + s
LaidOut ==
  Inserted = 0 =>
    /\ \A tile \in Tiles(g) : D2XY(g, XY2D(g, tile[1], tile[2])) = tile
    /\ {XY2D(g, tile[1], tile[2]) : tile \in Tiles(g)} = 0 .. CountTiles(g) - 1
    /\ TwoLevel(g) => (Overrun(g) <=> TilesPerDim(g) % MetasPerDim(g) # 0)
    /\ Fails(g) <=> Overrun(g) \/ LargestShare(g) > MappingSize(g)
================================================================================
