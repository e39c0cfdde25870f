-------------------------------- MODULE Tiling --------------------------------
(***************************************************************************)
(* How the adjacency matrix is cut into tiles, the order in which tiles    *)
(* are visited, and which meta tile and which manager each belongs to.     *)
(* A grid is a configuration before Config::normalizeConfig:               *)
(*   traversal  "hilbert", "row" or "column"                               *)
(*   vertices   max_count_vertices                                         *)
(*   perTile    vertices_per_tile, a power of two                          *)
(*   metas      td_count_meta_tiles_per_dimension                          *)
(*   managers   meta_tile_manager_count                                    *)
(*   idMax      UINT16_MAX, the largest local vertex id and count          *)
(***************************************************************************)
EXTENDS Integers, FiniteSets, SequencesExt

Pow2[k \in Nat] == IF k = 0 THEN 1 ELSE 2 * Pow2[k - 1]

\* util::log2Up, an exponent.
Log2Up(n) == CHOOSE a \in 0 .. n : Pow2[a] >= n /\ (a = 0 \/ Pow2[a - 1] < n)

(***************************************************************************)
(* Config::normalizeConfig.                                                *)
(***************************************************************************)
CountVertices(g) == Pow2[Log2Up(g.vertices)]
TilesPerDim(g) == CountVertices(g) \div g.perTile
CountTiles(g) == TilesPerDim(g) * TilesPerDim(g)
MetasPerDim(g) == IF g.metas < TilesPerDim(g) THEN g.metas ELSE TilesPerDim(g)
TwoLevel(g) == MetasPerDim(g) >= 1
CountMetas(g) == MetasPerDim(g) * MetasPerDim(g)
TilesPerMeta(g) == (TilesPerDim(g) \div MetasPerDim(g)) * (TilesPerDim(g) \div MetasPerDim(g))

(***************************************************************************)
(* The traversals: from a tile to its position and back, n tiles per       *)
(* dimension.  Hilbert takes the coordinates apart bit by bit.             *)
(***************************************************************************)
Bit(a, size) == (a \div size) % 2
Rot(size, x, y, rx, ry) ==
  IF ry = 1 THEN <<x, y>> ELSE IF rx = 1 THEN <<size - 1 - y, size - 1 - x>> ELSE <<y, x>>
QuadrantInRows(rx, ry) == 2 * rx + ry
\* (3 * rx) ^ ry.
Quadrant(rx, ry) == IF rx = 0 THEN ry ELSE 3 - ry

HilbertXY2D(n, x0, y0) ==
  LET Turn(w, size) ==
        LET rx == Bit(w.x, size)
            ry == Bit(w.y, size)
            p == Rot(size, w.x, w.y, rx, ry)
        IN [x |-> p[1], y |-> p[2], d |-> w.d + size * size * Quadrant(rx, ry)]
      sizes == [i \in 1 .. Log2Up(n) |-> n \div Pow2[i]]
  IN FoldLeft(Turn, [x |-> x0, y |-> y0, d |-> 0], sizes).d

HilbertD2XY(n, d) ==
  LET Turn(w, size) ==
        LET rx == Bit(w.t, 2)
            ry == (w.t + rx) % 2
            p == Rot(size, w.x, w.y, rx, ry)
        IN [x |-> p[1] + size * rx, y |-> p[2] + size * ry, t |-> w.t \div 4]
      w == FoldLeft(Turn, [x |-> 0, y |-> 0, t |-> d], [i \in 1 .. Log2Up(n) |-> Pow2[i - 1]])
  IN <<w.x, w.y>>

RowXY2D(n, x, y) == y * n + x
RowD2XY(n, d) == <<d - (d \div n) * n, d \div n>>
ColumnXY2D(n, x, y) == x * n + y
ColumnD2XY(n, d) == <<d \div n, d - (d \div n) * n>>

XY2D(g, x, y) ==
  CASE g.traversal = "hilbert" -> HilbertXY2D(TilesPerDim(g), x, y)
    [] g.traversal = "row" -> RowXY2D(TilesPerDim(g), x, y)
    [] g.traversal = "column" -> ColumnXY2D(TilesPerDim(g), x, y)
D2XY(g, d) ==
  CASE g.traversal = "hilbert" -> HilbertD2XY(TilesPerDim(g), d)
    [] g.traversal = "row" -> RowD2XY(TilesPerDim(g), d)
    [] g.traversal = "column" -> ColumnD2XY(TilesPerDim(g), d)

(***************************************************************************)
(* TileStore: tiles by coordinates, by id and by edge.                     *)
(***************************************************************************)
Tiles(g) == (0 .. TilesPerDim(g) - 1) \X (0 .. TilesPerDim(g) - 1)
\* TileManager::getId and its inverse.
GetId(g, tile) == TilesPerDim(g) * tile[1] + tile[2]
TileOfId(g, id) == <<id \div TilesPerDim(g), id - (id \div TilesPerDim(g)) * TilesPerDim(g)>>
TileOfEdge(g, e) == <<e[1] \div g.perTile, e[2] \div g.perTile>>
InRange(g, e) == e[1] < CountVertices(g) /\ e[2] < CountVertices(g)

MetaTileOfId(g, tile) == GetId(g, tile) \div TilesPerMeta(g)
\* Meta tiles are filled one after the other along the traversal, and a new
\* one is begun when one is full, whether or not it exists.
MetaTileId(g, tile) == XY2D(g, tile[1], tile[2]) \div TilesPerMeta(g)

(***************************************************************************)
(* MetaTileStore and MetaTileManager: the diagonals of the grid are dealt  *)
(* out to the managers, which list their tiles for random deletions.       *)
(***************************************************************************)
ManagerOf(g, tile) == (tile[1] + tile[2]) % g.managers
OwnTiles(g, m) == {id \in 0 .. CountTiles(g) - 1 : ManagerOf(g, TileOfId(g, id)) = m}
\* A list is this long, and a manager with more tiles dies.
MappingSize(g) ==
  LET shares == IF g.managers - 1 > 1 THEN g.managers - 1 ELSE 1
  IN (CountTiles(g) + shares - 1) \div shares
ManagerDies(g, m) == Cardinality(OwnTiles(g, m)) > MappingSize(g)
\* Indices a manager may draw, the upper bound included.
DrawnIndices(g) == 0 .. CountTiles(g) \div g.managers
\* What it finds there: its tiles in order, then whatever the memory holds.
DrawnTiles(g, m) ==
  IF \E i \in DrawnIndices(g) : i >= Cardinality(OwnTiles(g, m))
  THEN Tiles(g) ELSE {TileOfId(g, id) : id \in OwnTiles(g, m)}
================================================================================
