------------------------------ MODULE MCTileStore ------------------------------
\* The instances TLC checks TileStore on.
EXTENDS TileStore

\* In tile <<0, 0>> three sources, one of them with as many targets as a count
\* of the smaller width holds, and the largest ids; and an edge of <<1, 0>>.
MCEdges == {<<0, 1>>, <<0, 2>>, <<0, 3>>, <<2, 1>>, <<3, 3>>, <<6, 1>>}

Grid(traversal, vertices, metas, managers, idMax) ==
  [traversal |-> traversal, vertices |-> vertices, perTile |-> 4, metas |-> metas,
   managers |-> managers, idMax |-> idMax]
With(grid, dynamic, after, random, byValue, insertions) ==
  [dynamic |-> dynamic, after |-> after, random |-> random, byValue |-> byValue,
   insertions |-> insertions] @@ grid

Half == Grid("hilbert", 8, 2, 2, 7)
Full == Grid("row", 7, 0, 1, 3)

\* Random deletion beside compaction.
DrawConfigs == {With(Half, TRUE, FALSE, TRUE, FALSE, 3)}

MCConfigs ==
  {With(Half, TRUE, TRUE, FALSE, FALSE, 4),
   With(Half, TRUE, TRUE, FALSE, TRUE, 3),
   With(Half, FALSE, FALSE, TRUE, FALSE, 3),
   With(Half, TRUE, TRUE, TRUE, FALSE, 3),
   With(Full, TRUE, TRUE, FALSE, FALSE, 3),
   With(Full, FALSE, TRUE, FALSE, FALSE, 4)}
  \* the layout of larger grids
  \union {With(Grid(traversal, vertices, metas, managers, 7), FALSE, FALSE, FALSE, FALSE, 0) :
            traversal \in {"hilbert", "row", "column"}, vertices \in {4, 9, 32},
            metas \in 0 .. 3, managers \in {1, 3, 6, 10}}
  \union {With(Grid("row", 128, 0, managers, 7), FALSE, FALSE, FALSE, FALSE, 0) :
            managers \in {18, 19, 30, 35}}
================================================================================
