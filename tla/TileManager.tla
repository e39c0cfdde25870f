------------------------------ MODULE TileManager ------------------------------
(***************************************************************************)
(* TileManager: the edges of one tile, in a list that compaction empties   *)
(* into a CSR.  A tile is a record:                                        *)
(*   edges, weights   edges_ of local ids and edges_weights_               *)
(*   bitset           deleted_edges_bitset_, one bit per insertion         *)
(*   deleted          deleted_edges_                                       *)
(*   compact          compact_storage_: sources are in counts, a number    *)
(*                    per local id, not in idCounts                        *)
(*   counts, idCounts, targets, csrWeights                                 *)
(*   next             next_compaction_                                     *)
(*   compactions      count_compactions_                                   *)
(*   dead             compactStorage has called die or failed an assertion *)
(* The grid g is that of Tiling.                                           *)
(***************************************************************************)
EXTENDS Tiling

CONSTANTS
  FirstCompaction,  \* PAGE_SIZE, the edges that trigger the first compaction
  Weighted          \* is_weighted

ASSUME TileAssumption == FirstCompaction \in Nat \ {0} /\ Weighted \in BOOLEAN

NewTile ==
  [edges |-> <<>>, weights |-> <<>>, bitset |-> <<>>, deleted |-> {}, compact |-> FALSE,
   counts |-> <<>>, idCounts |-> <<>>, targets |-> <<>>, csrWeights |-> <<>>,
   next |-> FirstCompaction, compactions |-> 0, dead |-> FALSE]

GetLocalEdge(g, e) == <<e[1] % g.perTile, e[2] % g.perTile>>
GetGlobalEdge(g, tile, l) == <<tile[1] * g.perTile + l[1], tile[2] * g.perTile + l[2]>>
CountEdges(t) == Len(t.edges) + Len(t.targets)

EdgeBefore(a, b) == a[1] < b[1] \/ (a[1] = b[1] /\ a[2] < b[2])

\* The source of each target of the CSR, in order.
SourceCounts(g, t) ==
  IF t.compact THEN [i \in 1 .. g.perTile |-> [id |-> i - 1, count |-> t.counts[i - 1]]]
  ELSE t.idCounts
CSRSources(g, t) ==
  LET runs == SourceCounts(g, t)
  IN FlattenSeq([i \in DOMAIN runs |-> [j \in 1 .. runs[i].count |-> runs[i].id]])
CSREdges(g, t) ==
  LET sources == CSRSources(g, t)
  IN [k \in DOMAIN sources |-> <<sources[k], t.targets[k]>>]

(***************************************************************************)
(* compactStorage.                                                         *)
(***************************************************************************)
\* A finite set as the sequence in which each element comes after as many as
\* are before it.
InOrder(S, before) ==
  [k \in 1 .. Cardinality(S) |->
     CHOOSE x \in S : Cardinality({y \in S : <<y, x>> \in before}) = k - 1]
Ascending(S) == InOrder(S, {p \in S \X S : p[1] < p[2]})

\* The list with the CSR appended, sorted.  Which of several equal edges
\* comes first std::sort leaves open; only their weights tell them apart.
SortedPositions(all) ==
  LET Before(i, j) == EdgeBefore(all[i], all[j]) \/ (all[i] = all[j] /\ i < j)
  IN InOrder(DOMAIN all, {p \in (DOMAIN all) \X (DOMAIN all) : Before(p[1], p[2])})

\* The positions fillCSR keeps.  An edge is a repetition if it is the one kept
\* last, which at first is the pair of the largest ids.
KeptBySource(g, t, all, sorted) ==
  LET Keep(acc, i) ==
        IF all[i] \in t.deleted \/ all[i][1] = acc.previous[1] THEN acc
        ELSE [previous |-> all[i], list |-> Append(acc.list, i)]
  IN FoldLeft(Keep, [previous |-> <<g.idMax, g.idMax>>, list |-> <<>>], sorted).list
Kept(g, t, all, sorted) ==
  LET Keep(acc, i) ==
        IF all[i] \in t.deleted \/ all[i] = acc.previous THEN acc
        ELSE [previous |-> all[i], list |-> Append(acc.list, i)]
  IN FoldLeft(Keep, [previous |-> <<g.idMax, g.idMax>>, list |-> <<>>], sorted).list

\* Sources that are left, and the one of the first edge, deleted or not.
CompactForm(g, t, all, first) ==
  LET sources == {first} \union {all[i][1] : i \in {k \in DOMAIN all : all[k] \notin t.deleted}}
  IN Cardinality(sources) % (g.idMax + 1) >= g.perTile \div 2

\* The counts before they are filled: a new array, or the old one reset.
CountsKept(g, t) == IF t.counts = <<>> THEN [v \in 0 .. g.perTile - 1 |-> 0] ELSE t.counts
CountsReset(g, t) == [v \in 0 .. g.perTile - 1 |-> 0]

FillCSR(g, t, all, allWeights, count) ==
  LET sorted == SortedPositions(all)
      kept == Kept(g, t, all, sorted)
      From(v) == Cardinality({k \in DOMAIN kept : all[kept[k]][1] = v})
      first == all[sorted[1]][1]
      sources == Ascending({first} \union {all[kept[k]][1] : k \in DOMAIN kept})
      compact == CompactForm(g, t, all, first)
      before == CountsReset(g, t)
      zeros == [i \in 1 .. count |-> 0]
  IN [t EXCEPT
       !.compact = compact,
       !.counts = IF compact THEN [v \in DOMAIN before |-> before[v] + From(v)] ELSE @,
       !.idCounts =
         IF compact THEN Append(@, [id |-> first, count |-> 0])
         ELSE [i \in DOMAIN sources |-> [id |-> sources[i], count |-> From(sources[i])]],
       !.targets = [k \in DOMAIN kept |-> all[kept[k]][2]],
       !.csrWeights = IF Weighted THEN zeros \o [k \in DOMAIN kept |-> allWeights[kept[k]]]
                      ELSE @,
       !.dead = \E v \in 0 .. g.perTile - 1 : From(v) >= g.idMax]

ListAndBitsEmptied(t) == [t EXCEPT !.edges = <<>>, !.weights = <<>>, !.bitset = <<>>]
EdgesEmptied(t) == [t EXCEPT !.edges = <<>>]
ListEmptied(t) == [t EXCEPT !.edges = <<>>, !.weights = <<>>]

CompactStorage(g, t0) ==
  LET t == [t0 EXCEPT !.compactions = @ + 1]
      copied == CSREdges(g, t)
      all == t.edges \o copied
      allWeights == t.weights \o (IF Weighted THEN SubSeq(t.csrWeights, 1, Len(copied)) ELSE <<>>)
  IN IF CountEdges(t) = 0 THEN t
     ELSE IF Len(copied) # Len(t.targets) THEN [t EXCEPT !.dead = TRUE]
     ELSE ListEmptied(FillCSR(g, t, all, allWeights, CountEdges(t)))

(***************************************************************************)
(* The other operations.                                                   *)
(***************************************************************************)
InsertEdge(g, t, e, weight, dynamic) ==
  LET t1 == [t EXCEPT !.edges = Append(@, GetLocalEdge(g, e)),
                      !.bitset = Append(@, FALSE),
                      !.weights = IF Weighted THEN Append(@, weight) ELSE @]
  IN IF dynamic /\ CountEdges(t1) >= t1.next
     THEN CompactStorage(g, [t1 EXCEPT !.next = 2 * @])
     ELSE t1

DeleteEdge(g, t, e) == [t EXCEPT !.deleted = @ \union {GetLocalEdge(g, e)}]

\* Position i of countEdges() is read from the list and marked, wherever the
\* list ends.  A read past its end is undefined.
PastList(t, i) == i > Len(t.edges)
DeleteRandomEdge(t, i) == [t EXCEPT !.bitset[i] = TRUE]

\* What an executor makes of a tile: executeAlgoOnTile, edges and weights.
Executed(g, tile, t) ==
  LET csr == CSREdges(g, t)
      list == Ascending({i \in DOMAIN t.edges : ~t.bitset[i]})
      W(ws, i) == IF Weighted THEN ws[i] ELSE 1
  IN [k \in DOMAIN csr |-> [edge |-> GetGlobalEdge(g, tile, csr[k]), weight |-> W(t.csrWeights, k)]]
     \o [k \in DOMAIN list |->
          [edge |-> GetGlobalEdge(g, tile, t.edges[list[k]]), weight |-> W(t.weights, list[k])]]
================================================================================
