------------------------------ MODULE MCPersistence ------------------------------
(* Two readers share out three edges: the second takes two of them.  The first  *)
(* job keeps its edges in memory, but on one line, and persists them; the       *)
(* second rewrites ids.                                                         *)
EXTENDS Persistence, TLC

ThreeEdges == <<<<0, 1>>, <<1, 0>>, <<1, 1>>>>
TwoReaders == 1 .. 2

(* 257 managers are one, 258 inserters two; "2" does not switch on.             *)
Value(name, set) ==
  CASE name \in DOMAIN set -> set[name]
    [] name = "traversal" -> "hilbert"
    [] name = "generator" -> "binary"
    [] name = "tile-distribution-strategy" -> "atomics"
    [] name \in {"path-to-edges-input", "path-to-edges-output"} -> "edges"
    [] name \in {"vertices-per-tile", "enable-edge-apis"} -> 1
    [] name = "meta-tile-manager-count" -> 257
    [] name = "edge-inserters-count" -> 258
    [] OTHER -> 2
Part(set) == [i \in 1 .. PerJob |->
  [name |-> Order[i], value |-> Value(Order[i], set)]]

First == Part("enable-in-memory-ingestion" :> 1 @@ "enable-writing-edges" :> 1)
Second == Part("enable-rewrite-ids" :> 1)

(* Two options change places; an option is missing; a job has one inserter.     *)
Moved == [Second EXCEPT ![18] = Second[19], ![19] = Second[18]]
Missing == [Second EXCEPT ![40].name = "unknown"]
Fewer == Part("edge-inserters-count" :> 1)

\* The first job sends at once.
Plain == Part("enable-writing-edges" :> 1)

Lines == {First \o second : second \in {Second, Moved, Missing, Fewer}}
           \union {Plain \o Fewer}
===============================================================================
