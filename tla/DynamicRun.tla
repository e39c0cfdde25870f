------------------------------ MODULE DynamicRun ------------------------------
(***************************************************************************)
(* A vertex program over a graph that grows between runs.  The managers    *)
(* insert edges and call edgeChanged, each of its reads and writes a step  *)
(* of its own since nothing orders the managers; the inserter then starts  *)
(* a run of the algorithm: iterations of gather, apply and the verdict.    *)
(* How executors, apply threads and checkers share an iteration is the     *)
(* business of AlgorithmRound and VertexReduce.                            *)
(*                                                                         *)
(* A scenario, chosen at the start, is the program and the configuration:  *)
(*   algo      one of the programs of VertexPrograms                       *)
(*   adaptive  enable_adaptive_scheduling                                  *)
(*   api       enable_edge_apis                                            *)
(*   eager     runs after every batch, by the inserter; otherwise one run, *)
(*             by execute(), after everything is inserted                  *)
(*   delete    edges are deleted at random, and                            *)
(*             enable_algorithm_reexecution is set                         *)
(*   managers  the MetaTileManagers                                        *)
(*   executors the AlgorithmExecutors; which of them gathers what matters  *)
(*             to the asynchronous programs only                           *)
(***************************************************************************)
EXTENDS VertexPrograms, FiniteSetsExt, Functions, Sequences

CONSTANTS
  Edges,        \* the edges of the input, pairs <<source, target>>
  Weight,       \* [Edges -> Nat]
  Scenarios,
  Iterations,   \* algorithm_iterations
  Rounds        \* a bound: the batches that are inserted

ASSUME RunAssumption ==
  /\ Edges \subseteq V \X V /\ Weight \in [Edges -> Nat \ {0}]
  /\ Iterations \in Nat \ {0} /\ Rounds \in Nat \ {0}

VARIABLES
  sc,         \* the scenario, never changes
  s,          \* the vertex store
  inserted,   \* edges inserted so far; the out-degrees count these
  graph,      \* and of them the ones not deleted
  mgr,        \* per manager: pc, edge, the value it offers, the byte it has read
  phase,      \* "insert", "gather", "apply", "verdict" or "end"
  iteration,  \* current_iteration
  todo,       \* edges an asynchronous iteration has still to visit
  reducing,   \* per executor: the reduction of an asynchronous program it is in
  round,      \* batches
  converged   \* the last run has, and the graph has not changed since

vars == <<sc, s, inserted, graph, mgr, phase, iteration, todo, reducing, round, converged>>

Async(a) == a \in {"cc-async", "bfs-async"}
Ranks(a) == a \in {"pagerank", "pagerank-delta"}
UsesChanged(a) == a \in {"cc", "bfs", "pagerank-delta"}

(***************************************************************************)
(* The calls of the program.                                               *)
(***************************************************************************)
InitVertices(st) ==
  CASE sc.algo = "cc" -> CCInit(st)
    [] sc.algo = "bfs" -> BFSInit(st)
    [] sc.algo = "sssp" -> SSSPInit(st)
    [] sc.algo = "sswp" -> SSWPSetStart(SSWPInit(st))
    [] sc.algo = "cc-async" -> CCAsyncInit(st)
    [] sc.algo = "bfs-async" -> BFSAsyncSetStart(BFSAsyncInit(st))
    [] sc.algo = "pagerank" -> PRInit(st)
    [] sc.algo = "pagerank-delta" -> PRDInit(st)

ResetWithoutEdgeApi(st) ==
  CASE sc.algo = "cc" -> CCResetWithoutEdgeApi(st)
    [] sc.algo = "bfs" -> BFSResetWithoutEdgeApi(st)
    [] sc.algo = "sssp" -> SSSPResetWithoutEdgeApi(st)
    [] sc.algo = "sswp" -> SSWPResetWithoutEdgeApi(st)
    [] sc.algo = "cc-async" -> CCAsyncResetWithoutEdgeApi(st)
    [] sc.algo = "bfs-async" -> BFSAsyncResetWithoutEdgeApi(st)
    [] sc.algo = "pagerank" -> PRResetWithoutEdgeApi(st)
    [] sc.algo = "pagerank-delta" -> PRDResetWithoutEdgeApi(st)

ResetVertices(st) ==
  CASE sc.algo = "cc" -> CCReset(st)
    [] sc.algo = "bfs" -> BFSReset(st)
    [] sc.algo = "sssp" -> SSSPReset(st)
    [] sc.algo = "sswp" -> SSWPReset(st)
    [] sc.algo = "cc-async" -> CCAsyncReset(st)
    [] sc.algo = "bfs-async" -> BFSAsyncReset(st)
    [] sc.algo = "pagerank" -> PRReset(st)
    [] sc.algo = "pagerank-delta" -> PRDReset(st)

\* edgeChanged on an insertion: whether the target takes a value, and which.
Takes(st, e) ==
  LET src == e[1]  tgt == e[2]
  IN CASE sc.algo = "cc" -> CCTakes(st, src, tgt)
       [] sc.algo = "bfs" -> BFSTakes(st, src, tgt)
       [] sc.algo = "sssp" -> SSSPTakes(st, src, tgt, Weight[e])
       [] sc.algo = "sswp" -> SSWPTakes(st, src, tgt, Weight[e])
       [] sc.algo = "cc-async" -> CCAsyncTakes(st, src, tgt)
       [] sc.algo = "bfs-async" -> BFSAsyncTakes(st, src, tgt)
Offer(st, e) ==
  CASE sc.algo = "cc" -> CCOffer(st, e[1])
    [] sc.algo = "bfs" -> BFSOffer(st, e[1])
    [] sc.algo = "sssp" -> SSSPOffer(st, e[1], Weight[e])
    [] sc.algo = "sswp" -> SSWPOffer(st, e[1], Weight[e])
    [] sc.algo = "cc-async" -> CCAsyncOffer(st, e[1])
    [] sc.algo = "bfs-async" -> BFSAsyncOffer(st, e[1])
\* The label programs read the source again for every use, if the compiler
\* lets them; the others have read it once.
Offers(st, m) ==
  {m.offer} \union IF sc.algo \in {"cc", "cc-async"} THEN {Offer(st, m.edge)} ELSE {}

Degree(v, edges) == Cardinality({e \in edges : e[1] = v})

IsEdgeActive(e) ==
  CASE sc.algo = "cc" -> CCEdgeActive(s, e[1])
    [] sc.algo = "bfs" -> BFSEdgeActive(s, e[1])
    [] sc.algo = "sssp" -> SSSPEdgeActive(s, e[1])
    [] sc.algo = "sswp" -> SSWPEdgeActive(s, e[1])
    [] sc.algo = "cc-async" -> CCAsyncEdgeActive(s, e[1])
    [] sc.algo = "bfs-async" -> BFSAsyncEdgeActive(s, e[1])
    [] sc.algo = "pagerank" -> PREdgeActive(s, e[1], e[2])
    [] sc.algo = "pagerank-delta" -> PRDEdgeActive(s, e[1])

\* init_vertices_local: nothing gathered yet.
Local ==
  CASE sc.algo = "cc" -> CCLocal
    [] sc.algo = "bfs" -> BFSLocal
    [] sc.algo = "sssp" -> SSSPLocal
    [] sc.algo = "sswp" -> SSWPLocal
    [] sc.algo = "cc-async" -> CCAsyncLocal
    [] sc.algo = "bfs-async" -> BFSAsyncLocal
    [] sc.algo = "pagerank" -> PRLocal
    [] sc.algo = "pagerank-delta" -> PRDLocal

PullGather(e, v) ==
  LET u == IF Async(sc.algo) THEN s.nxt[e[1]] ELSE s.cur[e[1]]
  IN CASE sc.algo = "cc" -> CCGather(u, v)
       [] sc.algo = "bfs" -> BFSGather(u, v)
       [] sc.algo = "sssp" -> SSSPGather(u, v, Weight[e])
       [] sc.algo = "sswp" -> SSWPGather(u, v, Weight[e])
       [] sc.algo = "cc-async" -> CCAsyncGather(u, v)
       [] sc.algo = "bfs-async" -> BFSAsyncGather(u, v)
       [] sc.algo = "pagerank" -> PRGather(u, v, Degree(e[1], inserted))
       [] sc.algo = "pagerank-delta" -> PRDGather(u, v, Degree(e[1], inserted))

ReduceVertex(lhs, rhs) ==
  CASE sc.algo = "cc" -> CCReduce(lhs, rhs)
    [] sc.algo = "bfs" -> BFSReduce(lhs, rhs)
    [] sc.algo = "sssp" -> SSSPReduce(lhs, rhs)
    [] sc.algo = "sswp" -> SSWPReduce(lhs, rhs)
    [] sc.algo = "pagerank" -> PRReduce(lhs, rhs)
    [] sc.algo = "pagerank-delta" -> PRDReduce(lhs, rhs)

IsVertexActiveApply(v) ==
  CASE sc.algo = "cc" -> CCActiveApply(s, v)
    [] sc.algo = "bfs" -> BFSActiveApply(s, v)
    [] sc.algo = "sssp" -> SSSPActiveApply(s, v)
    [] sc.algo = "sswp" -> SSWPActiveApply(s, v)
    [] sc.algo = "pagerank" -> PRActiveApply(s, v)
    [] sc.algo = "pagerank-delta" -> PRDActiveApply(s, v, sc.adaptive)

ApplyVertex(st, v) ==
  CASE sc.algo = "cc" -> CCApply(st, v)
    [] sc.algo = "bfs" -> BFSApply(st, v)
    [] sc.algo = "sssp" -> SSSPApply(st, v)
    [] sc.algo = "sswp" -> SSWPApply(st, v)
    [] sc.algo = "pagerank" -> PRApply(st, v)
    [] sc.algo = "pagerank-delta" -> PRDApply(st, v)

(***************************************************************************)
(* Insertion.                                                              *)
(***************************************************************************)
Empty == [cur |-> <<>>, nxt |-> <<>>, act |-> {}, actNext |-> {},
          changed |-> {}, busy |-> {}, first |-> TRUE]
Free == [m \in sc.managers |-> [pc |-> "free"]]
Idle == [to |-> {}]

Init ==
  /\ sc \in Scenarios
  /\ s = InitVertices(Empty)
  /\ inserted = {} /\ graph = {} /\ mgr = Free
  /\ phase = "insert" /\ iteration = 0 /\ todo = {} /\ round = 1 /\ converged = FALSE
  /\ reducing = [x \in sc.executors |-> Idle]

\* A manager inserts an edge and calls edgeChanged, up to its comparison.
Insert(m) ==
  /\ phase = "insert" /\ mgr[m].pc = "free"
  /\ \E e \in Edges \ inserted :
       /\ inserted' = inserted \union {e} /\ graph' = graph \union {e}
       /\ IF sc.api /\ Ranks(sc.algo)
          THEN s' = IF sc.algo = "pagerank" THEN PREdgeChanged(s, e[1], e[2])
                    ELSE PRDEdgeChanged(s, e[1], e[2], Degree(e[1], inserted'))
          ELSE s' = s
       /\ mgr' = [mgr EXCEPT ![m] =
                    IF sc.api /\ ~Ranks(sc.algo) /\ Takes(s, e)
                    THEN [pc |-> "next", edge |-> e, offer |-> Offer(s, e)]
                    ELSE [pc |-> "free"]]
  /\ converged' = FALSE
  /\ UNCHANGED <<sc, phase, iteration, todo, reducing, round>>

\* The manager's part of the batch is over.
BatchEnd(m) ==
  /\ phase = "insert" /\ mgr[m].pc = "free"
  /\ mgr' = [mgr EXCEPT ![m] = [pc |-> IF sc.delete THEN "delete" ELSE "done"]]
  /\ UNCHANGED <<sc, s, inserted, graph, phase, iteration, todo, reducing, round, converged>>

\* The rest of edgeChanged: next, current, and the two bits, of which only
\* changed is set atomically.
WriteNext(m) ==
  /\ mgr[m].pc = "next"
  /\ \E value \in Offers(s, mgr[m]) : s' = [s EXCEPT !.nxt[mgr[m].edge[2]] = value]
  /\ mgr' = [mgr EXCEPT ![m].pc = "current"]
  /\ UNCHANGED <<sc, inserted, graph, phase, iteration, todo, reducing, round, converged>>

WriteCurrent(m) ==
  /\ mgr[m].pc = "current"
  /\ \E value \in Offers(s, mgr[m]) : s' = [s EXCEPT !.cur[mgr[m].edge[2]] = value]
  /\ mgr' = [mgr EXCEPT ![m].pc = "read"]
  /\ UNCHANGED <<sc, inserted, graph, phase, iteration, todo, reducing, round, converged>>

\* The array edgeChanged marks the target in.
MarkedArray == IF sc.algo = "cc-async" THEN "actNext" ELSE "act"

ReadByte(m) ==
  /\ mgr[m].pc = "read"
  /\ mgr' = [mgr EXCEPT ![m] = [pc |-> "mark", edge |-> @.edge, byte |-> s[MarkedArray]]]
  /\ UNCHANGED <<sc, s, inserted, graph, phase, iteration, todo, reducing, round, converged>>

MarkTarget(m) ==
  LET tgt == mgr[m].edge[2]
  IN /\ mgr[m].pc = "mark"
     /\ s' = [s EXCEPT ![MarkedArray] = mgr[m].byte \union {tgt},
                       !.changed = @ \union IF UsesChanged(sc.algo) THEN {tgt} ELSE {}]
     /\ mgr' = [mgr EXCEPT ![m] = [pc |-> "free"]]
     /\ UNCHANGED <<sc, inserted, graph, phase, iteration, todo, reducing, round, converged>>

\* One edge is drawn, unless the tile that is drawn is empty; it may have been
\* deleted before.  The degrees stay.
Delete(m) ==
  /\ mgr[m].pc = "delete"
  /\ \E drawn \in {{}} \union {{e} : e \in inserted} : graph' = graph \ drawn
  /\ mgr' = [mgr EXCEPT ![m] = [pc |-> "done"]]
  /\ converged' = FALSE
  /\ UNCHANGED <<sc, s, inserted, phase, iteration, todo, reducing, round>>

Prepared ==
  LET swapped == SwapActive(s)
      fresh == IF sc.delete THEN InitVertices(swapped) ELSE swapped
  IN IF sc.api THEN fresh ELSE ResetWithoutEdgeApi(fresh)

BeginIteration(i) == phase' = "gather" /\ iteration' = i /\ todo' = graph

StartRun ==
  /\ phase = "insert" /\ \A m \in sc.managers : mgr[m].pc = "done"
  /\ s' = [(IF sc.eager THEN Prepared ELSE s) EXCEPT !.busy = {}]
  /\ converged' = FALSE
  /\ BeginIteration(0)
  /\ UNCHANGED <<sc, inserted, graph, mgr, reducing, round>>

\* What the executors have gathered for a target when they reduce it.
Visited == {e \in graph : sc.adaptive => IsEdgeActive(e)}
Gathered(v) == FoldSet(PullGather, Local, {e \in Visited : e[2] = v})

Gather ==
  LET targets == {v \in V : Gathered(v) # Local}
      reduced == [v \in V |-> IF v \in targets THEN ReduceVertex(Gathered(v), s.nxt[v])
                              ELSE s.nxt[v]]
      new == {v \in targets : reduced[v] # s.nxt[v]}
  IN /\ phase = "gather" /\ ~Async(sc.algo)
     /\ s' = [s EXCEPT !.nxt = reduced,
                       !.changed = @ \union IF UsesChanged(sc.algo) THEN new ELSE {}]
     /\ phase' = "apply" /\ todo' = {}
     /\ UNCHANGED <<sc, inserted, graph, mgr, iteration, reducing, round, converged>>

\* An asynchronous program sees what was reduced before: every order counts.
\* reduceVertex marks a target whose value it lowers before the value is
\* swapped in, with a plain |= : the byte is read here and written later.
GatherAsync(x) ==
  /\ phase = "gather" /\ Async(sc.algo) /\ reducing[x] = Idle
  /\ \E e \in todo :
       LET v == PullGather(e, Local)
       IN /\ todo' = todo \ {e}
          /\ reducing' =
               IF (sc.adaptive => IsEdgeActive(e)) /\ v # Local /\ AsyncLowers(s, e[2], v)
               THEN [reducing EXCEPT ![x] = [to |-> {e[2]}, value |-> v, byte |-> s.actNext]]
               ELSE reducing
  /\ UNCHANGED <<sc, s, inserted, graph, mgr, phase, iteration, round, converged>>

\* The byte is written back and the value swapped in, unless it is lower by now.
ReduceAsync(x) ==
  /\ reducing[x] # Idle
  /\ \E tgt \in reducing[x].to :
       s' = IF sc.algo = "cc-async"
            THEN CCAsyncReduce(s, tgt, reducing[x].value, reducing[x].byte)
            ELSE BFSAsyncReduce(s, tgt, reducing[x].value, reducing[x].byte)
  /\ reducing' = [reducing EXCEPT ![x] = Idle]
  /\ UNCHANGED <<sc, inserted, graph, mgr, phase, iteration, todo, round, converged>>

GatheredAsync ==
  /\ phase = "gather" /\ Async(sc.algo) /\ todo = {} /\ \A x \in sc.executors : reducing[x] = Idle
  /\ phase' = "verdict"
  /\ UNCHANGED <<sc, s, inserted, graph, mgr, iteration, todo, reducing, round, converged>>

Apply ==
  /\ phase = "apply"
  /\ s' = LET One(v, st) == ApplyVertex(st, v)
          IN FoldSet(One, s, {v \in V : UsesChanged(sc.algo) => IsVertexActiveApply(v)})
  /\ phase' = "verdict"
  /\ UNCHANGED <<sc, inserted, graph, mgr, iteration, todo, reducing, round, converged>>

Converged == IF Async(sc.algo) THEN s.actNext = {} ELSE s.busy = {}

EndRun ==
  /\ phase' = IF sc.eager /\ round < Rounds THEN "insert" ELSE "end"
  /\ round' = IF sc.eager /\ round < Rounds THEN round + 1 ELSE round
  /\ mgr' = Free

\* Convergence ends the run before anything is reset.
Stop ==
  /\ phase = "verdict" /\ Converged
  /\ converged' = TRUE /\ EndRun
  /\ UNCHANGED <<sc, s, inserted, graph, iteration, todo, reducing>>

\* reset_vertices leaves both flags set for PageRank only; the arrays stay
\* where they are after the last iteration.
NextIteration ==
  LET last == iteration = Iterations - 1
      cleared == [ResetVertices(s) EXCEPT !.busy = {}]
      active == IF last THEN cleared ELSE SwapActive(cleared)
      values == IF last \/ sc.algo # "pagerank" THEN active ELSE SwapValues(active)
  IN /\ phase = "verdict" /\ ~Converged
     /\ s' = IF UsesChanged(sc.algo) THEN [values EXCEPT !.changed = {}] ELSE values
     /\ IF last THEN EndRun /\ UNCHANGED <<iteration, todo>>
        ELSE BeginIteration(iteration + 1) /\ UNCHANGED <<mgr, round>>
     /\ UNCHANGED <<sc, inserted, graph, reducing, converged>>

End == phase = "end" /\ UNCHANGED vars

Next ==
  \/ \E m \in sc.managers :
       \/ Insert(m) \/ BatchEnd(m) \/ WriteNext(m) \/ WriteCurrent(m)
       \/ ReadByte(m) \/ MarkTarget(m) \/ Delete(m)
  \/ \E x \in sc.executors : GatherAsync(x) \/ ReduceAsync(x)
  \/ StartRun \/ Gather \/ GatheredAsync \/ Apply \/ Stop \/ NextIteration \/ End

Spec == Init /\ [][Next]_vars

\* The value a simple path brings to its last vertex.
Paths == {p \in UNION {[1 .. n -> V] : n \in 1 .. Cardinality(V)} : IsInjective(p)}
PathsIn(g) == {p \in Paths : \A i \in 1 .. Len(p) - 1 : <<p[i], p[i + 1]>> \in g}
Hops(p) == {<<p[i], p[i + 1]>> : i \in 1 .. Len(p) - 1}
Brings(p) ==
  LET from == InitVertices(s).nxt[p[1]]
      weights == {Weight[e] : e \in Hops(p)}
  IN CASE sc.algo \in {"cc", "cc-async"} -> from
       [] sc.algo \in {"bfs", "bfs-async"} -> Plus(from, Cardinality(Hops(p)))
       [] sc.algo = "sssp" -> Plus(from, MapThenSumSet(LAMBDA e : Weight[e], Hops(p)))
       [] sc.algo = "sswp" -> Min({from} \union weights)
Best(v) ==
  LET brought == {Brings(p) : p \in {q \in PathsIn(graph) : q[Len(q)] = v}}
  IN IF sc.algo = "sswp" THEN Max(brought) ELSE Min(brought)

\* Configurations whose runs visit every edge that matters.  The others look
\* only at active sources, and a mark is lost: one of edgeChanged, put out of
\* sight by the exchange before the run or overwritten by another manager's
\* (cc starts with every vertex active and loses nothing by that), or one of
\* an asynchronous reduceVertex, overwritten by another executor's.
Complete ==
  \/ ~sc.adaptive
  \/ /\ Async(sc.algo) => Cardinality(sc.executors) = 1
     /\ \/ sc.delete \/ ~sc.api
        \/ /\ Async(sc.algo) \/ ~sc.eager
           /\ sc.algo \in {"cc", "cc-async"} \/ Cardinality(sc.managers) = 1


\* The ranks after k iterations from 1.0, by definition.
Powers ==
  LET P[k \in 0 .. Iterations] ==
        [v \in V |->
          IF k = 0 THEN Unit
          ELSE Unit \div 2 + MapThenSumSet(
                 LAMBDA e : P[k - 1][e[1]] \div Degree(e[1], inserted),
                 {e \in graph : e[2] = v}) \div 2]
  IN P

\* In the first run, and in later ones that start over (after deletions, with
\* enable_algorithm_reexecution), PageRank and PageRankDelta compute the same
\* ranks, iteration for iteration: passing on what has changed of a rank, and
\* only to targets of active sources, comes to the same as passing on the rank
\* (PageRank::apply, PageRankDelta::apply, reset_vertices and the exchange of
\* arrays).  Other later runs start from the ranks of the one before.
SameRanks ==
  /\ phase = "gather" /\ Ranks(sc.algo) /\ iteration > 0
  /\ round = 1 \/ sc.delete
  => IF sc.algo = "pagerank"
     THEN ~sc.adaptive => s.cur = Powers[iteration]
     ELSE (sc.adaptive => sc.delete \/ ~sc.eager \/ ~sc.api) =>
            [v \in V |-> s.nxt[v].rank] = Powers[iteration]

\* "If edge APIs are disabled, mark graph as active to enable processing of new
\* updates." (edge-inserter.h): the differences are set back to 1.0 for that, so
\* the next run of PageRankDelta computes the ranks of the new graph afresh.
RanksAfresh ==
  phase = "gather" /\ sc.algo = "pagerank-delta" /\ ~sc.api /\ iteration > 0 =>
    [v \in V |-> s.nxt[v].rank] = Powers[iteration]

\* "Switch active current and active next as the algorithms write onto next for
\* now." (edge-inserter.h): a run starts from the vertices edgeChanged marked.
MarksTaken ==
  sc.eager /\ sc.api /\ phase = "gather" /\ iteration = 0 => s.changed \subseteq s.act
================================================================================
