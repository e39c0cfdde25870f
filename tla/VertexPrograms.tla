---------------------------- MODULE VertexPrograms ----------------------------
(***************************************************************************)
(* The vertex programs of examples/: what each does with a vertex, an edge *)
(* and the vertex store.  A store is a record of the arrays of             *)
(* VertexStore::vertices_ a program works on:                              *)
(*   cur, nxt      current and next, a value per vertex                    *)
(*   act, actNext  active_current and active_next, the set bits            *)
(*   changed       the set bits of changed                                 *)
(*   busy          vertices whose apply has returned false                 *)
(*   first         GLOBAL_FIRST_ITERATION of PageRankDelta                 *)
(* Floating point values are integers: 1.0 is Unit, ALPHA is one half and  *)
(* FLT_MAX is Inf, which absorbs what is added to it.  EPSILON and the     *)
(* delta of the configuration are zero.                                    *)
(***************************************************************************)
EXTENDS Integers, FiniteSets

CONSTANTS
  V,          \* the vertices, 0 .. count_vertices - 1, whose bits share a byte
  Start,      \* algo_start_id
  Inf,        \* UINT32_MAX of the integer programs, FLT_MAX of the others
  Unit        \* 1.0 of the PageRank programs

ASSUME ProgramAssumption ==
  /\ V = 0 .. Cardinality(V) - 1 /\ Cardinality(V) <= 8 /\ Start \in V
  /\ Inf \in Nat /\ Cardinality(V) < Inf
  /\ Unit \in Nat /\ Unit % 64 = 0

Least(a, b) == IF a < b THEN a ELSE b
Greatest(a, b) == IF a < b THEN b ELSE a
\* Addition of distances in floating point: FLT_MAX + w = FLT_MAX.
Plus(u, w) == IF u = Inf THEN Inf ELSE u + w

\* What the executor does with the flags reset_vertices gives it.
SwapActive(s) == [s EXCEPT !.act = s.actNext, !.actNext = s.act]
SwapValues(s) == [s EXCEPT !.cur = s.nxt, !.nxt = s.cur]

(***************************************************************************)
(* cc.cc: every vertex takes the smallest id that reaches it.              *)
(***************************************************************************)
CCLocal == Inf
CCGather(u, v) == IF u # Inf /\ u < v THEN u ELSE v
CCReduce(lhs, rhs) == Least(lhs, rhs)
CCApply(s, i) ==
  IF s.nxt[i] = s.cur[i] THEN s
  ELSE [s EXCEPT !.cur[i] = s.nxt[i], !.actNext = @ \union {i}, !.busy = @ \union {i}]
CCTakes(s, src, tgt) == s.nxt[src] < s.nxt[tgt]
CCOffer(s, src) == s.nxt[src]
CCActiveApply(s, i) == i \in s.changed
CCEdgeActive(s, src) == src \in s.act
CCInit(s) == [s EXCEPT !.cur = [v \in V |-> v], !.nxt = [v \in V |-> v],
                       !.act = V, !.actNext = {}]
CCResetWithoutEdgeApi(s) == [s EXCEPT !.act = V]
CCReset(s) == [s EXCEPT !.act = {}]

(***************************************************************************)
(* bfs.cc: hops from Start.                                                *)
(***************************************************************************)
BFSLocal == Inf
BFSGather(u, v) == IF u # Inf /\ v > u + 1 THEN u + 1 ELSE v
BFSReduce(lhs, rhs) == Least(lhs, rhs)
BFSApply(s, i) == CCApply(s, i)
BFSTakes(s, src, tgt) == s.nxt[src] # Inf /\ s.nxt[src] + 1 < s.nxt[tgt]
BFSOffer(s, src) == s.nxt[src] + 1
BFSActiveApply(s, i) == i \in s.changed
BFSEdgeActive(s, src) == src \in s.act
BFSInit(s) ==
  LET hops == [v \in V |-> IF v = Start THEN 0 ELSE Inf]
  IN [s EXCEPT !.cur = hops, !.nxt = hops, !.act = {Start}, !.actNext = {}]
BFSResetWithoutEdgeApi(s) == [s EXCEPT !.act = V]
BFSReset(s) == [s EXCEPT !.act = {}]

(***************************************************************************)
(* sssp.cc: distances from Start.  The value of Start is never set, and    *)
(* the test for an unreached vertex compares with UINT32_MAX, which no     *)
(* distance is.                                                            *)
(***************************************************************************)
SSSPLocal == Inf
SSSPGather(u, v, w) == IF v > Plus(u, w) THEN Plus(u, w) ELSE v
SSSPReduce(lhs, rhs) == Least(lhs, rhs)
SSSPApply(s, i) == CCApply(s, i)
SSSPTakes(s, src, tgt, w) == s.nxt[tgt] - Plus(s.nxt[src], w) > 0
SSSPOffer(s, src, w) == Plus(s.nxt[src], w)
SSSPActiveApply(s, i) == TRUE
SSSPEdgeActive(s, src) == src \in s.act
SSSPInit(s) ==
  [s EXCEPT !.cur = [v \in V |-> Inf], !.nxt = [v \in V |-> Inf],
            !.act = {Start}, !.actNext = {}]
SSSPResetWithoutEdgeApi(s) == [s EXCEPT !.act = V]
SSSPReset(s) == [s EXCEPT !.act = {}]

(***************************************************************************)
(* sswp.cc: widths of the widest paths from Start; 0 is unreached.         *)
(***************************************************************************)
SSWPLocal == 0
SSWPGather(u, v, w) == IF u # 0 THEN Greatest(v, Least(u, w)) ELSE v
SSWPReduce(lhs, rhs) == Greatest(lhs, rhs)
SSWPApply(s, i) == CCApply(s, i)
SSWPTakes(s, src, tgt, w) == s.nxt[src] # 0 /\ Least(s.nxt[src], w) > s.nxt[tgt]
SSWPOffer(s, src, w) == Least(s.nxt[src], w)
SSWPActiveApply(s, i) == TRUE
SSWPEdgeActive(s, src) == src \in s.act
SSWPInit(s) ==
  [s EXCEPT !.cur = [v \in V |-> 0], !.nxt = [v \in V |-> 0], !.act = {}, !.actNext = {}]
SSWPSetStart(s) ==
  [s EXCEPT !.cur[Start] = Inf, !.nxt[Start] = Inf, !.act = @ \union {Start}]
SSWPResetWithoutEdgeApi(s) == [s EXCEPT !.act = V]
SSWPReset(s) == [s EXCEPT !.act = {}]

(***************************************************************************)
(* cc-async.cc and bfs-async.cc: sources are read from next, a reduction   *)
(* that lowers a value first marks the vertex active, in the byte as it    *)
(* was read, and nothing is applied.                                       *)
(***************************************************************************)
\* reduceVertex takes the value from the tile.
AsyncLowers(s, v, lhs) == lhs < s.nxt[v]

CCAsyncLocal == Inf
CCAsyncGather(u, v) == IF u # Inf /\ u < v THEN u ELSE v
CCAsyncReduce(s, v, lhs, byte) ==
  [s EXCEPT !.nxt[v] = Least(lhs, @), !.actNext = byte \union {v}]
CCAsyncTakes(s, src, tgt) == s.nxt[src] < s.nxt[tgt]
CCAsyncOffer(s, src) == s.nxt[src]
CCAsyncEdgeActive(s, src) == src \in s.act
CCAsyncInit(s) == CCInit(s)
CCAsyncResetWithoutEdgeApi(s) == [s EXCEPT !.actNext = V]
CCAsyncReset(s) == [s EXCEPT !.act = {}]

BFSAsyncLocal == Inf
BFSAsyncGather(u, v) == IF u # Inf /\ v > u + 1 THEN u + 1 ELSE v
BFSAsyncReduce(s, v, lhs, byte) ==
  [s EXCEPT !.nxt[v] = Least(lhs, @), !.actNext = byte \union {v}]
BFSAsyncTakes(s, src, tgt) == s.nxt[src] # Inf /\ s.nxt[src] + 1 < s.nxt[tgt]
BFSAsyncOffer(s, src) == s.nxt[src] + 1
BFSAsyncEdgeActive(s, src) == src \in s.act
BFSAsyncInit(s) ==
  [s EXCEPT !.cur = [v \in V |-> Inf], !.nxt = [v \in V |-> Inf], !.act = {}, !.actNext = {}]
BFSAsyncSetStart(s) ==
  [s EXCEPT !.cur[Start] = 0, !.nxt[Start] = 0, !.act = @ \union {Start}]
BFSAsyncResetWithoutEdgeApi(s) == [s EXCEPT !.actNext = V]
BFSAsyncReset(s) == [s EXCEPT !.act = {}]

(***************************************************************************)
(* pagerank.cc.                                                            *)
(***************************************************************************)
PRLocal == 0
PRGather(u, v, degree) == v + u \div degree
PRReduce(lhs, rhs) == lhs + rhs
PRApply(s, i) ==
  LET rank == Unit \div 2 + s.nxt[i] \div 2
      more == IF rank # s.cur[i] THEN {i} ELSE {}
  IN [s EXCEPT !.nxt[i] = rank, !.actNext = @ \union more, !.busy = @ \union more]
PREdgeChanged(s, src, tgt) == [s EXCEPT !.actNext = @ \union {src, tgt}]
PRActiveApply(s, i) == TRUE
PREdgeActive(s, src, tgt) == src \in s.act \/ tgt \in s.act
PRInit(s) == [s EXCEPT !.cur = [v \in V |-> Unit], !.nxt = [v \in V |-> 0],
                       !.act = V, !.actNext = V]
PRResetWithoutEdgeApi(s) == [s EXCEPT !.act = V]
PRResetKept(s) == [s EXCEPT !.act = {}]
PRReset(s) == [s EXCEPT !.cur = [v \in V |-> 0], !.act = {}]

(***************************************************************************)
(* pagerank-delta.cc: only what has changed of a rank is passed on.  A     *)
(* value is a record of rank, delta and sum (delta_sum).                   *)
(***************************************************************************)
PRDLocal == 0
PRDGather(u, v, degree) == v + u.delta \div degree
PRDReduce(lhs, rhs) == [rhs EXCEPT !.sum = lhs + @]
PRDUpdated(s, i) ==
  LET n == s.nxt[i]
  IN IF s.first
     THEN LET share == Unit \div 2 + n.sum \div 2
          IN [rank |-> n.rank + share, delta |-> share - Unit, sum |-> 0]
     ELSE [rank |-> n.rank + n.sum \div 2, delta |-> n.sum \div 2, sum |-> 0]
PRDApply(s, i) ==
  IF ~s.first /\ s.nxt[i].sum = 0
  THEN [s EXCEPT !.cur[i].delta = 0, !.nxt[i].delta = 0]
  ELSE LET new == PRDUpdated(s, i)
           more == IF new.delta # 0 THEN {i} ELSE {}
       IN [s EXCEPT !.cur[i].delta = new.delta, !.nxt[i] = new,
                    !.actNext = @ \union more, !.busy = @ \union more]
PRDEdgeChanged(s, src, tgt, degree) ==
  LET delta == s.nxt[src].rank \div degree
      more == IF delta > 0 THEN {src} ELSE {}
  IN [s EXCEPT !.nxt[tgt].sum = @ + delta,
               !.actNext = @ \union more, !.changed = @ \union more]
PRDActiveApply(s, i, adaptive) == s.first \/ ~adaptive \/ i \in s.changed
PRDEdgeActive(s, src) == src \in s.act
PRDFresh(s) ==
  LET fresh == [v \in V |-> [rank |-> 0, delta |-> Unit, sum |-> 0]]
  IN [s EXCEPT !.cur = fresh, !.nxt = fresh, !.first = TRUE]
PRDInit(s) == [PRDFresh(s) EXCEPT !.act = V, !.actNext = {}]
PRDResetWithoutEdgeApi(s) ==
  [s EXCEPT !.act = V, !.first = TRUE,
            !.cur = [v \in V |-> [@[v] EXCEPT !.delta = Unit]],
            !.nxt = [v \in V |-> [@[v] EXCEPT !.delta = Unit]]]
PRDReset(s) == [s EXCEPT !.first = FALSE, !.act = {}]
================================================================================
