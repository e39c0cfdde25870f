---------------------------- MODULE MCVertexReduce ----------------------------
(* Two vertices that share a byte.  Two executors offer a value for v1 and one *)
(* for either vertex; or three executors offer one value for v1.  Among the    *)
(* offers are some of both signs.                                              *)
EXTENDS VertexReduce, TLC

CONSTANTS v1, v2, e1, e2, e3

\* The neighbor an offer comes from is named by the value it offers.
OfferOf(v, x) == [to |-> v, value |-> x, from |-> x]
Pairs == {<<OfferOf(v1, x), OfferOf(w, y)>> : w \in {v1, v2}, x, y \in {-1, 1, 2}}
Singles == {<<OfferOf(v1, x)>> : x \in {-1, 1, 2, 3}}
TwoExecutors == {g @@ e3 :> <<>> : g \in [{e1, e2} -> Pairs]}
ThreeExecutors == [{e1, e2, e3} -> Singles]
MCGivens == TwoExecutors \union ThreeExecutors
MCNeighbors == {-1, 1, 2, 3}
================================================================================
