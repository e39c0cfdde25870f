------------------------------ MODULE VertexProofs ------------------------------
(***************************************************************************)
(* Proofs about what becomes of a vertex in an iteration: VertexReduce,    *)
(* for any vertices, executors, offers and reduction, and VertexScan, for  *)
(* any threads, numbers of vertices and bits.                              *)
(*                                                                         *)
(* ChangedMarked is not inductive: while executors are at work, a vertex   *)
(* with a new value may be without its bit, but only as long as the        *)
(* executor that swapped the value in is on its way to set it; and that    *)
(* the swap of the byte loses no bit rests on the byte only ever growing   *)
(* between the two reads of it.                                            *)
(*                                                                         *)
(* The properties of VertexScan speak of a verdict; ScanInv says for every *)
(* vertex, at any time, what is known of it once its chunk was scanned.    *)
(***************************************************************************)
EXTENDS VertexReduce, VertexScan, FoldTheorems, TLAPS

Labels == {"read", "reduce", "critical", "swap", "leave",
           "readByte", "orByte", "swapByte"}

\* The part of the types the proof needs.
Shapes ==
  /\ given \in [Executors -> Seq(Offers)]
  /\ done \in [Executors -> Nat]
  /\ pc \in [Executors -> Labels]
  /\ moved \in [Executors -> BOOLEAN]
  /\ next \in [Vertices -> Int]
  /\ old \in [Executors -> Int] /\ new \in [Executors -> Int]
  /\ oldByte \in [Executors -> SUBSET Vertices]
  /\ newByte \in [Executors -> SUBSET Vertices]
  /\ changed \in SUBSET Vertices

\* Whoever is inside the loop has an offer; nobody is past its last one.
HasOffer(e) ==
  /\ done[e] <= Len(given[e])
  /\ pc[e] # "read" => done[e] < Len(given[e])

\* Executor e will still set the bit of the vertex it is working for.
WillMark(e) ==
  \/ pc[e] = "leave" /\ moved[e]
  \/ pc[e] \in {"readByte", "orByte", "swapByte"}

\* What e has read of the byte is still set; the swap adds the vertex to it.
BytesGrow(e) ==
  /\ pc[e] \in {"orByte", "swapByte"} => oldByte[e] \subseteq changed
  /\ pc[e] = "swapByte" => /\ oldByte[e] \subseteq newByte[e]
                           /\ Offer(e).to \in newByte[e]

MarkedOrPending(v) ==
  next[v] # Initial =>
    \/ v \in changed
    \/ \E e \in Executors : WillMark(e) /\ Offer(e).to = v

IInv ==
  /\ Shapes
  /\ \A e \in Executors : HasOffer(e) /\ BytesGrow(e)
  /\ UseChanged => \A v \in Vertices : MarkedOrPending(v)
-------------------------------------------------------------------------------
(* What the steps of one executor have in common.                          *)

\* Nothing of another executor changes, and no bit is cleared.
Alone(e) ==
  /\ given' = given /\ changed \subseteq changed'
  /\ \A q \in Executors \ {e} :
       /\ pc'[q] = pc[q] /\ done'[q] = done[q] /\ moved'[q] = moved[q]
       /\ oldByte'[q] = oldByte[q] /\ newByte'[q] = newByte[q]

\* Whose value it changes it will mark, and it keeps to that until it has.
KeepsToIt(e) ==
  /\ \A v \in Vertices : next'[v] # next[v] => WillMark(e)' /\ Offer(e)'.to = v
  /\ UseChanged /\ WillMark(e) =>
       \/ WillMark(e)' /\ Offer(e)' = Offer(e)
       \/ Offer(e).to \in changed'

Good(e) ==
  Shapes' /\ Alone(e) /\ HasOffer(e)' /\ BytesGrow(e)' /\ KeepsToIt(e)

LEMMA InitHolds == Init => IInv
<1> SUFFICES ASSUME Init PROVE IInv
    OBVIOUS
<1>1. Initial \in Int /\ given \in [Executors -> Seq(Offers)]
  BY OffersAssumption DEF Init
<1>2. Shapes
  BY <1>1 DEF Init, Shapes, Labels
<1>3. \A e \in Executors : HasOffer(e)
  BY <1>1 DEF Init, HasOffer
<1>4. \A e \in Executors : BytesGrow(e)
  BY DEF Init, BytesGrow
<1>5. \A v \in Vertices : MarkedOrPending(v)
  BY DEF Init, MarkedOrPending
<1> QED
  BY <1>2, <1>3, <1>4, <1>5 DEF IInv

(* An offer in hand is one of the executor's offers.                       *)
LEMMA OfferInHand ==
  ASSUME Shapes, NEW e \in Executors, done[e] < Len(given[e])
  PROVE  /\ Offer(e) \in Offers
         /\ Offer(e).to \in Vertices /\ Offer(e).value \in Int
<1>1. given[e] \in Seq(Offers) /\ done[e] \in Nat
  BY DEF Shapes
<1>2. done[e] + 1 \in 1 .. Len(given[e])
  BY <1>1
<1>3. Offer(e) \in Offers
  BY <1>1, <1>2 DEF Offer
<1> QED
  BY <1>3 DEF Offers

(* An offer more keeps the counts numbers.                                 *)
LEMMA CountedOn ==
  ASSUME NEW S, NEW f \in [S -> Nat], NEW e \in S
  PROVE  [f EXCEPT ![e] = @ + 1] \in [S -> Nat]
OBVIOUS

LEMMA ReadGood ==
  ASSUME IInv, NEW e \in Executors, Read(e)
  PROVE  Good(e)
<1> USE DEF IInv, Read, Goto, memory, input, flagVars
<1>1. Offer(e).to \in Vertices
  BY OfferInHand
<1>2. Shapes'
  BY <1>1 DEF Shapes, Labels
<1>3. Alone(e)
  BY DEF Alone, Shapes
<1>4. HasOffer(e)' /\ BytesGrow(e)'
  BY DEF Shapes, HasOffer, BytesGrow
<1>5. KeepsToIt(e)
  BY DEF Shapes, KeepsToIt, WillMark
<1> QED
  BY <1>2, <1>3, <1>4, <1>5 DEF Good

LEMMA ReduceGood ==
  ASSUME IInv, NEW e \in Executors, Reduce(e)
  PROVE  Good(e)
<1> USE DEF IInv, Reduce, Goto, memory, input, flagVars
<1>1. done[e] < Len(given[e])
  BY DEF HasOffer
<1>2. Offer(e).to \in Vertices /\ Offer(e).value \in Int
  BY <1>1, OfferInHand
<1>3. Reduced(Offer(e).value, next[Offer(e).to]) \in Int
  BY <1>2 DEF Reduced, Better, Shapes
<1>4. Shapes'
  BY <1>3 DEF Shapes, Labels
<1>5. Alone(e)
  BY DEF Alone, Shapes
<1>6. HasOffer(e)' /\ BytesGrow(e)'
  BY DEF Shapes, HasOffer, BytesGrow
<1>7. KeepsToIt(e)
  BY DEF Shapes, KeepsToIt, WillMark
<1> QED
  BY <1>4, <1>5, <1>6, <1>7 DEF Good

LEMMA SetCriticalGood ==
  ASSUME IInv, NEW e \in Executors, SetCritical(e)
  PROVE  Good(e)
<1> USE DEF IInv, SetCritical, Goto, memory, input, flagVars
<1>1. Shapes'
  BY DEF Shapes, Labels
<1>2. Alone(e)
  BY DEF Alone, Shapes
<1>3. HasOffer(e)' /\ BytesGrow(e)'
  BY DEF Shapes, HasOffer, BytesGrow
<1>4. KeepsToIt(e)
  BY DEF Shapes, KeepsToIt, WillMark
<1> QED
  BY <1>1, <1>2, <1>3, <1>4 DEF Good

(* A swap that succeeds leaves the executor bound to mark the vertex.      *)
LEMMA SwapGood ==
  ASSUME IInv, NEW e \in Executors, Swap(e)
  PROVE  Good(e)
<1> USE DEF IInv, Swap, SwapIf, Goto, memory, input, flagVars
<1>1. done[e] < Len(given[e])
  BY DEF HasOffer
<1>2. Offer(e).to \in Vertices
  BY <1>1, OfferInHand
<1>3. Shapes'
  BY <1>2, ZenonT(30) DEF Shapes, Labels
<1>4. Alone(e)
  BY DEF Alone, Shapes
<1>5. HasOffer(e)' /\ BytesGrow(e)'
  BY DEF Shapes, HasOffer, BytesGrow
<1>6. KeepsToIt(e)
  <2>1. ASSUME NEW v \in Vertices, next'[v] # next[v]
        PROVE  WillMark(e)' /\ Offer(e)'.to = v
    BY <2>1, <1>2 DEF Shapes, WillMark, Offer
  <2>2. ~WillMark(e)
    BY DEF WillMark
  <2> QED
    BY <2>1, <2>2 DEF KeepsToIt
<1> QED
  BY <1>3, <1>4, <1>5, <1>6 DEF Good

LEMMA NothingToSwapGood ==
  ASSUME IInv, NEW e \in Executors, NothingToSwap(e)
  PROVE  Good(e)
<1> USE DEF IInv, NothingToSwap, Goto, memory, input, flagVars
<1>1. Shapes'
  BY DEF Shapes, Labels
<1>2. Alone(e)
  BY DEF Alone, Shapes
<1>3. HasOffer(e)' /\ BytesGrow(e)'
  BY DEF Shapes, HasOffer, BytesGrow
<1>4. KeepsToIt(e)
  BY DEF Shapes, KeepsToIt, WillMark
<1> QED
  BY <1>1, <1>2, <1>3, <1>4 DEF Good

LEMMA LeaveGood ==
  ASSUME IInv, NEW e \in Executors, Leave(e)
  PROVE  Good(e)
<1> USE DEF IInv, Leave, Finish, Goto, memory, input, flagVars
<1>1. done[e] < Len(given[e]) /\ done[e] \in Nat /\ Len(given[e]) \in Nat
  BY DEF HasOffer, Shapes
<1>2. Shapes'
  <2>1. moved' \in [Executors -> BOOLEAN]
    BY Zenon DEF Shapes
  <2>2. done' \in [Executors -> Nat] /\ pc' \in [Executors -> Labels]
    <3>0. done \in [Executors -> Nat] /\ pc \in [Executors -> Labels]
      BY DEF Shapes
    <3>1. CASE UseChanged /\ moved[e]
      <4>1. done' = done /\ pc' = [pc EXCEPT ![e] = "readByte"]
        BY <3>1
      <4> QED
        BY <4>1, <3>0 DEF Labels
    <3>2. CASE ~(UseChanged /\ moved[e])
      <4>1. /\ done' = [done EXCEPT ![e] = @ + 1]
            /\ pc' = [pc EXCEPT ![e] = "read"]
        BY <3>2
      <4> HIDE DEF IInv, Leave
      <4>2. done' \in [Executors -> Nat]
        BY <4>1, <3>0, CountedOn
      <4>3. pc' \in [Executors -> Labels]
        BY <4>1, <3>0 DEF Labels
      <4> QED
        BY <4>2, <4>3
    <3> QED
      BY <3>1, <3>2
  <2>3. UNCHANGED <<given, next, old, new, oldByte, newByte, changed>>
    OBVIOUS
  <2> QED
    BY <2>1, <2>2, <2>3 DEF Shapes
<1>3. Alone(e)
  BY DEF Alone, Shapes
<1>4. HasOffer(e)'
  BY <1>1 DEF Shapes, HasOffer
<1>5. BytesGrow(e)'
  BY DEF Shapes, BytesGrow
<1>6. KeepsToIt(e)
  BY DEF Shapes, KeepsToIt, WillMark, Offer
<1> QED
  BY <1>2, <1>3, <1>4, <1>5, <1>6 DEF Good

LEMMA ReadByteGood ==
  ASSUME IInv, NEW e \in Executors, ReadByte(e)
  PROVE  Good(e)
<1> USE DEF IInv, ReadByte, Goto, memory, input, flagVars
<1>1. Shapes'
  BY DEF Shapes, Labels
<1>2. Alone(e)
  BY DEF Alone, Shapes
<1>3. HasOffer(e)' /\ BytesGrow(e)'
  BY DEF Shapes, HasOffer, BytesGrow
<1>4. KeepsToIt(e)
  BY DEF Shapes, KeepsToIt, WillMark, Offer
<1> QED
  BY <1>1, <1>2, <1>3, <1>4 DEF Good

(* The second read finds at least the bits of the first.                   *)
LEMMA OrByteGood ==
  ASSUME IInv, NEW e \in Executors, OrByte(e)
  PROVE  Good(e)
<1> USE DEF IInv, OrByte, Goto, memory, input, flagVars
<1>1. done[e] < Len(given[e])
  BY DEF HasOffer
<1>2. Offer(e).to \in Vertices
  BY <1>1, OfferInHand
<1>3. Shapes'
  BY <1>2 DEF Shapes, Labels
<1>4. Alone(e)
  BY DEF Alone, Shapes
<1>5. HasOffer(e)'
  BY DEF Shapes, HasOffer
<1>6. BytesGrow(e)'
  <2>1. newByte'[e] = changed \union {Offer(e).to}
    BY DEF Shapes
  <2>2. oldByte[e] \subseteq changed
    BY DEF BytesGrow
  <2>3. Offer(e)' = Offer(e)
    BY DEF Offer
  <2> QED
    BY <2>1, <2>2, <2>3 DEF BytesGrow
<1>7. KeepsToIt(e)
  BY DEF Shapes, KeepsToIt, WillMark, Offer
<1> QED
  BY <1>3, <1>4, <1>5, <1>6, <1>7 DEF Good

(* The bit is set by the swap, or was set already when it is left out.     *)
LEMMA SwapByteGood ==
  ASSUME IInv, NEW e \in Executors, SwapByte(e)
  PROVE  Good(e)
<1> USE DEF IInv, SwapByte, SwapByteIf, Finish, Goto, memory, input, flagVars
<1>1. /\ done[e] < Len(given[e])
      /\ done[e] \in Nat /\ Len(given[e]) \in Nat
  BY DEF HasOffer, Shapes
<1>2. /\ oldByte[e] \subseteq changed /\ oldByte[e] \subseteq newByte[e]
      /\ Offer(e).to \in newByte[e]
  BY DEF BytesGrow
<1>3. Shapes'
  <2>1. done' \in [Executors -> Nat]
    <3>1. done' = done \/ done' = [done EXCEPT ![e] = @ + 1]
      OBVIOUS
    <3>2. done \in [Executors -> Nat]
      BY DEF Shapes
    <3> HIDE DEF IInv, SwapByte
    <3> QED
      BY <3>1, <3>2, CountedOn
  <2>2. pc' \in [Executors -> Labels]
    BY DEF Shapes, Labels
  <2>3. changed' \in SUBSET Vertices
    BY DEF Shapes
  <2>4. UNCHANGED <<given, next, old, new, moved, oldByte, newByte>>
    OBVIOUS
  <2> QED
    BY <2>1, <2>2, <2>3, <2>4 DEF Shapes
<1>4. Alone(e)
  <2>1. changed \subseteq changed'
    BY <1>2
  <2> QED
    BY <2>1 DEF Alone, Shapes
<1>5. HasOffer(e)'
  BY <1>1 DEF Shapes, HasOffer
<1>6. BytesGrow(e)'
  BY DEF Shapes, BytesGrow
<1>7. KeepsToIt(e)
  <2>1. next' = next
    OBVIOUS
  <2>2. CASE pc'[e] = "readByte"
    <3>1. done' = done /\ given' = given
      BY <2>2 DEF Shapes
    <3> QED
      BY <2>1, <2>2, <3>1 DEF KeepsToIt, WillMark, Offer
  <2>3. CASE pc'[e] # "readByte"
    <3>1. newByte[e] \subseteq changed'
      BY <2>3, <1>2 DEF Shapes
    <3> QED
      BY <2>1, <3>1, <1>2 DEF KeepsToIt
  <2> QED
    BY <2>2, <2>3
<1> QED
  BY <1>3, <1>4, <1>5, <1>6, <1>7 DEF Good

(* A step of one executor is good, and leaves the others what they know.   *)
LEMMA StepGood ==
  ASSUME IInv, NEW e \in Executors, Step(e)
  PROVE  Good(e)
BY ReadGood, ReduceGood, SetCriticalGood, SwapGood, NothingToSwapGood, LeaveGood,
   ReadByteGood, OrByteGood, SwapByteGood DEF Step

LEMMA GoodKeeps ==
  ASSUME IInv, NEW e \in Executors, Good(e)
  PROVE  IInv'
<1> USE DEF Good
<1>1. ASSUME NEW q \in Executors, q # e
      PROVE  /\ HasOffer(q)' /\ BytesGrow(q)' /\ Offer(q)' = Offer(q)
             /\ WillMark(q) => WillMark(q)'
  <2>1. /\ pc'[q] = pc[q] /\ done'[q] = done[q] /\ moved'[q] = moved[q]
        /\ oldByte'[q] = oldByte[q] /\ newByte'[q] = newByte[q]
        /\ given' = given /\ changed \subseteq changed'
    BY <1>1 DEF Alone
  <2>2. HasOffer(q) /\ BytesGrow(q)
    BY DEF IInv
  <2>3. Offer(q)' = Offer(q)
    BY <2>1 DEF Offer
  <2>4. HasOffer(q)' /\ BytesGrow(q)'
    BY <2>1, <2>2, <2>3 DEF HasOffer, BytesGrow
  <2>5. WillMark(q) => WillMark(q)'
    BY <2>1 DEF WillMark
  <2> QED
    BY <2>3, <2>4, <2>5
<1>2. ASSUME UseChanged, NEW v \in Vertices, next'[v] # Initial
      PROVE  \/ v \in changed'
             \/ \E q \in Executors : WillMark(q)' /\ Offer(q)'.to = v
  <2>1. CASE next'[v] # next[v]
    BY <2>1 DEF KeepsToIt
  <2>2. CASE next'[v] = next[v]
    <3>1. \/ v \in changed
          \/ \E q \in Executors : WillMark(q) /\ Offer(q).to = v
      BY <1>2, <2>2 DEF IInv, MarkedOrPending
    <3>2. CASE v \in changed
      BY <3>2 DEF Alone
    <3>3. ASSUME NEW q \in Executors, WillMark(q), Offer(q).to = v
          PROVE  \/ v \in changed'
                 \/ WillMark(q)' /\ Offer(q)'.to = v
      <4>1. CASE q = e
        BY <3>3, <4>1, <1>2 DEF KeepsToIt
      <4>2. CASE q # e
        BY <3>3, <4>2, <1>1
      <4> QED
        BY <4>1, <4>2
    <3> QED
      BY <3>1, <3>2, <3>3
  <2> QED
    BY <2>1, <2>2
<1>3. UseChanged => \A v \in Vertices : MarkedOrPending(v)'
  BY <1>2 DEF MarkedOrPending
<1>4. \A q \in Executors : HasOffer(q)' /\ BytesGrow(q)'
  BY <1>1
<1> QED
  BY <1>3, <1>4 DEF IInv

LEMMA StutterKeeps == IInv /\ UNCHANGED vars => IInv'
<1> SUFFICES ASSUME IInv, UNCHANGED vars PROVE IInv'
    OBVIOUS
<1> USE DEF vars, memory, input, flagVars
<1>1. Shapes'
  BY DEF IInv, Shapes
<1>2. \A e \in Executors : HasOffer(e)' /\ BytesGrow(e)'
  BY DEF IInv, HasOffer, BytesGrow, Offer
<1>3. UseChanged => \A v \in Vertices : MarkedOrPending(v)'
  BY DEF IInv, MarkedOrPending, WillMark, Offer
<1> QED
  BY <1>1, <1>2, <1>3 DEF IInv

(***************************************************************************)
(* The invariant of applyTiles and set_bool_array_atomically: a vertex     *)
(* whose value differs from the initial one has its bit, or an executor is *)
(* between the swap of the value and the swap of the byte.                 *)
(***************************************************************************)
THEOREM Invariant == Spec => []IInv
<1>1. ASSUME IInv, [Next]_vars PROVE IInv'
  <2>1. ASSUME NEW e \in Executors, Step(e) PROVE IInv'
    BY <1>1, <2>1, StepGood, GoodKeeps
  <2>2. CASE UNCHANGED vars
    BY <1>1, <2>2, StutterKeeps
  <2>3. CASE Done
    BY <2>3, <2>2 DEF Done
  <2> QED
    BY <1>1, <2>1, <2>2, <2>3 DEF Next
<1> QED
  BY InitHolds, <1>1, PTL DEF Spec

(***************************************************************************)
(* When all executors are through, every vertex whose value changed has    *)
(* its bit in the changed array, however many executors wrote to its byte: *)
(* the apply phase, which skips the others, misses none.                   *)
(***************************************************************************)
THEOREM AllMarked == Spec => []ChangedMarked
<1>1. ASSUME IInv PROVE ChangedMarked
  <2> SUFFICES ASSUME AllDone, UseChanged,
                      NEW v \in Vertices, next[v] # Initial
               PROVE  v \in changed
      BY DEF ChangedMarked
  <2>1. \A e \in Executors : ~WillMark(e)
    <3>1. ASSUME NEW e \in Executors PROVE pc[e] = "read"
      <4>1. HasOffer(e) /\ done[e] = Len(given[e]) /\ done[e] \in Nat
        BY <1>1 DEF IInv, AllDone, Shapes
      <4> QED
        BY <4>1 DEF HasOffer
    <3> QED
      BY <3>1 DEF WillMark
  <2>2. MarkedOrPending(v)
    BY <1>1 DEF IInv
  <2> QED
    BY <2>1, <2>2 DEF MarkedOrPending
<1> QED
  BY Invariant, <1>1, PTL
-------------------------------------------------------------------------------
(* The loop over a vertex, if values go one way: down for a minimum, and   *)
(* for a sum up or down, as the offers to the vertex are all of one sign.  *)
(* Then if the value is at the end what it was at the first read, it was   *)
(* that at the second read, too.  With offers of both signs it is not so.  *)

Toward(v, x, y) == IF reduction = "sum" /\ Rising(v) THEN x <= y ELSE y <= x

\* What the second read may have found.
FoundAgain(e, n) ==
  /\ n \in Int
  /\ Toward(Offer(e).to, old[e], n) /\ Toward(Offer(e).to, n, next[Offer(e).to])
  /\ new[e] = Reduced(Offer(e).value, n)

ReadsInOrder(e) ==
  /\ pc[e] = "reduce" => Toward(Offer(e).to, old[e], next[Offer(e).to])
  /\ pc[e] \in {"critical", "swap"} => \E n \in Int : FoundAgain(e, n)

LInv ==
  /\ OneWay /\ given \in Givens /\ reduction \in {"sum", "min"}
  /\ \A e \in Executors : ReadsInOrder(e)

\* The offer takes effect.
TakesEffect(e) ==
  /\ Applied(e) = done[e] /\ done[e] < Len(given[e])
  /\ Applied(e)' = done[e] + 1
  /\ next' = [next EXCEPT ![Offer(e).to] = Reduced(Offer(e).value, @)]

Effect(e) ==
  /\ UNCHANGED <<given, reduction>>
  /\ \A q \in Executors \ {e} :
       /\ pc'[q] = pc[q] /\ done'[q] = done[q]
       /\ old'[q] = old[q] /\ new'[q] = new[q]
  /\ (next' = next /\ Applied(e)' = Applied(e)) \/ TakesEffect(e)
  /\ ReadsInOrder(e)'

(* An offer moves the value of its vertex the way of that vertex.          *)
LEMMA OfferMoves ==
  ASSUME IInv, LInv, NEW e \in Executors, done[e] < Len(given[e])
  PROVE  /\ Offer(e).to \in Vertices /\ Offer(e).value \in Int
         /\ reduction = "sum" /\ Rising(Offer(e).to) => Offer(e).value >= 0
         /\ reduction = "sum" /\ ~Rising(Offer(e).to) => Offer(e).value <= 0
<1>1. given[e] \in Seq(Offers) /\ done[e] \in Nat
  BY DEF IInv, Shapes, LInv
<1>2. done[e] + 1 \in DOMAIN given[e]
  BY <1>1
<1>3. Offer(e).to \in Vertices /\ Offer(e).value \in Int
  BY OfferInHand DEF IInv
<1>4. Rising(Offer(e).to) => Offer(e).value >= 0
  BY <1>2 DEF Offer, Rising
<1>5. Falling(Offer(e).to) => Offer(e).value <= 0
  BY <1>2 DEF Offer, Falling
<1>6. reduction = "sum" => Rising(Offer(e).to) \/ Falling(Offer(e).to)
  BY <1>3 DEF LInv, OneWay
<1> QED
  BY <1>3, <1>4, <1>5, <1>6

(* The way of a vertex is settled by what is given.                        *)
LEMMA SameWay ==
  ASSUME UNCHANGED <<given, reduction>>
  PROVE  (OneWay' <=> OneWay) /\ \A v : Rising(v)' <=> Rising(v)
BY DEF OneWay, Rising, Falling

LEMMA ReadEffect ==
  ASSUME IInv, LInv, NEW e \in Executors, Read(e)
  PROVE  Effect(e)
<1>1. Shapes /\ Offer(e).to \in Vertices
  BY OfferMoves DEF IInv, Read
<1>2. /\ pc[e] = "read" /\ pc' = [pc EXCEPT ![e] = "reduce"]
      /\ old' = [old EXCEPT ![e] = next[Offer(e).to]]
      /\ UNCHANGED <<next, given, reduction, done, new>>
  BY DEF Read, Goto, memory, input
<1>3. /\ pc'[e] = "reduce" /\ old'[e] = next[Offer(e).to]
      /\ \A q \in Executors \ {e} : pc'[q] = pc[q] /\ old'[q] = old[q]
  BY <1>1, <1>2 DEF Shapes
<1>4. Applied(e)' = Applied(e)
  BY <1>2, <1>3 DEF Applied
<1>5. ReadsInOrder(e)'
  <2>1. Offer(e)' = Offer(e) /\ next[Offer(e).to] \in Int
    BY <1>1, <1>2 DEF Offer, Shapes
  <2> QED
    BY <1>2, <1>3, <2>1 DEF ReadsInOrder, Toward
<1> QED
  BY <1>2, <1>3, <1>4, <1>5 DEF Effect

LEMMA ReduceEffect ==
  ASSUME IInv, LInv, NEW e \in Executors, Reduce(e)
  PROVE  Effect(e)
<1>1. Shapes /\ HasOffer(e) /\ ReadsInOrder(e)
  BY DEF IInv, LInv
<1>2. /\ pc[e] = "reduce" /\ pc'[e] \in {"critical", "swap"}
      /\ new'[e] = Reduced(Offer(e).value, next[Offer(e).to])
      /\ \A q \in Executors \ {e} : pc'[q] = pc[q] /\ new'[q] = new[q]
      /\ UNCHANGED <<next, given, reduction, done, old>>
  BY <1>1 DEF Reduce, Goto, memory, input, Shapes
<1>3. Offer(e).to \in Vertices
  BY <1>1, <1>2, OfferMoves DEF HasOffer
<1>4. Applied(e)' = Applied(e)
  BY <1>2 DEF Applied
<1>5. ReadsInOrder(e)'
  <2>1. next[Offer(e).to] \in Int /\ Toward(Offer(e).to, old[e], next[Offer(e).to])
    BY <1>1, <1>2, <1>3 DEF ReadsInOrder, Shapes
  <2>2. Toward(Offer(e).to, next[Offer(e).to], next[Offer(e).to])
    BY <2>1 DEF Toward
  <2>3. Offer(e)' = Offer(e)
    BY <1>2 DEF Offer
  <2>4. PICK n \in Int : n = next[Offer(e).to]
    BY <2>1
  <2>5. FoundAgain(e, n)'
    BY <1>2, <2>1, <2>2, <2>3, <2>4, SameWay DEF FoundAgain, Toward, Reduced, Better
  <2> QED
    BY <1>2, <2>5 DEF ReadsInOrder
<1> QED
  BY <1>2, <1>4, <1>5 DEF Effect

LEMMA SetCriticalEffect ==
  ASSUME IInv, LInv, NEW e \in Executors, SetCritical(e)
  PROVE  Effect(e)
<1>1. Shapes /\ ReadsInOrder(e)
  BY DEF IInv, LInv
<1>2. /\ pc[e] = "critical" /\ pc'[e] = "swap"
      /\ \A q \in Executors \ {e} : pc'[q] = pc[q]
      /\ UNCHANGED <<next, given, reduction, done, old, new>>
  BY <1>1 DEF SetCritical, Goto, memory, input, Shapes
<1>3. Applied(e)' = Applied(e)
  BY <1>2 DEF Applied
<1>4. ReadsInOrder(e)'
  <2>1. PICK n \in Int : FoundAgain(e, n)
    BY <1>1, <1>2 DEF ReadsInOrder
  <2>2. FoundAgain(e, n)'
    BY <1>2, <2>1, SameWay DEF FoundAgain, Toward, Reduced, Better, Offer
  <2> QED
    BY <1>2, <2>2 DEF ReadsInOrder
<1> QED
  BY <1>2, <1>3, <1>4 DEF Effect

(* A swap succeeds only if the value is what it was at both reads.         *)
LEMMA SwapEffect ==
  ASSUME IInv, LInv, NEW e \in Executors, Swap(e)
  PROVE  Effect(e)
<1>1. Shapes /\ HasOffer(e) /\ ReadsInOrder(e)
  BY DEF IInv, LInv
<1>2. /\ pc[e] = "swap"
      /\ \A q \in Executors \ {e} : pc'[q] = pc[q]
      /\ UNCHANGED <<given, reduction, done, old, new>>
      /\ \/ /\ next[Offer(e).to] = old[e] /\ pc'[e] = "leave"
            /\ next' = [next EXCEPT ![Offer(e).to] = new[e]]
         \/ next' = next /\ pc'[e] = "read"
  BY <1>1 DEF Swap, SwapIf, Goto, memory, input, Shapes
<1>3. /\ done[e] < Len(given[e]) /\ Offer(e).to \in Vertices
      /\ Applied(e) = done[e]
  BY <1>1, <1>2, OfferMoves DEF HasOffer, Applied
<1>4. ReadsInOrder(e)'
  BY <1>2 DEF ReadsInOrder
<1>5. CASE next[Offer(e).to] = old[e] /\ pc'[e] = "leave"
           /\ next' = [next EXCEPT ![Offer(e).to] = new[e]]
  <2>1. PICK n \in Int : FoundAgain(e, n)
    BY <1>1, <1>2 DEF ReadsInOrder
  <2>2. old[e] \in Int /\ n = old[e]
    BY <1>1, <1>5, <2>1 DEF FoundAgain, Toward, Shapes
  <2>3. new[e] = Reduced(Offer(e).value, next[Offer(e).to])
    BY <1>5, <2>1, <2>2 DEF FoundAgain
  <2>4. Applied(e)' = done[e] + 1
    BY <1>2, <1>5 DEF Applied
  <2> HIDE DEF Reduced
  <2> QED
    BY <1>2, <1>3, <1>4, <1>5, <2>3, <2>4 DEF Effect, TakesEffect
<1>6. CASE next' = next /\ pc'[e] = "read"
  <2>1. Applied(e)' = Applied(e)
    BY <1>2, <1>3, <1>6 DEF Applied
  <2> QED
    BY <1>2, <1>4, <1>6, <2>1 DEF Effect
<1> QED
  BY <1>2, <1>5, <1>6

(* Nothing to swap: the value was as good at the second read, and is still. *)
LEMMA NothingToSwapEffect ==
  ASSUME IInv, LInv, NEW e \in Executors, NothingToSwap(e)
  PROVE  Effect(e)
<1>1. Shapes /\ HasOffer(e) /\ ReadsInOrder(e) /\ reduction \in {"sum", "min"}
  BY DEF IInv, LInv
<1>2. /\ pc[e] = "swap" /\ pc'[e] = "leave" /\ old[e] = new[e]
      /\ \A q \in Executors \ {e} : pc'[q] = pc[q]
      /\ UNCHANGED <<next, given, reduction, done, old, new>>
  BY <1>1 DEF NothingToSwap, Goto, memory, input, Shapes
<1>3. /\ done[e] < Len(given[e]) /\ Offer(e).to \in Vertices
      /\ Offer(e).value \in Int
      /\ reduction = "sum" /\ Rising(Offer(e).to) => Offer(e).value >= 0
      /\ reduction = "sum" /\ ~Rising(Offer(e).to) => Offer(e).value <= 0
      /\ Applied(e) = done[e] /\ Applied(e)' = done[e] + 1
  BY <1>1, <1>2, OfferMoves DEF HasOffer, Applied
<1>4. ReadsInOrder(e)'
  BY <1>2 DEF ReadsInOrder
<1>5. next[Offer(e).to] = Reduced(Offer(e).value, next[Offer(e).to])
  <2>1. PICK n \in Int : FoundAgain(e, n)
    BY <1>1, <1>2 DEF ReadsInOrder
  <2>2. next[Offer(e).to] \in Int /\ old[e] \in Int
    BY <1>1, <1>3 DEF Shapes
  <2> QED
    BY <1>1, <1>2, <1>3, <2>1, <2>2 DEF FoundAgain, Toward, Reduced, Better
<1>6. next' = [next EXCEPT ![Offer(e).to] = Reduced(Offer(e).value, @)]
  <2> HIDE DEF Reduced
  <2> QED
    BY <1>1, <1>2, <1>3, <1>5 DEF Shapes
<1> QED
  BY <1>2, <1>3, <1>4, <1>6 DEF Effect, TakesEffect

LEMMA LeaveEffect ==
  ASSUME IInv, LInv, NEW e \in Executors, Leave(e)
  PROVE  Effect(e)
<1>1. Shapes
  BY DEF IInv
<1>2. /\ pc[e] = "leave"
      /\ \A q \in Executors \ {e} : pc'[q] = pc[q] /\ done'[q] = done[q]
      /\ UNCHANGED <<next, given, reduction, old, new>>
      /\ \/ pc'[e] = "readByte" /\ done' = done
         \/ pc'[e] = "read" /\ done'[e] = done[e] + 1
  BY <1>1 DEF Leave, Finish, Goto, memory, input, Shapes
<1>3. Applied(e)' = Applied(e) /\ ReadsInOrder(e)'
  BY <1>2 DEF Applied, ReadsInOrder
<1> QED
  BY <1>2, <1>3 DEF Effect

LEMMA ByteEffect ==
  ASSUME IInv, LInv, NEW e \in Executors,
         ReadByte(e) \/ OrByte(e) \/ SwapByte(e)
  PROVE  Effect(e)
<1>1. Shapes
  BY DEF IInv
<1>2. /\ pc[e] \in {"readByte", "orByte", "swapByte"}
      /\ \A q \in Executors \ {e} : pc'[q] = pc[q] /\ done'[q] = done[q]
      /\ UNCHANGED <<next, given, reduction, old, new>>
      /\ \/ pc'[e] \in {"readByte", "orByte", "swapByte"} /\ done' = done
         \/ pc'[e] = "read" /\ done'[e] = done[e] + 1
  BY <1>1 DEF ReadByte, OrByte, SwapByte, SwapByteIf, Finish, Goto, memory, input,
              Shapes
<1>3. Applied(e)' = Applied(e) /\ ReadsInOrder(e)'
  BY <1>2 DEF Applied, ReadsInOrder
<1> QED
  BY <1>2, <1>3 DEF Effect

LEMMA StepEffect ==
  ASSUME IInv, LInv, NEW e \in Executors, Step(e)
  PROVE  Effect(e)
BY ReadEffect, ReduceEffect, SetCriticalEffect, SwapEffect, NothingToSwapEffect,
   LeaveEffect, ByteEffect DEF Step

(* Whatever an executor does, values move their way.                       *)
LEMMA ValuesMove ==
  ASSUME IInv, LInv, NEW e \in Executors, Effect(e), NEW v \in Vertices
  PROVE  next[v] \in Int /\ next'[v] \in Int /\ Toward(v, next[v], next'[v])
<1>1. next \in [Vertices -> Int] /\ reduction \in {"sum", "min"}
  BY DEF IInv, LInv, Shapes
<1>2. CASE next' = next
  BY <1>1, <1>2 DEF Toward
<1>3. CASE TakesEffect(e)
  <2>1. /\ Offer(e).to \in Vertices /\ Offer(e).value \in Int
        /\ reduction = "sum" /\ Rising(Offer(e).to) => Offer(e).value >= 0
        /\ reduction = "sum" /\ ~Rising(Offer(e).to) => Offer(e).value <= 0
    BY <1>3, OfferMoves DEF TakesEffect
  <2>2. next'[v] = IF v = Offer(e).to THEN Reduced(Offer(e).value, next[v])
                   ELSE next[v]
    <3> HIDE DEF Reduced
    <3> QED
      BY <1>1, <1>3 DEF TakesEffect
  <2> QED
    BY <1>1, <2>1, <2>2 DEF Toward, Reduced, Better
<1> QED
  BY <1>2, <1>3 DEF Effect

LEMMA EffectKeeps ==
  ASSUME IInv, LInv, NEW e \in Executors, Effect(e)
  PROVE  LInv'
<1>0. (OneWay' <=> OneWay) /\ \A v : Rising(v)' <=> Rising(v)
  BY SameWay DEF Effect
<1>1. given' \in Givens /\ reduction' \in {"sum", "min"} /\ reduction' = reduction
  BY DEF LInv, Effect
<1>2. ASSUME NEW q \in Executors, q # e PROVE ReadsInOrder(q)'
  <2>1. /\ pc'[q] = pc[q] /\ old'[q] = old[q] /\ new'[q] = new[q]
        /\ Offer(q)' = Offer(q)
    BY <1>2 DEF Effect, Offer
  <2>2. ReadsInOrder(q) /\ HasOffer(q) /\ old[q] \in Int
    BY DEF IInv, LInv, Shapes
  <2>3. CASE pc[q] \in {"reduce", "critical", "swap"}
    <3>1. Offer(q).to \in Vertices
      BY <2>2, <2>3, OfferMoves DEF HasOffer
    <3>2. /\ next[Offer(q).to] \in Int /\ next'[Offer(q).to] \in Int
          /\ Toward(Offer(q).to, next[Offer(q).to], next'[Offer(q).to])
      BY <3>1, ValuesMove
    <3>3. pc[q] = "reduce" => Toward(Offer(q).to, old[q], next'[Offer(q).to])
      BY <2>2, <3>2 DEF ReadsInOrder, Toward
    <3>4. ASSUME NEW n \in Int, FoundAgain(q, n) PROVE FoundAgain(q, n)'
      BY <1>1, <2>1, <2>2, <3>2, <3>4, <1>0 DEF FoundAgain, Toward, Reduced, Better
    <3> QED
      BY <1>0, <1>1, <2>1, <2>2, <3>3, <3>4 DEF ReadsInOrder, Toward
  <2>4. CASE pc[q] \notin {"reduce", "critical", "swap"}
    BY <2>1, <2>4 DEF ReadsInOrder
  <2> QED
    BY <2>3, <2>4
<1> QED
  BY <1>0, <1>1, <1>2 DEF LInv, Effect

LEMMA LoopInit == Init /\ OneWay => LInv
BY OffersAssumption DEF Init, LInv, ReadsInOrder

LEMMA LoopStutter ==
  ASSUME LInv, UNCHANGED vars
  PROVE  LInv'
<1>1. UNCHANGED <<given, reduction, pc, old, new, next, done>>
  BY DEF vars, memory, input
<1>2. ASSUME NEW q \in Executors PROVE ReadsInOrder(q)'
  <2>1. ReadsInOrder(q)
    BY DEF LInv
  <2>2. Offer(q)' = Offer(q)
    BY <1>1 DEF Offer
  <2>3. \A n \in Int : FoundAgain(q, n) => FoundAgain(q, n)'
    BY <1>1, <2>2, SameWay DEF FoundAgain, Toward, Reduced, Better
  <2> QED
    BY <1>1, <2>1, <2>2, <2>3, SameWay DEF ReadsInOrder, Toward
<1> QED
  BY <1>1, <1>2, SameWay DEF LInv

LEMMA LoopNext ==
  ASSUME IInv, LInv, [Next]_vars
  PROVE  LInv'
<1>1. ASSUME NEW e \in Executors, Step(e) PROVE LInv'
  BY <1>1, StepEffect, EffectKeeps
<1>2. CASE UNCHANGED vars
  BY <1>2, LoopStutter
<1> QED
  BY <1>1, <1>2 DEF Next, Done

(* What is offered stays the same.                                         *)
LEMMA OneWayStays == [Next]_vars => (OneWay' <=> OneWay)
<1> SUFFICES ASSUME [Next]_vars PROVE OneWay' <=> OneWay
    OBVIOUS
<1>1. UNCHANGED <<given, reduction>>
  BY DEF Next, Done, Step, Read, Reduce, SetCritical, Swap, SwapIf, NothingToSwap, Leave,
         ReadByte, OrByte, SwapByte, SwapByteIf, vars, input
<1> QED
  BY <1>1, SameWay

(***************************************************************************)
(* What the loop of applyTiles knows between its reads and its swap, if    *)
(* the offers to a vertex that are added up are of one sign: the value has *)
(* moved, if at all, the way the reduction moves it.                       *)
(***************************************************************************)
THEOREM LoopInvariant == Spec => [](OneWay => LInv)
<1>1. IInv /\ LInv /\ [Next]_vars => LInv'
  BY LoopNext
<1> QED
  BY LoopInit, Invariant, OneWayStays, <1>1, PTL DEF Spec
-------------------------------------------------------------------------------
(* The refinement. *)

LEMMA AppliedOf ==
  ASSUME NEW e \in Executors
  PROVE  [q \in Executors |-> Applied(q)][e] = Applied(e)
OBVIOUS

LEMMA EffectImplements ==
  ASSUME IInv, LInv, NEW e \in Executors, Effect(e)
  PROVE  OneByOne!Apply(e) \/ UNCHANGED OneByOne!vars
<1> DEFINE counts == [q \in Executors |-> Applied(q)]
<1>1. \A q \in Executors \ {e} : Applied(q)' = Applied(q)
  BY DEF Effect, Applied
<1>2. UNCHANGED <<given, reduction>>
  BY DEF Effect
<1>3. CASE next' = next /\ Applied(e)' = Applied(e)
  <2>1. \A q \in Executors : Applied(q)' = Applied(q)
    BY <1>1, <1>3
  <2> HIDE DEF Applied
  <2>2. counts' = counts
    BY <2>1
  <2> QED
    BY <1>2, <1>3, <2>2 DEF OneByOne!vars
<1>4. CASE TakesEffect(e)
  <2>1. /\ Applied(e) = done[e] /\ done[e] < Len(given[e])
        /\ Applied(e)' = done[e] + 1
        /\ next' = [next EXCEPT ![Offer(e).to] = Reduced(Offer(e).value, @)]
    BY <1>4 DEF TakesEffect
  <2>2. counts[e] = done[e]
    BY <2>1
  <2>3. counts' = [counts EXCEPT ![e] = @ + 1]
    <3> HIDE DEF Applied
    <3> QED
      BY <1>1, <2>1
  <2>4. \A x, y : Reduced(x, y) = OneByOne!Reduced(x, y)
    BY DEF Reduced, Better, OneByOne!Reduced, LInv
  <2>5. Offer(e) = given[e][counts[e] + 1]
    BY <2>2 DEF Offer
  <2>6. next' = [next EXCEPT ![given[e][counts[e] + 1].to] =
                   OneByOne!Reduced(given[e][counts[e] + 1].value, @)]
    <3> HIDE DEF counts, Reduced, OneByOne!Reduced
    <3> QED
      BY <2>1, <2>4, <2>5
  <2>7. counts[e] < Len(given[e])
    BY <2>1, <2>2
  <2> QED
    BY <1>2, <2>3, <2>6, <2>7 DEF OneByOne!Apply
<1> QED
  BY <1>3, <1>4 DEF Effect

LEMMA ImplementsInit == Init => OneByOne!Init
<1> SUFFICES ASSUME Init PROVE OneByOne!Init
    OBVIOUS
<1>1. \A e \in Executors : Applied(e) = 0
  BY DEF Init, Applied
<1> QED
  BY <1>1 DEF Init, OneByOne!Init

LEMMA ImplementsNext ==
  ASSUME IInv, LInv, [Next]_vars
  PROVE  [OneByOne!Next]_(OneByOne!vars)
<1>1. ASSUME NEW e \in Executors, Step(e)
      PROVE  [OneByOne!Next]_(OneByOne!vars)
  BY <1>1, StepEffect, EffectImplements DEF OneByOne!Next
<1>2. CASE UNCHANGED vars
  <2>1. UNCHANGED <<next, given, reduction, pc, done>>
    BY <1>2 DEF vars, memory, input
  <2>2. \A q \in Executors : Applied(q)' = Applied(q)
    BY <2>1 DEF Applied
  <2> QED
    BY <2>1, <2>2 DEF OneByOne!vars
<1> QED
  BY <1>1, <1>2 DEF Next, Done

(***************************************************************************)
(* Every offer takes effect at one instant and once, the swap that         *)
(* succeeds or the test that finds nothing to swap, although the loop of   *)
(* applyTiles reads the vertex twice before it swaps: the executors        *)
(* together do what they would do offer by offer.  This is for minima, and *)
(* for sums if no vertex is offered values of both signs.                  *)
(***************************************************************************)
THEOREM Refinement == Spec => ImplementsOneByOne
<1>1. IInv /\ LInv /\ [Next]_vars => [OneByOne!Next]_(OneByOne!vars)
  BY ImplementsNext
<1> QED
  BY ImplementsInit, Invariant, LoopInvariant, OneWayStays, <1>1, PTL
     DEF Spec, ImplementsOneByOne, OneByOne!Spec
-------------------------------------------------------------------------------
(* Nothing is lost: the value of a vertex is the fold of the offers applied *)
(* so far.                                                                  *)

\* The steps of the fold in ReducedByAll, and the fold.
OfferSteps(v) ==
  [px \in OffersTo(v) \X Int |-> Reduced(given[px[1][1]][px[1][2]].value, px[2])]

Folded(v) ==
  CHOOSE iter :
    iter = [s \in SUBSET OffersTo(v) |->
              IF s = {} THEN Initial
              ELSE LET p == CHOOSE x \in s : TRUE
                   IN Reduced(given[p[1]][p[2]].value, iter[s \ {p}])]

AppliedTo(v) == {p \in OffersTo(v) : p[2] <= Applied(p[1])}

FInv == \A v \in Vertices : next[v] = Folded(v)[AppliedTo(v)]

LEMMA ReducedIsFolded ==
  ASSUME NEW v
  PROVE  ReducedByAll(v) = Folded(v)[OffersTo(v)]
BY DEF ReducedByAll, Folded, FoldSet, MapThenFoldSet

LEMMA OffersToIs ==
  ASSUME NEW v, NEW e \in Executors, NEW i
  PROVE  <<e, i>> \in OffersTo(v) <=> i \in 1 .. Len(given[e]) /\ given[e][i].to = v
BY DEF OffersTo

LEMMA OffersToPairs ==
  ASSUME NEW v, NEW p \in OffersTo(v)
  PROVE  /\ p = <<p[1], p[2]>> /\ p[1] \in Executors
         /\ p[2] \in 1 .. Len(given[p[1]]) /\ given[p[1]][p[2]].to = v
BY DEF OffersTo

LEMMA OffersFinite ==
  ASSUME Shapes, NEW v
  PROVE  IsFiniteSet(OffersTo(v))
<1> DEFINE Of(e) == {<<e, i>> : i \in {j \in 1 .. Len(given[e]) : given[e][j].to = v}}
           S == {Of(e) : e \in Executors}
<1>1. ASSUME NEW e \in Executors PROVE IsFiniteSet(Of(e))
  <2> DEFINE J == {j \in 1 .. Len(given[e]) : given[e][j].to = v}
             f == [j \in J |-> <<e, j>>]
  <2>1. Len(given[e]) \in Nat
    BY DEF Shapes
  <2>2. IsFiniteSet(J)
    <3>1. IsFiniteSet(1 .. Len(given[e])) /\ J \in SUBSET (1 .. Len(given[e]))
      BY <2>1, FS_Interval, SMTT(30)
    <3> HIDE DEF J
    <3> QED
      BY <3>1, FS_Subset
  <2>3. f \in Surjection(J, Of(e))
    BY DEF Surjection
  <2> HIDE DEF J, f
  <2> QED
    BY <2>2, <2>3, FS_Surjection
<1>2. IsFiniteSet(S)
  <2> DEFINE g == [e \in Executors |-> Of(e)]
  <2> HIDE DEF Of
  <2>1. g \in Surjection(Executors, S)
    BY DEF Surjection
  <2> HIDE DEF g, S
  <2> QED
    BY <2>1, FS_Surjection, ExecutorsAssumption
<1>3. \A T \in S : IsFiniteSet(T)
  BY <1>1
<1>4. OffersTo(v) = UNION S
  BY DEF OffersTo
<1> HIDE DEF S
<1> QED
  BY <1>2, <1>3, <1>4, FS_UNION

LEMMA ReducedType ==
  ASSUME NEW x \in Int, NEW y \in Int
  PROVE  Reduced(x, y) \in Int
BY DEF Reduced, Better

LEMMA ReducedCommutes ==
  ASSUME NEW x \in Int, NEW y \in Int, NEW t \in Int
  PROVE  Reduced(x, Reduced(y, t)) = Reduced(y, Reduced(x, t))
BY DEF Reduced, Better

LEMMA OfferValue ==
  ASSUME Shapes, NEW v, NEW p \in OffersTo(v)
  PROVE  given[p[1]][p[2]].value \in Int
<1>1. p[1] \in Executors /\ p[2] \in 1 .. Len(given[p[1]])
  BY OffersToPairs
<1>2. given[p[1]] \in Seq(Offers)
  BY <1>1 DEF Shapes
<1>3. given[p[1]][p[2]] \in Offers
  BY <1>1, <1>2
<1> QED
  BY <1>3 DEF Offers

LEMMA StepsType ==
  ASSUME Shapes, NEW v
  PROVE  OfferSteps(v) \in [OffersTo(v) \X Int -> Int]
<1> SUFFICES ASSUME NEW px \in OffersTo(v) \X Int
             PROVE  Reduced(given[px[1][1]][px[1][2]].value, px[2]) \in Int
    BY DEF OfferSteps
<1> QED
  BY OfferValue, ReducedType

LEMMA StepsAre ==
  ASSUME NEW v, NEW p \in OffersTo(v), NEW t \in Int
  PROVE  OfferSteps(v)[<<p, t>>] = Reduced(given[p[1]][p[2]].value, t)
BY DEF OfferSteps

LEMMA StepsCommute ==
  ASSUME Shapes, NEW v
  PROVE  Commutes(OffersTo(v), Int, OfferSteps(v))
<1> SUFFICES ASSUME NEW p \in OffersTo(v), NEW q \in OffersTo(v), NEW t \in Int
             PROVE  OfferSteps(v)[<<p, OfferSteps(v)[<<q, t>>]>>]
                      = OfferSteps(v)[<<q, OfferSteps(v)[<<p, t>>]>>]
    BY DEF Commutes
<1> DEFINE x == given[p[1]][p[2]].value
           y == given[q[1]][q[2]].value
<1>1. x \in Int /\ y \in Int
  BY OfferValue
<1>2. Reduced(y, t) \in Int /\ Reduced(x, t) \in Int
  BY <1>1, ReducedType
<1>3. Reduced(x, Reduced(y, t)) = Reduced(y, Reduced(x, t))
  BY <1>1, ReducedCommutes
<1>4. OfferSteps(v)[<<q, t>>] = Reduced(y, t) /\ OfferSteps(v)[<<p, t>>] = Reduced(x, t)
  BY StepsAre
<1> QED
  BY <1>2, <1>3, <1>4, StepsAre

LEMMA FoldedIsFold ==
  ASSUME Shapes, NEW v, Initial \in Int
  PROVE  IsFold(Folded(v), OffersTo(v), Int, Initial, OfferSteps(v))
<1> DEFINE E(iter) == [s \in SUBSET OffersTo(v) |->
              IF s = {} THEN Initial
              ELSE LET p == CHOOSE x \in s : TRUE
                   IN Reduced(given[p[1]][p[2]].value, iter[s \ {p}])]
           F == Folded(v)
<1>1. PICK f : IsFold(f, OffersTo(v), Int, Initial, OfferSteps(v))
  BY OffersFinite, StepsType, FoldExists
<1>2. f = E(f)
  <2>1. f \in [SUBSET OffersTo(v) -> Int]
    BY <1>1 DEF IsFold
  <2>2. ASSUME NEW s \in SUBSET OffersTo(v) PROVE f[s] = E(f)[s]
    <3>1. f[s] = FoldStep(f, s, Initial, OfferSteps(v))
      BY <1>1 DEF IsFold
    <3>2. CASE s = {}
      BY <3>1, <3>2 DEF FoldStep
    <3>3. CASE s # {}
      <4>1. Chosen(s) \in OffersTo(v)
        BY <3>3, ChosenIn
      <4>2. f[s \ {Chosen(s)}] \in Int
        BY <2>1
      <4>3. f[s] = Reduced(given[Chosen(s)[1]][Chosen(s)[2]].value, f[s \ {Chosen(s)}])
        BY <3>1, <3>3, <4>1, <4>2, StepsAre DEF FoldStep
      <4> HIDE DEF Reduced
      <4> QED
        BY <3>3, <4>3 DEF Chosen
    <3> QED
      BY <3>2, <3>3
  <2> HIDE DEF Reduced
  <2> QED
    BY <2>1, <2>2
<1>3. F = E(F)
  <2> HIDE DEF E
  <2>1. F = CHOOSE iter : iter = E(iter)
    BY DEF Folded, E
  <2> HIDE DEF F
  <2> QED
    BY <1>2, <2>1, Zenon
<1>4. \A s \in SUBSET OffersTo(v) :
        /\ s = {} => F[s] = Initial
        /\ s # {} /\ F[s \ {Chosen(s)}] \in Int =>
             F[s] = FoldStep(F, s, Initial, OfferSteps(v))
  <2> HIDE DEF F
  <2> SUFFICES ASSUME NEW s \in SUBSET OffersTo(v)
               PROVE  /\ s = {} => F[s] = Initial
                      /\ s # {} /\ F[s \ {Chosen(s)}] \in Int =>
                           F[s] = FoldStep(F, s, Initial, OfferSteps(v))
      OBVIOUS
  <2>1. F[s] = IF s = {} THEN Initial
               ELSE Reduced(given[Chosen(s)[1]][Chosen(s)[2]].value, F[s \ {Chosen(s)}])
    <3> HIDE DEF Reduced
    <3>1. F[s] = E(F)[s]
      BY <1>3
    <3>2. E(F)[s] = IF s = {} THEN Initial
               ELSE Reduced(given[Chosen(s)[1]][Chosen(s)[2]].value, F[s \ {Chosen(s)}])
      BY DEF Chosen
    <3> QED
      BY <3>1, <3>2
  <2>2. s # {} => Chosen(s) \in OffersTo(v)
    BY ChosenIn
  <2> HIDE DEF Reduced
  <2> QED
    BY <2>1, <2>2, StepsAre DEF FoldStep
<1>5. \A s \in SUBSET OffersTo(v) : F[s] = f[s]
  <2>1. LikeFold(F, OffersTo(v), Int, Initial, OfferSteps(v))
    BY <1>4 DEF LikeFold
  <2> HIDE DEF F, E
  <2> QED
    BY <1>1, <2>1, OffersFinite, FoldUnique
<1>6. F = f
  <2> HIDE DEF F
  <2>1. f \in [SUBSET OffersTo(v) -> Int]
    BY <1>1 DEF IsFold
  <2>2. DOMAIN F = SUBSET OffersTo(v) /\ F = [s \in DOMAIN F |-> F[s]]
    BY <1>3
  <2> HIDE DEF E
  <2> QED
    BY <1>5, <2>1, <2>2
<1> QED
  BY <1>1, <1>6

(* One more offer is one more step.                                        *)
LEMMA FoldedMore ==
  ASSUME Shapes, Initial \in Int, NEW v, NEW s \in SUBSET OffersTo(v),
         NEW p \in OffersTo(v), p \notin s
  PROVE  /\ Folded(v)[s] \in Int
         /\ Folded(v)[s \cup {p}] = Reduced(given[p[1]][p[2]].value, Folded(v)[s])
<1> DEFINE U == OffersTo(v)
           F == Folded(v)
           G == OfferSteps(v)
           r == s \cup {p}
<1>1. IsFold(F, U, Int, Initial, G) /\ IsFiniteSet(U)
  BY FoldedIsFold, OffersFinite
<1>2. G \in [U \X Int -> Int] /\ Commutes(U, Int, G)
  BY StepsType, StepsCommute
<1>3. r \in SUBSET U /\ p \in r /\ r \ {p} = s
  OBVIOUS
<1>4. F[r] = G[<<p, F[r \ {p}]>>]
  <2> HIDE DEF U, F, G, r
  <2>1. Initial \in Int
    OBVIOUS
  <2>2. IsCommutingFold(F, U, Int, Initial, G)
    BY <1>1, <1>2, <2>1 DEF IsCommutingFold
  <2> QED
    BY <1>3, <2>2, FoldAnyOrder
<1>5. F[s] \in Int
  BY <1>1 DEF IsFold
<1> QED
  BY <1>3, <1>4, <1>5, StepsAre

LEMMA FoldInit == Init => FInv
<1> SUFFICES ASSUME Init, NEW v \in Vertices
             PROVE  next[v] = Folded(v)[AppliedTo(v)]
    BY DEF FInv
<1>1. Shapes /\ Initial \in Int
  BY InitHolds, OffersAssumption DEF IInv
<1>2. AppliedTo(v) = {}
  <2>1. \A e \in Executors : Applied(e) = 0
    BY DEF Init, Applied
  <2>2. ASSUME NEW p \in AppliedTo(v) PROVE FALSE
    <3>1. p[1] \in Executors /\ p[2] \in Nat /\ p[2] >= 1 /\ p[2] <= Applied(p[1])
      BY <1>1, OffersToPairs DEF AppliedTo, Shapes
    <3> QED
      BY <2>1, <3>1
  <2> QED
    BY <2>2
<1>3. Folded(v)[{}] = Initial
  BY <1>1, FoldedIsFold DEF IsFold, FoldStep
<1> QED
  BY <1>2, <1>3 DEF Init

LEMMA FoldKeeps ==
  ASSUME IInv, LInv, FInv, NEW e \in Executors, Effect(e)
  PROVE  FInv'
<1> SUFFICES ASSUME NEW v \in Vertices
             PROVE  next'[v] = Folded(v)'[AppliedTo(v)']
    BY DEF FInv
<1>1. Shapes /\ Initial \in Int /\ next[v] = Folded(v)[AppliedTo(v)]
  BY OffersAssumption DEF IInv, FInv
<1>2. UNCHANGED <<given, reduction>>
  BY DEF Effect
<1>3. OffersTo(v)' = OffersTo(v) /\ Folded(v)' = Folded(v)
  BY <1>2 DEF OffersTo, Folded, Reduced, Better
<1>4. \A q \in Executors \ {e} : Applied(q)' = Applied(q)
  BY DEF Effect, Applied
<1>5. AppliedTo(v)' = {p \in OffersTo(v) : p[2] <= Applied(p[1])'}
  BY <1>3 DEF AppliedTo
<1>6. CASE next' = next /\ Applied(e)' = Applied(e)
  <2>1. \A p \in OffersTo(v) : Applied(p[1])' = Applied(p[1])
    BY <1>4, <1>6, OffersToPairs
  <2>2. AppliedTo(v)' = AppliedTo(v)
    BY <1>5, <2>1 DEF AppliedTo
  <2> QED
    BY <1>1, <1>3, <1>6, <2>2
<1>7. CASE TakesEffect(e)
  <2> DEFINE p == <<e, done[e] + 1>>
  <2>1. /\ Applied(e) = done[e] /\ done[e] < Len(given[e])
        /\ Applied(e)' = done[e] + 1
        /\ next' = [next EXCEPT ![Offer(e).to] = Reduced(Offer(e).value, @)]
    BY <1>7 DEF TakesEffect
  <2>2. done[e] \in Nat /\ Len(given[e]) \in Nat /\ next \in [Vertices -> Int]
    BY <1>1 DEF Shapes
  <2>3. /\ p[1] = e /\ p[2] = done[e] + 1
        /\ Offer(e) = given[p[1]][p[2]]
        /\ p \in OffersTo(v) <=> Offer(e).to = v
    BY <2>1, <2>2, OffersToIs DEF Offer
  <2> HIDE DEF p, Applied
  <2>4. ASSUME NEW q \in OffersTo(v)
        PROVE  q[2] <= Applied(q[1])' <=> q[2] <= Applied(q[1]) \/ q = p
    <3>1. q = <<q[1], q[2]>> /\ q[1] \in Executors /\ q[2] \in Int
      BY OffersToPairs
    <3>2. CASE q[1] = e
      <4>1. q = p <=> q[2] = done[e] + 1
        BY <3>1, <3>2 DEF p
      <4>2. Applied(q[1])' = done[e] + 1 /\ Applied(q[1]) = done[e]
        BY <2>1, <3>2
      <4> QED
        BY <2>2, <3>1, <4>1, <4>2
    <3>3. CASE q[1] # e
      BY <1>4, <2>3, <3>1, <3>3
    <3> QED
      BY <3>2, <3>3
  <2>5. CASE Offer(e).to = v
    <3>1. p \in OffersTo(v) /\ p \notin AppliedTo(v)
      BY <2>1, <2>2, <2>3, <2>5 DEF AppliedTo
    <3>2. AppliedTo(v)' = AppliedTo(v) \cup {p}
      BY <1>5, <2>4, <3>1 DEF AppliedTo
    <3>3. AppliedTo(v) \in SUBSET OffersTo(v)
      BY DEF AppliedTo
    <3>4. Folded(v)[AppliedTo(v) \cup {p}]
            = Reduced(Offer(e).value, Folded(v)[AppliedTo(v)])
      <4>1. Folded(v)[AppliedTo(v) \cup {p}]
              = Reduced(given[p[1]][p[2]].value, Folded(v)[AppliedTo(v)])
        BY <1>1, <3>1, <3>3, FoldedMore
      <4> QED
        BY <2>3, <4>1
    <3>5. next'[v] = Reduced(Offer(e).value, next[v])
      <4> HIDE DEF Reduced
      <4> QED
        BY <2>1, <2>2, <2>5
    <3> QED
      BY <1>1, <1>3, <3>2, <3>4, <3>5
  <2>6. CASE Offer(e).to # v
    <3>1. AppliedTo(v)' = AppliedTo(v)
      BY <1>5, <2>3, <2>4, <2>6 DEF AppliedTo
    <3>2. next'[v] = next[v]
      BY <2>1, <2>2, <2>6
    <3> QED
      BY <1>1, <1>3, <3>1, <3>2
  <2> QED
    BY <2>5, <2>6
<1> QED
  BY <1>6, <1>7 DEF Effect

LEMMA FoldStutter ==
  ASSUME FInv, UNCHANGED vars
  PROVE  FInv'
<1>1. UNCHANGED <<given, reduction, pc, done, next>>
  BY DEF vars, memory, input
<1>2. \A e \in Executors : Applied(e)' = Applied(e)
  BY <1>1 DEF Applied
<1>3. \A v \in Vertices : OffersTo(v)' = OffersTo(v) /\ Folded(v)' = Folded(v)
  BY <1>1 DEF OffersTo, Folded, Reduced, Better
<1>4. \A v \in Vertices : AppliedTo(v)' = AppliedTo(v)
  BY <1>2, <1>3, OffersToPairs DEF AppliedTo
<1> QED
  BY <1>1, <1>3, <1>4 DEF FInv

LEMMA FoldNext ==
  ASSUME IInv, LInv, FInv, [Next]_vars
  PROVE  FInv'
<1>1. ASSUME NEW e \in Executors, Step(e) PROVE FInv'
  BY <1>1, StepEffect, FoldKeeps
<1>2. CASE UNCHANGED vars
  BY <1>2, FoldStutter
<1> QED
  BY <1>1, <1>2 DEF Next, Done

LEMMA FoldMeansNothingLost ==
  ASSUME IInv, FInv
  PROVE  EveryResultPushed
<1> SUFFICES ASSUME AllDone, NEW v \in Vertices
             PROVE  next[v] = ReducedByAll(v)
    BY DEF EveryResultPushed
<1>1. ASSUME NEW e \in Executors PROVE Applied(e) = Len(given[e])
  <2>1. HasOffer(e) /\ done[e] = Len(given[e]) /\ done[e] \in Nat
    BY DEF IInv, AllDone, Shapes
  <2>2. pc[e] = "read"
    BY <2>1 DEF HasOffer
  <2> QED
    BY <2>1, <2>2 DEF Applied
<1>2. AppliedTo(v) = OffersTo(v)
  BY <1>1, OffersToPairs DEF AppliedTo
<1> QED
  BY <1>2, ReducedIsFolded DEF FInv

(***************************************************************************)
(* When all executors are through, every vertex has the value that the     *)
(* offers to it come to one after another, the sum or the smallest: no     *)
(* offer is lost between the read of a vertex and the swap, and none is    *)
(* added twice by a swap that is retried.  For sums this is so if no       *)
(* vertex is offered values of both signs, as with PageRank; the           *)
(* differences of PageRankDelta are (EveryResultPushed fails for them).    *)
(***************************************************************************)
THEOREM NoOfferLost == Spec => []NothingLost
<1>1. IInv /\ LInv /\ FInv /\ [Next]_vars => FInv'
  BY FoldNext
<1>2. IInv /\ (OneWay => FInv) => NothingLost
  BY FoldMeansNothingLost DEF NothingLost
<1> QED
  BY FoldInit, Invariant, LoopInvariant, OneWayStays, <1>1, <1>2, PTL DEF Spec
-------------------------------------------------------------------------------
(* The scans.  Types, and where the threads are.                           *)
Places == {"draw", "scan", "cut", "barrier", "reset", "wait"}
ThreadRecords == [at : Places, begin : Nat, converged : BOOLEAN]

ScanTypes ==
  /\ kind \in {"check", "apply", "apply all"} /\ count \in Counts
  /\ active \in SUBSET {v \in Markable : v < count}
  /\ moving \in SUBSET active /\ stray \in BOOLEAN
  /\ counter \in Nat /\ counter % 64 = 0
  /\ thread \in [Threads -> ThreadRecords]
  /\ \A t \in Threads : thread[t].begin % 64 = 0
  /\ applied \in [Markable -> Nat]
  /\ verdict \in {"none", "converged", "active"} /\ round \in Nat

Working == \A t \in Threads : thread[t].at \in {"draw", "scan", "cut", "barrier"}
Doubtful == \E t \in Threads : ~thread[t].converged

\* The threads go over the chunks, and when all have met at the barrier the
\* counter is reset and the verdict read off.
ScanPhases ==
  /\ (Working /\ verdict = "none") \/ Over
  /\ (\A t \in Threads : thread[t].at = "wait") => counter = 0
  /\ Judged => verdict = IF Doubtful THEN "active" ELSE "converged"
  /\ \A t \in Threads :
       thread[t].at = "cut" => kind = "check" /\ ~thread[t].converged

(* Chunks.  Until a checker has cut off the others, the counter has passed *)
(* every chunk that somebody scans, and no two scan the same.              *)
Scans(t, v) ==
  thread[t].at = "scan" /\ thread[t].begin <= v /\ v < thread[t].begin + STEP_SIZE

Ahead ==
  \A t \in Threads :
    /\ thread[t].at = "scan" => thread[t].begin + STEP_SIZE <= counter
    /\ thread[t].at = "barrier" => count <= counter
Disjoint ==
  \A q, r \in Threads :
    q # r /\ thread[q].at = "scan" /\ thread[r].at = "scan" =>
      \/ thread[q].begin + STEP_SIZE <= thread[r].begin
      \/ thread[r].begin + STEP_SIZE <= thread[q].begin

Spread == Working /\ (kind = "check" => ~Doubtful) => Ahead /\ Disjoint

\* The chunk of v has been scanned.
Passed(v) == Working => v < counter /\ \A t \in Threads : ~Scans(t, v)

(* What the scan of a chunk does for a vertex.                             *)
OnceAt(v) ==
  /\ applied[v] <= 1
  /\ applied[v] > 0 => kind # "check" /\ Passed(v)
  /\ applied[v] > 0 /\ kind = "apply" => v \in active

\* Small arrays are scanned without a gap.
Certain(v) ==
  \/ kind = "check" /\ count <= 512 /\ v \in active
  \/ kind = "apply" /\ count <= 64 /\ v \in active
  \/ kind = "apply all" /\ v < count

FoundAt(v) ==
  /\ Certain(v) /\ Passed(v) => IF kind = "check" THEN Doubtful ELSE applied[v] = 1
  /\ applied[v] > 0 /\ v \in moving => Doubtful

Reason == IF kind = "check" THEN active # {} \/ stray ELSE moving # {}

ScanInv ==
  /\ ScanTypes /\ ScanPhases /\ Spread
  /\ \A v \in Markable : OnceAt(v) /\ FoundAt(v)
  /\ Doubtful => Reason
-------------------------------------------------------------------------------
(* What the scans of bits find.                                             *)
LEMMA TestedFinite ==
  ASSUME NEW first \in Int, NEW end \in Int, NEW threshold \in Int
  PROVE  /\ Tested(first, end, threshold) \subseteq first .. end
         /\ Cardinality(Tested(first, end, threshold)) \in Nat
<1>1. Tested(first, end, threshold) \subseteq first .. end
  BY DEF Tested
<1>2. IsFiniteSet(first .. end)
  BY FS_Interval
<1> QED
  BY <1>1, <1>2, FS_Subset, FS_CardinalityType

\* Up to 64 bytes of a search, and 8 of an applier, are too few for a word.
LEMMA TestedNone ==
  ASSUME NEW first \in Nat, NEW end \in Int, NEW threshold \in Int, end <= threshold
  PROVE  /\ Tested(first, end, threshold) = {}
         /\ Cardinality(Tested(first, end, threshold)) = 0
<1>1. Tested(first, end, threshold) = {}
  BY DEF Tested
<1> QED
  BY <1>1, FS_EmptySet

LEMMA SearchSound ==
  ASSUME NEW begin, NEW end, NEW set, Search(begin, end, set)
  PROVE  set # {}
BY DEF Search

LEMMA SearchFinds ==
  ASSUME NEW begin \in Nat, NEW end \in Int, NEW set, end < 520,
         NEW v \in set, v \in Int, begin <= v, v <= end
  PROVE  Search(begin, end, set)
<1> DEFINE first == begin \div 8
           last == end \div 8
<1>1. first \in Nat /\ last \in Int /\ last <= 64 /\ 8 * first <= begin
  OBVIOUS
<1> HIDE DEF first, last
<1>2. Tested(first, last, 64) = {} /\ Cardinality(Tested(first, last, 64)) = 0
  BY <1>1, TestedNone
<1>3. StopAt(first, last, 64, set) = first
  <2>1. StopAt(first, last, 64, set) = first + 8 * 0
    BY <1>2 DEF StopAt
  <2> QED
    BY <1>1, <2>1
<1>4. v \in set \intersect (8 * first .. end)
  BY <1>1
<1> QED
  BY <1>3, <1>4 DEF Search, first, last

LEMMA ApplicableIs ==
  ASSUME NEW begin, NEW end, NEW set, NEW first, NEW n,
         first = begin \div 8, n = Cardinality(Tested(first, end \div 8, 8))
  PROVE  Applicable(begin, end, set) =
           (UNION {WordOf(b, set) : b \in {c \in Tested(first, end \div 8, 8) : ByteOf(c, set) # {}}})
             \cup (set \intersect (8 * (first + 8 * n) .. end - 1))
BY DEF Applicable

LEMMA ApplicableIn ==
  ASSUME NEW begin \in Nat, begin % 8 = 0, NEW end \in Nat, NEW set,
         NEW v \in Applicable(begin, end, set)
  PROVE  v \in set /\ v \in Int /\ begin <= v /\ v < end
<1>1. PICK first \in Int, last \in Int :
        first = begin \div 8 /\ last = end \div 8 /\ 8 * first = begin /\ 8 * last <= end
  OBVIOUS
<1>2. PICK n \in Nat : n = Cardinality(Tested(first, last, 8))
  <2>1. 8 \in Int
    OBVIOUS
  <2> QED
    BY <1>1, <2>1, TestedFinite
<1> DEFINE words == {c \in Tested(first, last, 8) : ByteOf(c, set) # {}}
           rest == set \intersect (8 * (first + 8 * n) .. end - 1)
<1>3. ASSUME NEW b \in words, v \in WordOf(b, set)
      PROVE  v \in set /\ v \in Int /\ begin <= v /\ v < end
  <2>1. b \in Int /\ first <= b /\ last - b > 8
    BY <1>1, <1>3 DEF Tested
  <2>2. v \in set /\ v \in 8 * b .. 8 * b + 63
    BY <1>3 DEF WordOf
  <2> QED
    BY <1>1, <2>1, <2>2
<1>4. ASSUME v \in rest
      PROVE  v \in set /\ v \in Int /\ begin <= v /\ v < end
  BY <1>1, <1>4
<1>5. v \in (UNION {WordOf(b, set) : b \in words}) \cup rest
  BY <1>1, <1>2, ApplicableIs
<1> HIDE DEF words, rest
<1> QED
  BY <1>3, <1>4, <1>5

LEMMA ApplicableAll ==
  ASSUME NEW begin \in Nat, NEW end \in Int, end <= 64, NEW set,
         NEW v \in set, v \in Int, begin <= v, v < end
  PROVE  v \in Applicable(begin, end, set)
<1>1. PICK first \in Nat, last \in Int :
        first = begin \div 8 /\ last = end \div 8 /\ last <= 8 /\ 8 * first <= begin
  OBVIOUS
<1>2. Cardinality(Tested(first, last, 8)) = 0
  <2>1. 8 \in Int
    OBVIOUS
  <2> QED
    BY <1>1, <2>1, TestedNone
<1> DEFINE words == {c \in Tested(first, last, 8) : ByteOf(c, set) # {}}
           rest == set \intersect (8 * (first + 8 * 0) .. end - 1)
<1>3. v \in rest
  BY <1>1
<1>4. Applicable(begin, end, set) = (UNION {WordOf(b, set) : b \in words}) \cup rest
  BY <1>1, <1>2, ApplicableIs
<1> HIDE DEF words, rest
<1> QED
  BY <1>3, <1>4

LEMMA SizesAre ==
  /\ STEP_SIZE \in Nat \ {0} /\ STEP_SIZE % 64 = 0
  /\ \A n \in Counts : n \in Nat \ {0} /\ n % 64 = 0
BY ScanAssumption

LEMMA ChunkIs ==
  ASSUME ScanTypes, NEW t \in Threads
  PROVE  /\ Chunk(t) = IF thread[t].begin + STEP_SIZE < count
                       THEN thread[t].begin + STEP_SIZE ELSE count
         /\ Chunk(t) \in Nat
<1> DEFINE b == thread[t].begin + STEP_SIZE
<1>1. b \in Nat /\ count \in Nat
  <2>1. thread[t] \in ThreadRecords /\ count \in Counts
    BY DEF ScanTypes
  <2>2. thread[t].begin \in Nat
    BY <2>1 DEF ThreadRecords
  <2> QED
    BY <2>1, <2>2, SizesAre
<1>2. Chunk(t) = CHOOSE x \in {b, count} : \A y \in {b, count} : x <= y
  BY DEF Chunk, Min
<1> HIDE DEF b
<1>3. Chunk(t) = IF b < count THEN b ELSE count
  BY <1>1, <1>2
<1> QED
  BY <1>1, <1>3 DEF b
-------------------------------------------------------------------------------
(* The steps of a thread change its own record only.                        *)
NewThread(t, at, begin, converged) ==
  thread' = [thread EXCEPT ![t] = [at |-> at, begin |-> begin, converged |-> converged]]

LEMMA ThreadIs ==
  ASSUME ScanTypes, NEW t \in Threads
  PROVE  /\ thread[t] \in ThreadRecords
         /\ thread[t] = [at |-> thread[t].at, begin |-> thread[t].begin,
                         converged |-> thread[t].converged]
         /\ thread[t].at \in Places /\ thread[t].begin \in Nat
         /\ thread[t].begin % 64 = 0 /\ thread[t].converged \in BOOLEAN
<1>1. thread[t] \in ThreadRecords /\ thread[t].begin % 64 = 0
  BY DEF ScanTypes
<1> QED
  BY <1>1 DEF ThreadRecords

LEMMA FieldsAre ==
  ASSUME ScanTypes, NEW t \in Threads
  PROVE  \E a, b, c : thread[t] = [at |-> a, begin |-> b, converged |-> c]
BY ThreadIs

LEMMA NewThreadIs ==
  ASSUME ScanTypes, NEW t \in Threads, NEW at \in Places, NEW begin \in Nat,
         NEW converged \in BOOLEAN, NewThread(t, at, begin, converged)
  PROVE  /\ thread' \in [Threads -> ThreadRecords]
         /\ thread'[t].at = at /\ thread'[t].begin = begin
         /\ thread'[t].converged = converged
         /\ \A q \in Threads \ {t} : thread'[q] = thread[q]
<1>1. thread \in [Threads -> ThreadRecords]
  BY DEF ScanTypes
<1>2. [at |-> at, begin |-> begin, converged |-> converged] \in ThreadRecords
  BY DEF ThreadRecords
<1> QED
  BY <1>1, <1>2 DEF NewThread

LEMMA DrawIs ==
  ASSUME ScanTypes, NEW t \in Threads, Draw(t)
  PROVE  /\ thread[t].at = "draw" /\ counter' = counter + STEP_SIZE
         /\ NewThread(t, "scan", counter, thread[t].converged)
<1>1. thread' = [thread EXCEPT ![t].begin = counter, ![t].at = "scan"]
  BY DEF Draw, DrawUpTo
<1>2. PICK s, a, b, c :
        s = thread[t] /\ s = [at |-> a, begin |-> b, converged |-> c]
  BY FieldsAre
<1>3. PICK r : r = [at |-> a, begin |-> counter, converged |-> c]
  OBVIOUS
<1>4. [s EXCEPT !.begin = counter] = r
  BY <1>2, <1>3
<1>5. [r EXCEPT !.at = "scan"] = [at |-> "scan", begin |-> counter, converged |-> c]
  BY <1>3
<1>6. thread' = [thread EXCEPT ![t] = [r EXCEPT !.at = "scan"]]
  BY <1>1, <1>2, <1>4 DEF ScanTypes
<1>7. thread[t].converged = c
  BY <1>2
<1> QED
  BY <1>5, <1>6, <1>7 DEF Draw, DrawUpTo, NewThread

LEMMA PlaceIs ==
  ASSUME ScanTypes, NEW t \in Threads, NEW place, Place(t, place)
  PROVE  NewThread(t, place, thread[t].begin, thread[t].converged)
<1>1. PICK s, a, b, c :
        s = thread[t] /\ s = [at |-> a, begin |-> b, converged |-> c]
  BY FieldsAre
<1>2. [s EXCEPT !.at = place] = [at |-> place, begin |-> b, converged |-> c]
  BY <1>1
<1>3. thread[t].begin = b /\ thread[t].converged = c
  BY <1>1
<1> QED
  BY <1>1, <1>2, <1>3 DEF Place, NewThread

LEMMA BothIs ==
  ASSUME ScanTypes, NEW t \in Threads, NEW at, NEW converged,
         thread' = [thread EXCEPT ![t].converged = converged, ![t].at = at]
  PROVE  NewThread(t, at, thread[t].begin, converged)
<1>1. PICK s, a, b, c :
        s = thread[t] /\ s = [at |-> a, begin |-> b, converged |-> c]
  BY FieldsAre
<1>2. PICK r : r = [at |-> a, begin |-> b, converged |-> converged]
  OBVIOUS
<1>3. [s EXCEPT !.converged = converged] = r
  BY <1>1, <1>2
<1>4. [r EXCEPT !.at = at] = [at |-> at, begin |-> b, converged |-> converged]
  BY <1>2
<1>5. thread' = [thread EXCEPT ![t] = [r EXCEPT !.at = at]]
  BY <1>1, <1>3 DEF ScanTypes
<1>6. thread[t].begin = b
  BY <1>1
<1> QED
  BY <1>4, <1>5, <1>6 DEF NewThread

\* A thread that draws, scans or cuts off others is at work, and so are all.
LEMMA AllAtWork ==
  ASSUME ScanTypes, ScanPhases, NEW t \in Threads,
         thread[t].at \notin {"reset", "wait"}
  PROVE  Working /\ verdict = "none"
BY DEF ScanPhases, Over

LEMMA StillWorking ==
  ASSUME ScanTypes, Working, NEW t \in Threads, NEW at \in {"draw", "scan", "cut", "barrier"},
         NEW begin \in Nat, NEW converged \in BOOLEAN,
         NewThread(t, at, begin, converged)
  PROVE  Working' /\ ~(\A q \in Threads : thread'[q].at = "wait")
<1>1. at \in Places
  BY DEF Places
<1>2. \A q \in Threads : thread'[q].at \in {"draw", "scan", "cut", "barrier"}
  BY <1>1, NewThreadIs DEF Working
<1> QED
  BY <1>2 DEF Working

LEMMA DoubtStays ==
  ASSUME ScanTypes, NEW t \in Threads, NEW at \in Places, NEW begin \in Nat,
         NEW converged \in BOOLEAN, NewThread(t, at, begin, converged),
         converged => thread[t].converged
  PROVE  /\ Doubtful => Doubtful'
         /\ Doubtful' => Doubtful \/ ~converged
         /\ ~converged => Doubtful'
BY NewThreadIs DEF Doubtful

LEMMA OthersScan ==
  ASSUME ScanTypes, NEW t \in Threads, NEW at \in Places, NEW begin \in Nat,
         NEW converged \in BOOLEAN, NewThread(t, at, begin, converged), NEW v
  PROVE  /\ Scans(t, v)' <=> at = "scan" /\ begin <= v /\ v < begin + STEP_SIZE
         /\ \A q \in Threads \ {t} : Scans(q, v)' <=> Scans(q, v)
BY NewThreadIs DEF Scans

LEMMA DrawKeeps ==
  ASSUME ScanInv, NEW t \in Threads, Draw(t)
  PROVE  ScanInv'
<1> DEFINE c == thread[t].converged
<1>0. ScanTypes /\ ScanPhases /\ Spread
  BY DEF ScanInv
<1>1. /\ thread[t].at = "draw" /\ counter' = counter + STEP_SIZE
      /\ NewThread(t, "scan", counter, c)
      /\ UNCHANGED <<bits, applied, serial, verdict, round>>
  BY <1>0, DrawIs DEF Draw, DrawUpTo
<1>2. /\ counter \in Nat /\ counter % 64 = 0 /\ STEP_SIZE \in Nat \ {0}
      /\ STEP_SIZE % 64 = 0 /\ c \in BOOLEAN /\ "scan" \in Places
  BY <1>0, SizesAre, ThreadIs DEF ScanTypes, Places
<1>3. /\ thread' \in [Threads -> ThreadRecords]
      /\ thread'[t].at = "scan" /\ thread'[t].begin = counter /\ thread'[t].converged = c
      /\ \A q \in Threads \ {t} : thread'[q] = thread[q]
  BY <1>0, <1>1, <1>2, NewThreadIs
<1>4. Doubtful' <=> Doubtful
  BY <1>3 DEF Doubtful
<1>5. /\ Working /\ verdict = "none" /\ Working'
      /\ ~(\A q \in Threads : thread'[q].at = "wait")
  BY <1>0, <1>1, <1>2, AllAtWork, StillWorking
<1>6. \A v : /\ Scans(t, v)' <=> counter <= v /\ v < counter + STEP_SIZE
             /\ \A q \in Threads \ {t} : Scans(q, v)' <=> Scans(q, v)
  BY <1>0, <1>1, <1>2, OthersScan
<1>7. ASSUME NEW v \in Markable
      PROVE  Passed(v) <=> Passed(v)'
  <2>1. v \in Nat
    BY ScanAssumption
  <2>2. ~Scans(t, v)
    BY <1>1 DEF Scans
  <2>3. Passed(v) <=> v < counter /\ \A q \in Threads \ {t} : ~Scans(q, v)
    BY <1>5, <2>2 DEF Passed
  <2>4. Passed(v)' <=> /\ v < counter + STEP_SIZE
                       /\ ~(counter <= v /\ v < counter + STEP_SIZE)
                       /\ \A q \in Threads \ {t} : ~Scans(q, v)
    BY <1>1, <1>5, <1>6 DEF Passed
  <2> QED
    BY <1>2, <2>1, <2>3, <2>4
<1>8. ScanTypes'
  <2>1. (counter + STEP_SIZE) % 64 = 0 /\ counter + STEP_SIZE \in Nat
    BY <1>2
  <2>2. \A q \in Threads : thread'[q].begin % 64 = 0
    BY <1>0, <1>2, <1>3 DEF ScanTypes
  <2> QED
    BY <1>0, <1>1, <1>3, <2>1, <2>2 DEF ScanTypes, bits
<1>9. ScanPhases'
  <2>1. \A q \in Threads : thread'[q].at = "cut" => kind' = "check" /\ ~thread'[q].converged
    BY <1>0, <1>1, <1>3 DEF ScanPhases, bits
  <2> QED
    BY <1>1, <1>5, <2>1 DEF ScanPhases, Judged
<1>10. Spread'
  <2> SUFFICES ASSUME kind = "check" => ~Doubtful PROVE Ahead' /\ Disjoint'
    BY <1>1, <1>4 DEF Spread, bits
  <2>1. Ahead /\ Disjoint /\ count \in Nat
    BY <1>0, <1>5, SizesAre DEF Spread, ScanTypes
  <2>2. \A q \in Threads : thread[q].begin \in Nat
    BY <1>0, ThreadIs
  <2>3. Ahead'
    <3> SUFFICES ASSUME NEW q \in Threads
        PROVE  /\ thread'[q].at = "scan" => thread'[q].begin + STEP_SIZE <= counter'
               /\ thread'[q].at = "barrier" => count' <= counter'
      BY DEF Ahead
    <3>1. CASE q = t
      BY <1>1, <1>2, <1>3, <3>1
    <3>2. CASE q # t
      BY <1>1, <1>2, <1>3, <2>1, <2>2, <3>2 DEF Ahead, bits
    <3> QED
      BY <3>1, <3>2
  <2>4. Disjoint'
    <3> SUFFICES ASSUME NEW q \in Threads, NEW r \in Threads, q # r,
                        thread'[q].at = "scan", thread'[r].at = "scan"
        PROVE  \/ thread'[q].begin + STEP_SIZE <= thread'[r].begin
               \/ thread'[r].begin + STEP_SIZE <= thread'[q].begin
      BY DEF Disjoint
    <3>1. CASE q = t
      BY <1>3, <2>1, <3>1 DEF Ahead
    <3>2. CASE r = t
      BY <1>3, <2>1, <3>2 DEF Ahead
    <3>3. CASE q # t /\ r # t
      BY <1>3, <2>1, <3>3 DEF Disjoint
    <3> QED
      BY <3>1, <3>2, <3>3
  <2> QED
    BY <2>3, <2>4
<1>11. ASSUME NEW v \in Markable PROVE OnceAt(v)' /\ FoundAt(v)'
  <2>1. OnceAt(v) /\ FoundAt(v)
    BY DEF ScanInv
  <2>2. OnceAt(v)'
    BY <1>1, <1>7, <2>1 DEF OnceAt, bits
  <2>3. FoundAt(v)'
    BY <1>1, <1>4, <1>7, <2>1 DEF FoundAt, Certain, bits
  <2> QED
    BY <2>2, <2>3
<1>12. (Doubtful => Reason)'
  BY <1>1, <1>4 DEF ScanInv, Reason, bits
<1> QED
  BY <1>8, <1>9, <1>10, <1>11, <1>12 DEF ScanInv

(* A thread is through with its chunk: it goes on, to the barrier, or to    *)
(* cut off the others.                                                      *)
Leaves(t, at, converged) ==
  /\ thread[t].at = "scan" /\ at \in {"draw", "barrier", "cut"}
  /\ converged \in BOOLEAN /\ (converged => thread[t].converged)
  /\ NewThread(t, at, thread[t].begin, converged)
  /\ at = "cut" => kind = "check" /\ ~converged
  /\ at = "barrier" => count <= thread[t].begin
  /\ applied' \in [Markable -> Nat]
  /\ UNCHANGED <<bits, counter, serial, verdict, round>>

LEMMA LeavesMeans ==
  ASSUME ScanInv, NEW t \in Threads, NEW at, NEW converged, Leaves(t, at, converged)
  PROVE  /\ ScanTypes /\ at \in Places /\ thread[t].begin \in Nat
         /\ converged \in BOOLEAN
         /\ thread'[t].at = at /\ thread'[t].begin = thread[t].begin
         /\ thread'[t].converged = converged
         /\ thread' \in [Threads -> ThreadRecords]
         /\ \A q \in Threads \ {t} : thread'[q] = thread[q]
         /\ Working /\ verdict = "none" /\ Working'
         /\ ~(\A q \in Threads : thread'[q].at = "wait")
         /\ Doubtful => Doubtful'
         /\ Doubtful' => Doubtful \/ ~converged
         /\ ~converged => Doubtful'
<1>0. ScanTypes /\ ScanPhases
  BY DEF ScanInv
<1>1. /\ at \in {"draw", "scan", "cut", "barrier"} /\ at \in Places
      /\ converged \in BOOLEAN /\ thread[t].begin \in Nat
      /\ thread[t].at = "scan" /\ NewThread(t, at, thread[t].begin, converged)
      /\ converged => thread[t].converged
  BY <1>0, ThreadIs DEF Leaves, Places
<1>2. Working /\ verdict = "none"
  BY <1>0, <1>1, AllAtWork
<1>3. Working' /\ ~(\A q \in Threads : thread'[q].at = "wait")
  BY <1>0, <1>1, <1>2, StillWorking
<1>4. /\ thread'[t].at = at /\ thread'[t].begin = thread[t].begin
      /\ thread'[t].converged = converged
      /\ thread' \in [Threads -> ThreadRecords]
      /\ \A q \in Threads \ {t} : thread'[q] = thread[q]
  BY <1>0, <1>1, NewThreadIs
<1>5. /\ Doubtful => Doubtful'
      /\ Doubtful' => Doubtful \/ ~converged
      /\ ~converged => Doubtful'
  BY <1>0, <1>1, DoubtStays
<1> QED
  BY <1>0, <1>1, <1>2, <1>3, <1>4, <1>5

LEMMA LeavesKeeps ==
  ASSUME ScanInv, NEW t \in Threads, NEW at, NEW converged, Leaves(t, at, converged)
  PROVE  ScanTypes' /\ ScanPhases' /\ Spread'
<1>0. ScanTypes /\ ScanPhases /\ Spread
  BY DEF ScanInv
<1>1. /\ at \in {"draw", "barrier", "cut"} /\ converged \in BOOLEAN
      /\ thread[t].at = "scan"
      /\ at = "cut" => kind = "check" /\ ~converged
      /\ at = "barrier" => count <= thread[t].begin
      /\ applied' \in [Markable -> Nat]
      /\ UNCHANGED <<bits, counter, serial, verdict, round>>
  BY DEF Leaves
<1>2. /\ thread'[t].at = at /\ thread'[t].begin = thread[t].begin
      /\ thread'[t].converged = converged
      /\ thread' \in [Threads -> ThreadRecords]
      /\ \A q \in Threads \ {t} : thread'[q] = thread[q]
      /\ Working /\ verdict = "none" /\ Working'
      /\ ~(\A q \in Threads : thread'[q].at = "wait")
      /\ Doubtful => Doubtful'
  BY LeavesMeans
<1>3. ScanTypes'
  <2>1. \A q \in Threads : thread'[q].begin % 64 = 0
    BY <1>0, <1>2 DEF ScanTypes
  <2> QED
    BY <1>0, <1>1, <1>2, <2>1 DEF ScanTypes, bits
<1>4. ScanPhases'
  <2>1. \A q \in Threads : thread'[q].at = "cut" => kind' = "check" /\ ~thread'[q].converged
    BY <1>0, <1>1, <1>2 DEF ScanPhases, bits
  <2> QED
    BY <1>1, <1>2, <2>1 DEF ScanPhases, Judged
<1>5. Spread'
  <2> SUFFICES ASSUME kind = "check" => ~Doubtful PROVE Ahead' /\ Disjoint'
    BY <1>1, <1>2 DEF Spread, bits
  <2>1. Ahead /\ Disjoint /\ count \in Nat /\ STEP_SIZE \in Nat /\ counter \in Nat
    BY <1>0, <1>2, SizesAre DEF Spread, ScanTypes
  <2>2. \A q \in Threads : thread[q].begin \in Nat
    BY <1>0, ThreadIs
  <2>3. Ahead'
    <3> SUFFICES ASSUME NEW q \in Threads
        PROVE  /\ thread'[q].at = "scan" => thread'[q].begin + STEP_SIZE <= counter'
               /\ thread'[q].at = "barrier" => count' <= counter'
      BY DEF Ahead
    <3>1. CASE q = t
      <4>1. thread[t].begin + STEP_SIZE <= counter /\ thread[t].begin \in Nat
        BY <1>1, <2>1, <2>2 DEF Ahead
      <4>2. at # "scan" /\ (at = "barrier" => count <= counter)
        BY <1>1, <2>1, <4>1
      <4> QED
        BY <1>1, <1>2, <3>1, <4>2 DEF bits
    <3>2. CASE q # t
      BY <1>1, <1>2, <2>1, <3>2 DEF Ahead, bits
    <3> QED
      BY <3>1, <3>2
  <2>4. Disjoint'
    <3> SUFFICES ASSUME NEW q \in Threads, NEW r \in Threads, q # r,
                        thread'[q].at = "scan", thread'[r].at = "scan"
        PROVE  \/ thread'[q].begin + STEP_SIZE <= thread'[r].begin
               \/ thread'[r].begin + STEP_SIZE <= thread'[q].begin
      BY DEF Disjoint
    <3>1. q # t /\ r # t
      BY <1>1, <1>2
    <3> QED
      BY <1>2, <2>1, <3>1 DEF Disjoint
  <2> QED
    BY <2>3, <2>4
<1> QED
  BY <1>3, <1>4, <1>5

LEMMA LeavesPasses ==
  ASSUME ScanInv, NEW t \in Threads, NEW at, NEW converged, Leaves(t, at, converged),
         NEW v \in Markable
  PROVE  /\ Passed(v) => Passed(v)' /\ ~Scans(t, v)
         /\ Passed(v)' => Passed(v) \/ Scans(t, v)
         /\ (kind = "check" => ~Doubtful) /\ Scans(t, v) => Passed(v)'
<1>0. ScanTypes /\ Spread /\ v \in Nat
  BY ScanAssumption DEF ScanInv
<1>1. /\ at \in Places /\ thread[t].begin \in Nat /\ converged \in BOOLEAN
      /\ Working /\ Working' /\ counter' = counter /\ at # "scan"
      /\ NewThread(t, at, thread[t].begin, converged)
  BY LeavesMeans DEF Leaves
<1>2. /\ ~Scans(t, v)'
      /\ \A q \in Threads \ {t} : Scans(q, v)' <=> Scans(q, v)
  BY <1>0, <1>1, OthersScan
<1>3. Passed(v)' <=> v < counter /\ \A q \in Threads \ {t} : ~Scans(q, v)
  BY <1>1, <1>2 DEF Passed
<1>4. Passed(v) <=> v < counter /\ \A q \in Threads : ~Scans(q, v)
  BY <1>1 DEF Passed
<1>5. ASSUME kind = "check" => ~Doubtful, Scans(t, v)
      PROVE  v < counter /\ \A q \in Threads \ {t} : ~Scans(q, v)
  <2>1. Ahead /\ Disjoint /\ counter \in Nat /\ STEP_SIZE \in Nat
    BY <1>0, <1>1, <1>5, SizesAre DEF Spread, ScanTypes
  <2>2. v < counter
    BY <1>0, <1>1, <1>5, <2>1 DEF Scans, Ahead
  <2>3. ASSUME NEW q \in Threads \ {t}, Scans(q, v) PROVE FALSE
    <3>1. thread[q].begin \in Nat
      BY <1>0, ThreadIs
    <3>2. \/ thread[q].begin + STEP_SIZE <= thread[t].begin
          \/ thread[t].begin + STEP_SIZE <= thread[q].begin
      BY <1>5, <2>1, <2>3 DEF Disjoint, Scans
    <3> QED
      BY <1>0, <1>1, <1>5, <2>1, <2>3, <3>1, <3>2 DEF Scans
  <2> QED
    BY <2>2, <2>3
<1> QED
  BY <1>3, <1>4, <1>5

LEMMA CheckKeeps ==
  ASSUME ScanInv, NEW t \in Threads, Check(t)
  PROVE  ScanInv'
<1> DEFINE found == Search(thread[t].begin, Chunk(t), Visible)
           converged == thread[t].converged /\ ~found
           at == IF converged THEN Looping(thread[t].begin) ELSE "cut"
<1>0. ScanTypes
  BY DEF ScanInv
<1>1. /\ thread[t].at = "scan" /\ kind = "check"
      /\ UNCHANGED <<bits, counter, applied, serial, verdict, round>>
      /\ thread' = [thread EXCEPT ![t].converged = converged, ![t].at = at]
  BY DEF Check
<1>2. /\ thread[t].begin \in Nat /\ thread[t].begin % 64 = 0 /\ count \in Nat
      /\ thread[t].converged \in BOOLEAN
  BY <1>0, ThreadIs, SizesAre DEF ScanTypes
<1>3. Leaves(t, at, converged)
  <2>1. NewThread(t, at, thread[t].begin, converged)
    BY <1>0, <1>1, BothIs
  <2>2. at \in {"draw", "barrier", "cut"} /\ (at = "barrier" => count <= thread[t].begin)
    BY <1>2 DEF Looping
  <2>3. at = "cut" => ~converged
    BY DEF Looping
  <2>4. applied' \in [Markable -> Nat]
    BY <1>0, <1>1 DEF ScanTypes
  <2>5. converged \in BOOLEAN
    BY Zenon
  <2> HIDE DEF at
  <2> QED
    BY <1>1, <2>1, <2>2, <2>3, <2>4, <2>5 DEF Leaves
<1> HIDE DEF converged, at
<1>4. ScanTypes' /\ ScanPhases' /\ Spread'
  BY <1>3, LeavesKeeps
<1>5. /\ Doubtful => Doubtful'
      /\ Doubtful' => Doubtful \/ ~converged
      /\ ~converged => Doubtful'
  BY <1>3, LeavesMeans
<1>6. ASSUME NEW v \in Markable PROVE OnceAt(v)' /\ FoundAt(v)'
  <2>1. OnceAt(v) /\ FoundAt(v) /\ v \in Nat
    BY ScanAssumption DEF ScanInv
  <2>2. applied[v] = 0
    BY <1>0, <1>1, <2>1 DEF OnceAt, ScanTypes
  <2>3. OnceAt(v)'
    BY <1>1, <2>2 DEF OnceAt
  <2>4. ASSUME Certain(v), Passed(v)' PROVE Doubtful'
    <3>1. CASE Passed(v)
      BY <1>1, <1>5, <2>1, <2>4, <3>1 DEF FoundAt
    <3>2. CASE Scans(t, v)
      <4>1. v \in active /\ count <= 512
        BY <1>1, <2>4 DEF Certain
      <4>2. v \in Visible /\ v < count
        BY <1>0, <4>1 DEF Visible, ScanTypes
      <4>3. /\ Chunk(t) \in Nat /\ Chunk(t) <= count /\ v <= Chunk(t)
            /\ thread[t].begin <= v
        BY <1>0, <1>2, <2>1, <3>2, <4>2, ChunkIs, SizesAre DEF Scans
      <4>4. found
        BY <1>2, <2>1, <4>1, <4>2, <4>3, SearchFinds
      <4> QED
        BY <1>5, <4>4 DEF converged
    <3> QED
      BY <1>3, <2>4, <3>1, <3>2, LeavesPasses
  <2>5. FoundAt(v)'
    BY <1>1, <2>2, <2>4 DEF FoundAt, Certain, bits
  <2> QED
    BY <2>3, <2>5
<1>7. (Doubtful => Reason)'
  <2>1. ~converged /\ thread[t].converged => active # {} \/ stray
    <3> SUFFICES ASSUME found PROVE active # {} \/ stray
      BY DEF converged
    <3>1. Visible # {}
      BY SearchSound
    <3> QED
      BY <3>1 DEF Visible
  <2>2. ~thread[t].converged => Doubtful
    BY DEF Doubtful
  <2> QED
    BY <1>1, <1>5, <2>1, <2>2 DEF ScanInv, Reason, bits
<1> QED
  BY <1>4, <1>6, <1>7 DEF ScanInv

LEMMA CutKeeps ==
  ASSUME ScanInv, NEW t \in Threads, Cut(t)
  PROVE  ScanInv'
<1> DEFINE at == Looping(thread[t].begin)
           c == thread[t].converged
<1>0. ScanTypes /\ ScanPhases
  BY DEF ScanInv
<1>1. /\ thread[t].at = "cut" /\ counter' = count
      /\ Place(t, at) /\ UNCHANGED <<bits, applied, serial, verdict, round>>
  BY DEF Cut
<1>2. kind = "check" /\ ~c /\ Doubtful
  BY <1>0, <1>1 DEF ScanPhases, Doubtful
<1>3. /\ thread[t].begin \in Nat /\ thread[t].begin % 64 = 0 /\ c \in BOOLEAN
      /\ count \in Nat /\ count % 64 = 0
  BY <1>0, ThreadIs, SizesAre DEF ScanTypes
<1>4. at \in {"draw", "barrier"} /\ at \in Places
  BY DEF Looping, Places
<1>5. NewThread(t, at, thread[t].begin, c)
  BY <1>0, <1>1, PlaceIs
<1> HIDE DEF at
<1>6. /\ thread' \in [Threads -> ThreadRecords]
      /\ thread'[t].at = at /\ thread'[t].begin = thread[t].begin /\ thread'[t].converged = c
      /\ \A q \in Threads \ {t} : thread'[q] = thread[q]
  BY <1>0, <1>3, <1>4, <1>5, NewThreadIs
<1>7. Doubtful'
  BY <1>2, <1>6 DEF Doubtful
<1>8. /\ Working /\ verdict = "none" /\ Working'
      /\ ~(\A q \in Threads : thread'[q].at = "wait")
  BY <1>0, <1>1, <1>3, <1>4, <1>5, AllAtWork, StillWorking
<1>9. ScanTypes'
  <2>1. \A q \in Threads : thread'[q].begin % 64 = 0
    BY <1>0, <1>3, <1>6 DEF ScanTypes
  <2> QED
    BY <1>0, <1>1, <1>3, <1>6, <2>1 DEF ScanTypes, bits
<1>10. ScanPhases'
  <2>1. \A q \in Threads : thread'[q].at = "cut" => kind' = "check" /\ ~thread'[q].converged
    BY <1>0, <1>1, <1>4, <1>6 DEF ScanPhases, bits
  <2> QED
    BY <1>1, <1>8, <2>1 DEF ScanPhases, Judged
<1>11. Spread'
  BY <1>1, <1>2, <1>7 DEF Spread, bits
<1>12. ASSUME NEW v \in Markable PROVE OnceAt(v)' /\ FoundAt(v)'
  <2>1. OnceAt(v)
    BY DEF ScanInv
  <2>2. applied[v] = 0
    BY <1>0, <1>2, <2>1 DEF OnceAt, ScanTypes
  <2> QED
    BY <1>1, <1>2, <1>7, <2>2 DEF OnceAt, FoundAt, bits
<1>13. (Doubtful => Reason)'
  BY <1>1, <1>2 DEF ScanInv, Reason, bits
<1> QED
  BY <1>9, <1>10, <1>11, <1>12, <1>13 DEF ScanInv

(* The vertices that apply is called for are of the chunk in hand, all of   *)
(* it unless changes are tracked, and then of a small array all that have   *)
(* changed.                                                                 *)
Applies(t) ==
  IF kind = "apply" THEN Applicable(thread[t].begin, Chunk(t), active)
  ELSE {v \in Markable : v < count} \intersect (thread[t].begin .. Chunk(t) - 1)

LEMMA AppliesAre ==
  ASSUME ScanTypes, NEW t \in Threads, thread[t].at = "scan", kind # "check",
         NEW v \in Markable
  PROVE  /\ v \in Applies(t) => Scans(t, v) /\ (kind = "apply" => v \in active)
         /\ Certain(v) /\ Scans(t, v) => v \in Applies(t)
<1>1. v \in Nat /\ thread[t].begin \in Nat /\ thread[t].begin % 64 = 0
  BY ThreadIs, ScanAssumption
<1>2. thread[t].begin % 8 = 0
  BY <1>1
<1>3. /\ Chunk(t) \in Nat /\ count \in Nat /\ STEP_SIZE \in Nat
      /\ Chunk(t) <= count /\ Chunk(t) <= thread[t].begin + STEP_SIZE
      /\ \A w \in Nat : w < count /\ w < thread[t].begin + STEP_SIZE => w < Chunk(t)
  <2>1. count \in Nat /\ STEP_SIZE \in Nat
    BY SizesAre DEF ScanTypes
  <2> QED
    BY <1>1, <2>1, ChunkIs
<1>4. v \in active => v < count
  BY DEF ScanTypes
<1>5. CASE kind = "apply"
  <2>1. Applies(t) = Applicable(thread[t].begin, Chunk(t), active)
    BY <1>5 DEF Applies
  <2>2. ASSUME v \in Applies(t) PROVE Scans(t, v) /\ v \in active
    <3>1. v \in active /\ thread[t].begin <= v /\ v < Chunk(t)
      BY <1>1, <1>2, <1>3, <2>1, <2>2, ApplicableIn
    <3> QED
      BY <1>1, <1>3, <3>1 DEF Scans
  <2>3. ASSUME Certain(v), Scans(t, v) PROVE v \in Applies(t)
    <3>1. count <= 64 /\ v \in active
      BY <1>5, <2>3 DEF Certain
    <3>2. Chunk(t) <= 64 /\ thread[t].begin <= v /\ v < Chunk(t)
      BY <1>1, <1>3, <1>4, <2>3, <3>1 DEF Scans
    <3> QED
      BY <1>1, <1>3, <2>1, <3>1, <3>2, ApplicableAll
  <2> QED
    BY <2>2, <2>3
<1>6. CASE kind # "apply"
  <2>1. Applies(t) = {w \in Markable : w < count} \intersect (thread[t].begin .. Chunk(t) - 1)
    BY <1>6 DEF Applies
  <2>2. v \in Applies(t) <=> v < count /\ thread[t].begin <= v /\ v < Chunk(t)
    BY <1>1, <1>3, <2>1
  <2>3. Scans(t, v) <=> thread[t].begin <= v /\ v < thread[t].begin + STEP_SIZE
    BY DEF Scans
  <2>4. Certain(v) => v < count
    BY <1>4 DEF Certain
  <2> QED
    BY <1>1, <1>3, <1>6, <2>2, <2>3, <2>4
<1> QED
  BY <1>5, <1>6

LEMMA ApplyKeeps ==
  ASSUME ScanInv, NEW t \in Threads, Apply(t)
  PROVE  ScanInv'
<1> DEFINE chosen == Applies(t)
           converged == thread[t].converged /\ chosen \intersect moving = {}
           at == Looping(thread[t].begin)
<1>0. ScanTypes
  BY DEF ScanInv
<1>1. /\ thread[t].at = "scan" /\ kind # "check"
      /\ UNCHANGED <<bits, counter, serial, verdict, round>>
      /\ applied' = [v \in Markable |-> applied[v] + IF v \in chosen THEN 1 ELSE 0]
      /\ thread' = [thread EXCEPT ![t].converged = @ /\ chosen \intersect moving = {},
                                  ![t].at = at]
  BY DEF Apply, Applies
<1>2. /\ thread[t].begin \in Nat /\ count \in Nat /\ thread[t].converged \in BOOLEAN
  BY <1>0, ThreadIs, SizesAre DEF ScanTypes
<1>3. Leaves(t, at, converged)
  <2>0. thread' = [thread EXCEPT ![t].converged = converged, ![t].at = at]
    BY <1>1
  <2>1. NewThread(t, at, thread[t].begin, converged)
    BY <1>0, <2>0, BothIs
  <2>2. at \in {"draw", "barrier"} /\ (at = "barrier" => count <= thread[t].begin)
    BY <1>2 DEF Looping
  <2>3. applied' \in [Markable -> Nat]
    <3> HIDE DEF chosen
    <3>1. \A v \in Markable : applied[v] + (IF v \in chosen THEN 1 ELSE 0) \in Nat
      <4>1. \A v \in Markable : applied[v] \in Nat
        BY <1>0 DEF ScanTypes
      <4> QED
        BY <4>1
    <3> QED
      BY <1>1, <3>1
  <2>4. converged \in BOOLEAN /\ (converged => thread[t].converged)
    BY Zenon
  <2> HIDE DEF at, converged
  <2> QED
    BY <1>1, <2>1, <2>2, <2>3, <2>4 DEF Leaves
<1>4. ScanTypes' /\ ScanPhases' /\ Spread'
  BY <1>3, LeavesKeeps
<1>5. /\ Doubtful => Doubtful'
      /\ Doubtful' => Doubtful \/ ~converged
      /\ ~converged => Doubtful'
  <2> HIDE DEF converged, at
  <2> QED
    BY <1>3, LeavesMeans
<1>6. ASSUME NEW v \in Markable PROVE OnceAt(v)' /\ FoundAt(v)'
  <2>1. OnceAt(v) /\ FoundAt(v) /\ applied[v] \in Nat
    BY <1>0 DEF ScanInv, ScanTypes
  <2>2. /\ Passed(v) => Passed(v)' /\ ~Scans(t, v)
        /\ Passed(v)' => Passed(v) \/ Scans(t, v)
        /\ Scans(t, v) => Passed(v)'
    <3> HIDE DEF converged, at
    <3> QED
      BY <1>1, <1>3, LeavesPasses
  <2>3. /\ v \in chosen => Scans(t, v) /\ (kind = "apply" => v \in active)
        /\ Certain(v) /\ Scans(t, v) => v \in chosen
    BY <1>0, <1>1, AppliesAre
  <2>4. applied'[v] = IF v \in chosen THEN applied[v] + 1 ELSE applied[v]
    BY <1>1, <2>1
  <2>5. v \in chosen /\ v \in moving => Doubtful'
    BY <1>5
  <2> HIDE DEF chosen
  <2>6. v \in chosen => applied[v] = 0 /\ Passed(v)'
    BY <2>1, <2>2, <2>3 DEF OnceAt
  <2>7. OnceAt(v)'
    BY <1>1, <2>1, <2>2, <2>3, <2>4, <2>6 DEF OnceAt, bits
  <2>8. Certain(v) /\ Passed(v)' => applied'[v] = 1
    <3>1. CASE v \in chosen
      BY <2>4, <2>6, <3>1
    <3>2. CASE v \notin chosen
      BY <1>1, <2>1, <2>2, <2>3, <2>4, <3>2 DEF FoundAt
    <3> QED
      BY <3>1, <3>2
  <2>9. applied'[v] > 0 /\ v \in moving => Doubtful'
    BY <1>5, <2>1, <2>4, <2>5 DEF FoundAt
  <2>10. FoundAt(v)'
    BY <1>1, <2>8, <2>9 DEF FoundAt, Certain, bits
  <2> QED
    BY <2>7, <2>10
<1>7. (Doubtful => Reason)'
  <2>1. ~converged => moving # {} \/ Doubtful
    BY DEF Doubtful
  <2> HIDE DEF converged
  <2> QED
    BY <1>1, <1>5, <2>1 DEF ScanInv, Reason, bits
<1> QED
  BY <1>4, <1>6, <1>7 DEF ScanInv

LEMMA ZeroWords == 0 \in Nat /\ 0 % 64 = 0
OBVIOUS

\* At the barrier every vertex of the array is in a chunk that was scanned.
LEMMA MeetKeeps ==
  ASSUME ScanInv, Meet
  PROVE  ScanInv'
<1>0. ScanTypes /\ ScanPhases /\ Spread
  BY DEF ScanInv
<1>1. PICK s \in Threads \cup {Main} :
        /\ thread' = [t \in Threads |->
             [thread[t] EXCEPT !.at = IF t = s THEN "reset" ELSE "wait"]]
        /\ counter' = IF s = Main THEN 0 ELSE counter
  BY DEF Meet
<1>2. /\ \A t \in Threads : thread[t].at = "barrier"
      /\ UNCHANGED <<bits, applied, verdict, round>>
  BY DEF Meet
<1>3. \A t \in Threads :
        /\ thread'[t].at = (IF t = s THEN "reset" ELSE "wait")
        /\ thread'[t].begin = thread[t].begin
        /\ thread'[t].converged = thread[t].converged
        /\ thread'[t] \in ThreadRecords
  <2> TAKE t \in Threads
  <2>1. PICK at \in Places, begin \in Nat, converged \in BOOLEAN :
          thread[t] = [at |-> at, begin |-> begin, converged |-> converged]
    <3>1. thread[t] \in ThreadRecords
      BY <1>0, ThreadIs
    <3> QED
      BY <3>1 DEF ThreadRecords
  <2>2. PICK place \in {"reset", "wait"} : place = IF t = s THEN "reset" ELSE "wait"
    OBVIOUS
  <2>3. thread'[t] = [thread[t] EXCEPT !.at = place]
    BY <1>1, <2>2
  <2>4. thread'[t] = [at |-> place, begin |-> begin, converged |-> converged]
    BY <2>1, <2>3
  <2>5. place \in Places
    BY <2>2 DEF Places
  <2> QED
    BY <2>1, <2>2, <2>4, <2>5 DEF ThreadRecords
<1>4. Doubtful' <=> Doubtful
  BY <1>3 DEF Doubtful
<1>5. PICK first \in Threads : TRUE
  BY ScanAssumption
<1>6. Working /\ verdict = "none" /\ Over' /\ ~Working'
  <2>1. Working
    BY <1>2 DEF Working
  <2>2. verdict = "none"
    BY <1>0, <1>2, <1>5, AllAtWork
  <2>3. Over' /\ ~Working'
    BY <1>3, <1>5 DEF Over, Working
  <2> QED
    BY <2>1, <2>2, <2>3
<1>7. ScanTypes'
  <2>1. thread' \in [Threads -> ThreadRecords]
    BY <1>1, <1>3
  <2>2. \A t \in Threads : thread'[t].begin % 64 = 0
    BY <1>0, <1>3 DEF ScanTypes
  <2>3. counter' \in Nat /\ counter' % 64 = 0
    BY <1>0, <1>1, ZeroWords DEF ScanTypes
  <2> QED
    BY <1>0, <1>2, <2>1, <2>2, <2>3 DEF ScanTypes, bits
<1>8. ScanPhases'
  <2>1. (\A t \in Threads : thread'[t].at = "wait") => counter' = 0
    BY <1>1, <1>3
  <2>2. \A t \in Threads : thread'[t].at # "cut"
    BY <1>3
  <2> QED
    BY <1>2, <1>6, <2>1, <2>2 DEF ScanPhases, Judged
<1>9. Spread'
  BY <1>6 DEF Spread
<1>10. ASSUME NEW v \in Markable PROVE OnceAt(v)' /\ FoundAt(v)'
  <2>1. OnceAt(v) /\ FoundAt(v) /\ v \in Nat
    BY ScanAssumption DEF ScanInv
  <2>2. Passed(v)'
    BY <1>6 DEF Passed
  <2>3. OnceAt(v)'
    BY <1>2, <2>1, <2>2 DEF OnceAt, bits
  <2>4. Certain(v) => IF kind = "check" THEN Doubtful ELSE applied[v] = 1
    <3> SUFFICES ASSUME Certain(v), kind = "check" => ~Doubtful
                 PROVE  IF kind = "check" THEN Doubtful ELSE applied[v] = 1
        OBVIOUS
    <3>1. v < count /\ count \in Nat
      BY <1>0, SizesAre DEF Certain, ScanTypes
    <3>2. count <= counter /\ counter \in Nat
      BY <1>0, <1>2, <1>5, <1>6 DEF Spread, Ahead, ScanTypes
    <3>3. \A t \in Threads : ~Scans(t, v)
      BY <1>2 DEF Scans
    <3>4. Passed(v)
      BY <2>1, <3>1, <3>2, <3>3 DEF Passed
    <3> QED
      BY <2>1, <3>4 DEF FoundAt
  <2>5. FoundAt(v)'
    BY <1>2, <1>4, <2>1, <2>4 DEF FoundAt, Certain, bits
  <2> QED
    BY <2>3, <2>5
<1>11. (Doubtful => Reason)'
  BY <1>2, <1>4 DEF ScanInv, Reason, bits
<1> QED
  BY <1>7, <1>8, <1>9, <1>10, <1>11 DEF ScanInv

LEMMA ResetKeeps ==
  ASSUME ScanInv, NEW t \in Threads, Reset(t)
  PROVE  ScanInv'
<1>0. ScanTypes /\ ScanPhases
  BY DEF ScanInv
<1>1. /\ thread[t].at = "reset" /\ counter' = 0 /\ Place(t, "wait")
      /\ UNCHANGED <<bits, applied, serial, verdict, round>>
  BY DEF Reset
<1>2. /\ thread[t].begin \in Nat /\ thread[t].converged \in BOOLEAN /\ "wait" \in Places
      /\ NewThread(t, "wait", thread[t].begin, thread[t].converged)
  BY <1>0, <1>1, ThreadIs, PlaceIs DEF Places
<1>3. /\ thread' \in [Threads -> ThreadRecords]
      /\ thread'[t].at = "wait" /\ thread'[t].begin = thread[t].begin
      /\ thread'[t].converged = thread[t].converged
      /\ \A q \in Threads \ {t} : thread'[q] = thread[q]
  BY <1>0, <1>2, NewThreadIs
<1>4. Doubtful' <=> Doubtful
  BY <1>3 DEF Doubtful
<1>5. Over /\ ~Working /\ Over' /\ ~Working'
  <2>1. ~Working /\ Over
    BY <1>0, <1>1 DEF ScanPhases, Working
  <2> QED
    BY <1>3, <2>1 DEF Over, Working
<1>6. ScanTypes'
  <2>1. \A q \in Threads : thread'[q].begin % 64 = 0
    BY <1>0, <1>3 DEF ScanTypes
  <2> QED
    BY <1>0, <1>1, <1>3, <2>1, ZeroWords DEF ScanTypes, bits
<1>7. ScanPhases'
  <2>1. \A q \in Threads : thread'[q].at # "cut"
    BY <1>5 DEF Over
  <2> QED
    BY <1>0, <1>1, <1>4, <1>5, <2>1 DEF ScanPhases, Judged
<1>8. Spread'
  BY <1>5 DEF Spread
<1>9. ASSUME NEW v \in Markable PROVE OnceAt(v)' /\ FoundAt(v)'
  <2>1. OnceAt(v) /\ FoundAt(v)
    BY DEF ScanInv
  <2>2. Passed(v) /\ Passed(v)'
    BY <1>5 DEF Passed
  <2> QED
    BY <1>1, <1>4, <2>1, <2>2 DEF OnceAt, FoundAt, Certain, bits
<1>10. (Doubtful => Reason)'
  BY <1>1, <1>4 DEF ScanInv, Reason, bits
<1> QED
  BY <1>6, <1>7, <1>8, <1>9, <1>10 DEF ScanInv

LEMMA JudgeKeeps ==
  ASSUME ScanInv, Judge
  PROVE  ScanInv'
<1>1. /\ Over /\ verdict' = IF Doubtful THEN "active" ELSE "converged"
      /\ UNCHANGED <<bits, counter, thread, applied, serial, round>>
  BY DEF Judge, Doubtful
<1>2. ScanTypes /\ ScanPhases /\ Spread
  BY DEF ScanInv
<1>3. ScanTypes'
  BY <1>1, <1>2 DEF ScanTypes, bits
<1>4. ScanPhases'
  BY <1>1, <1>2 DEF ScanPhases, Over, Working, Doubtful, Judged, bits
<1>5. Spread'
  BY <1>1, <1>2 DEF Spread, Ahead, Disjoint, Working, Doubtful, bits
<1>6. ASSUME NEW v \in Markable PROVE OnceAt(v)' /\ FoundAt(v)'
  BY <1>1 DEF ScanInv, OnceAt, FoundAt, Certain, Passed, Working, Scans, Doubtful, bits
<1>7. (Doubtful => Reason)'
  BY <1>1 DEF ScanInv, Reason, Doubtful, bits
<1> QED
  BY <1>3, <1>4, <1>5, <1>6, <1>7 DEF ScanInv

LEMMA InputsAre ==
  ASSUME NEW in \in Inputs
  PROVE  /\ in.active \in SUBSET {v \in Markable : v < count}
         /\ in.stray \in BOOLEAN /\ in.moving \in SUBSET in.active
<1> DEFINE strays == IF kind = "check" THEN BOOLEAN ELSE {FALSE}
           moves == IF kind # "check" THEN BOOLEAN ELSE {FALSE}
<1>1. strays \subseteq BOOLEAN
  BY Zenon
<1>2. Inputs = {[active |-> a, stray |-> s, moving |-> IF m THEN a ELSE {}] :
                  a \in SUBSET {v \in Markable : v < count}, s \in strays, m \in moves}
  BY DEF Inputs
<1> HIDE DEF strays, moves
<1>3. PICK a \in SUBSET {v \in Markable : v < count}, s \in strays, m \in moves :
        in = [active |-> a, stray |-> s, moving |-> IF m THEN a ELSE {}]
  BY <1>2
<1> QED
  BY <1>1, <1>3

(* At the start of an iteration, the first or another, nothing is drawn.    *)
Begun ==
  /\ kind \in {"check", "apply", "apply all"} /\ count \in Counts
  /\ active \in SUBSET {v \in Markable : v < count}
  /\ stray \in BOOLEAN /\ moving \in SUBSET active
  /\ counter = 0 /\ thread = Fresh /\ applied = [v \in Markable |-> 0]
  /\ verdict = "none" /\ round \in Nat

LEMMA BegunHolds == Begun => ScanInv
<1> SUFFICES ASSUME Begun PROVE ScanInv
    OBVIOUS
<1>1. \A t \in Threads : /\ thread[t].at = "draw" /\ thread[t].begin = 0
                         /\ thread[t].converged = TRUE /\ thread[t] \in ThreadRecords
  BY DEF Begun, Fresh, ThreadRecords, Places
<1>2. Working /\ ~Doubtful
  BY <1>1 DEF Working, Doubtful
<1>3. ScanTypes
  <2>1. thread \in [Threads -> ThreadRecords]
    BY <1>1 DEF Begun, Fresh
  <2> QED
    BY <1>1, <2>1, ZeroWords DEF ScanTypes, Begun
<1>4. ScanPhases
  BY <1>1, <1>2 DEF ScanPhases, Begun, Judged
<1>5. Spread
  BY <1>1 DEF Spread, Ahead, Disjoint
<1>6. ASSUME NEW v \in Markable PROVE OnceAt(v) /\ FoundAt(v)
  <2>0. v \in Nat /\ counter = 0 /\ applied = [w \in Markable |-> 0]
    BY ScanAssumption DEF Begun
  <2>1. v \in Nat /\ ~Passed(v) /\ applied[v] = 0
    BY <1>2, <2>0 DEF Passed
  <2> QED
    BY <2>1 DEF OnceAt, FoundAt
<1> QED
  BY <1>2, <1>3, <1>4, <1>5, <1>6 DEF ScanInv

LEMMA InitBegins == ScanInit => Begun
<1> SUFFICES ASSUME ScanInit PROVE Begun
    OBVIOUS
<1>1. kind \in {"check", "apply", "apply all"}
  BY ScanAssumption DEF ScanInit
<1>2. PICK in \in Inputs : active = in.active /\ stray = in.stray /\ moving = in.moving
  BY DEF ScanInit
<1>3. in.active \in SUBSET {v \in Markable : v < count} /\ in.stray \in BOOLEAN
      /\ in.moving \in SUBSET in.active
  BY InputsAre
<1> QED
  BY <1>1, <1>2, <1>3 DEF ScanInit, Begun

LEMMA NextRoundBegins == ScanInv /\ NextRound => Begun'
<1> SUFFICES ASSUME ScanInv, NextRound PROVE Begun'
    OBVIOUS
<1>1. ScanTypes /\ ScanPhases
  BY DEF ScanInv
<1>2. /\ \A t \in Threads : thread[t].at = "wait"
      /\ \E in \in Inputs : active' = in.active /\ stray' = in.stray /\ moving' = in.moving
      /\ thread' = Fresh /\ applied' = [v \in Markable |-> 0]
      /\ verdict' = "none" /\ round' = round + 1
      /\ UNCHANGED <<kind, count, counter, serial>>
  BY DEF NextRound, NextRoundWith
<1>3. counter = 0 /\ round \in Nat
  BY <1>1, <1>2 DEF ScanPhases, ScanTypes
<1>4. PICK in \in Inputs : active' = in.active /\ stray' = in.stray /\ moving' = in.moving
  BY <1>2
<1>5. /\ in.active \in SUBSET {v \in Markable : v < count} /\ in.stray \in BOOLEAN
      /\ in.moving \in SUBSET in.active
  BY InputsAre
<1>6. thread' = Fresh'
  BY <1>2 DEF Fresh
<1>7. round' \in Nat
  BY <1>2, <1>3
<1> QED
  BY <1>1, <1>2, <1>3, <1>4, <1>6, <1>7, <1>5 DEF Begun, ScanTypes

LEMMA ScanStutters ==
  ASSUME ScanInv, UNCHANGED scanVars
  PROVE  ScanInv'
<1>1. UNCHANGED <<bits, counter, thread, applied, serial, verdict, round>>
  BY DEF scanVars
<1>2. ScanTypes'
  BY <1>1 DEF ScanInv, ScanTypes, bits
<1>3. ScanPhases'
  BY <1>1 DEF ScanInv, ScanPhases, Over, Working, Doubtful, Judged, bits
<1>4. Spread'
  BY <1>1 DEF ScanInv, Spread, Ahead, Disjoint, Working, Doubtful, bits
<1>5. ASSUME NEW v \in Markable PROVE OnceAt(v)' /\ FoundAt(v)'
  BY <1>1 DEF ScanInv, OnceAt, FoundAt, Certain, Passed, Working, Scans, Doubtful, bits
<1>6. (Doubtful => Reason)'
  BY <1>1 DEF ScanInv, Reason, Doubtful, bits
<1> QED
  BY <1>2, <1>3, <1>4, <1>5, <1>6 DEF ScanInv

(* The invariant of the scans, in every iteration.                          *)
THEOREM ScanInvariant == ScanSpec => []ScanInv
<1>1. ScanInit => ScanInv
  BY InitBegins, BegunHolds
<1>2. Begun' => ScanInv'
  BY BegunHolds, PTL
<1>3. ScanInv /\ [ScanNext]_scanVars => ScanInv'
  <2> SUFFICES ASSUME ScanInv, [ScanNext]_scanVars PROVE ScanInv'
      OBVIOUS
  <2>1. ASSUME NEW t \in Threads, ThreadStep(t) PROVE ScanInv'
    BY <2>1, DrawKeeps, CheckKeeps, CutKeeps, ApplyKeeps, ResetKeeps DEF ThreadStep
  <2>2. CASE Meet
    BY <2>2, MeetKeeps
  <2>3. CASE Judge
    BY <2>3, JudgeKeeps
  <2>4. CASE NextRound
    BY <1>2, <2>4, NextRoundBegins
  <2>5. CASE UNCHANGED scanVars
    BY <2>5, ScanStutters
  <2> QED
    BY <2>1, <2>2, <2>3, <2>4, <2>5 DEF ScanNext, End
<1> QED
  BY <1>1, <1>3, PTL DEF ScanSpec

(* A verdict against convergence has a reason, and apply is called only for *)
(* vertices that have changed if the algorithm tracks them.                 *)
THEOREM AlarmsHaveReasons == ScanSpec => []NoFalseAlarm
<1>1. ScanInv => NoFalseAlarm
  BY DEF ScanInv, ScanPhases, Reason, OnceAt, NoFalseAlarm
<1> QED
  BY ScanInvariant, <1>1, PTL

(* However the threads share out the chunks, each vertex is applied once.   *)
THEOREM EachAppliedOnce == ScanSpec => []AppliedOnce
<1>1. ScanInv => AppliedOnce
  <2> SUFFICES ASSUME ScanInv, NEW v \in Markable
               PROVE  /\ applied[v] <= 1
                      /\ Judged /\ kind = "apply all" /\ v < count => applied[v] = 1
    BY DEF AppliedOnce
  <2>1. OnceAt(v) /\ FoundAt(v) /\ ScanPhases
    BY DEF ScanInv
  <2>2. Judged => Passed(v)
    BY <2>1, ScanAssumption DEF ScanPhases, Judged, Passed, Working, Over
  <2> QED
    BY <2>1, <2>2 DEF OnceAt, FoundAt, Certain
<1> QED
  BY ScanInvariant, <1>1, PTL

(* Arrays too small for a step of eight bytes are scanned without a gap.    *)
THEOREM SmallIsExact == ScanSpec => []ExactWhenSmall
<1>1. ScanInv => ExactWhenSmall
  <2> SUFFICES ASSUME ScanInv PROVE ExactWhenSmall
      OBVIOUS
  <2>0. ScanTypes /\ ScanPhases
    BY DEF ScanInv
  <2>1. ASSUME NEW v \in active PROVE v \in Markable /\ v \in Nat /\ v < count
    BY <2>0, ScanAssumption DEF ScanTypes
  <2>2. ASSUME NEW v \in active, Judged PROVE OnceAt(v) /\ FoundAt(v) /\ Passed(v)
    <3>1. Passed(v)
      BY <2>0, <2>2, ScanAssumption DEF ScanPhases, Judged, Passed, Working, Over
    <3> QED
      BY <2>1, <3>1 DEF ScanInv
  <2>3. ASSUME Judged, kind = "check", count <= 512, active # {}
        PROVE  verdict = "active"
    <3>1. PICK v \in active : TRUE
      BY <2>3
    <3> QED
      BY <2>0, <2>2, <2>3, <3>1 DEF FoundAt, Certain, ScanPhases
  <2>4. ASSUME Judged, kind = "apply", count <= 64
        PROVE  /\ \A v \in active : applied[v] = 1
               /\ verdict = "converged" <=> moving = {}
    <3>1. \A v \in active : applied[v] = 1
      BY <2>2, <2>4 DEF FoundAt, Certain
    <3>2. ASSUME NEW v \in moving PROVE Doubtful
      <4>1. v \in active
        BY <2>0 DEF ScanTypes
      <4> QED
        BY <2>2, <2>4, <3>1, <3>2, <4>1 DEF FoundAt
    <3>3. Doubtful <=> moving # {}
      BY <2>4, <3>2 DEF ScanInv, Reason
    <3> QED
      BY <2>0, <2>4, <3>1, <3>3 DEF ScanPhases
  <2>5. ASSUME count <= 512 PROVE TileActive(count) <=> active # {}
    <3>1. ASSUME NEW v \in active PROVE Search(0, count - 1, active)
      <4>1. count \in Nat
        BY <2>0, SizesAre DEF ScanTypes
      <4> QED
        BY <2>1, <2>5, <4>1, SearchFinds
    <3> QED
      BY <3>1, SearchSound DEF TileActive
  <2> QED
    BY <2>3, <2>4, <2>5 DEF ExactWhenSmall
<1> QED
  BY ScanInvariant, <1>1, PTL
=================================================================================
