--------------------------- MODULE RingBufferProofs ---------------------------
(***************************************************************************)
(* Proofs about the ring buffer: first about RingBuffer, for every size of *)
(* the buffer, every set of request sizes, every alignment and both        *)
(* disciplines of use; then about Combining, for any threads, blocking or  *)
(* not, any number of calls and any max_combining.                         *)
(***************************************************************************)
EXTENDS RingBufferInvariant, Combining, SequenceTheorems, FiniteSetTheorems, TLAPS

-------------------------------------------------------------------------------
(* Arithmetic of offsets and positions. *)

LEMMA Division ==
  ASSUME NEW a \in Nat
  PROVE  /\ a = (Size * (a \div Size)) + (a % Size)
         /\ (a \div Size) \in Nat
         /\ (a % Size) \in Pos
BY SizeAssumption DEF Pos

LEMMA NextMultiple ==
  ASSUME NEW p \in Int, NEW q \in Int, p < q
  PROVE  (Size * p) + Size <= Size * q
BY SizeAssumption

(* Two offsets less than Size apart are at the same position only if they  *)
(* are equal.                                                              *)
LEMMA IxInjective ==
  ASSUME NEW a \in Nat, NEW b \in Nat, a <= b, b < a + Size, Ix(a) = Ix(b)
  PROVE  a = b
<1> DEFINE qa == a \div Size
           qb == b \div Size
           r == a % Size
<1>1. /\ a = (Size * qa) + r
      /\ b = (Size * qb) + r
      /\ qa \in Nat /\ qb \in Nat /\ r \in Pos
  BY Division DEF Ix
<1>2. (Size * qa) \in Int /\ (Size * qb) \in Int
  BY <1>1, SizeAssumption
<1>3. ~(qa < qb)
  BY <1>1, <1>2, NextMultiple, SizeAssumption DEF Pos
<1>4. ~(qb < qa)
  BY <1>1, <1>2, NextMultiple, SizeAssumption DEF Pos
<1> QED BY <1>1, <1>3, <1>4

LEMMA IxType == ASSUME NEW a \in Nat PROVE Ix(a) \in Pos
BY Division DEF Ix

(* free_space_size computes the room between head and tail2. *)
LEMMA GapIsRoom ==
  ASSUME NEW a \in Nat, NEW b \in Nat, a <= b, b < a + Size
  PROVE  Gap(b, a) = Size - (b - a)
<1> DEFINE qa == a \div Size
           qb == b \div Size
           ra == a % Size
           rb == b % Size
<1>1. /\ a = (Size * qa) + ra /\ b = (Size * qb) + rb
      /\ qa \in Nat /\ qb \in Nat
      /\ ra \in Pos /\ rb \in Pos
  BY Division
<1>2. /\ (Size * qa) \in Int /\ (Size * qb) \in Int
      /\ Size * (qa + 1) = (Size * qa) + Size
  BY <1>1, SizeAssumption
<1>3. ~(qb < qa)
  BY <1>1, <1>2, NextMultiple, SizeAssumption DEF Pos
<1>4. ~(qa + 1 < qb)
  BY <1>1, <1>2, NextMultiple, SizeAssumption DEF Pos
<1>5. CASE qa = qb
  <2>0. Size * qa = Size * qb
    BY <1>5
  <2>1. b - a = rb - ra
    BY <2>0, <1>1, <1>2, SizeAssumption DEF Pos
  <2>2. rb >= ra
    BY <2>1, <1>1, SizeAssumption DEF Pos
  <2> QED BY <2>1, <2>2, <1>1, SizeAssumption DEF Gap, Ix, Pos
<1>6. CASE qb = qa + 1
  <2>1. b - a = Size + (rb - ra)
    BY <1>6, <1>1, <1>2, SizeAssumption DEF Pos
  <2>2. rb < ra
    BY <2>1, <1>1, SizeAssumption DEF Pos
  <2> QED BY <2>1, <2>2, <1>1, SizeAssumption DEF Gap, Ix, Pos
<1> QED BY <1>1, <1>3, <1>4, <1>5, <1>6

LEMMA RoomPositive ==
  ASSUME NEW n \in Int, n * Align > HeaderBytes
  PROVE  n >= 1
<1>1. n <= 0 => n * Align <= 0
  BY AlignAssumption
<1> QED BY <1>1, AlignAssumption DEF HeaderBytes

LEMMA RoomMonotone ==
  ASSUME NEW m \in Int, NEW n \in Int, m <= n, m * Align > HeaderBytes
  PROVE  n * Align > HeaderBytes
<1>1. (n - m) * Align >= 0
  BY AlignAssumption
<1>2. n * Align = m * Align + (n - m) * Align
  BY AlignAssumption
<1> QED BY <1>1, <1>2, AlignAssumption DEF HeaderBytes

(* A put that finds room leaves room: the check in bytes, with its header  *)
(* and its extra byte, keeps head from ever reaching tail2 from behind.    *)
LEMMA FitsLeavesRoom ==
  ASSUME NEW h \in Nat, NEW t2 \in Nat, NEW sz \in Nat, t2 <= h,
         (Size - (h - t2)) * Align > HeaderBytes,
         Fits(sz, h, t2)
  PROVE  (Size - ((h + sz) - t2)) * Align > HeaderBytes
<1> DEFINE g == Size - (h - t2)
<1>1. g \in Int /\ g >= 1
  BY RoomPositive, SizeAssumption
<1>2. Gap(h, t2) = g
  BY <1>1, GapIsRoom, SizeAssumption
<1>3. FreeSpace(h, t2) >= 0
  BY <1>2, <1>1, AlignAssumption DEF FreeSpace, HeaderBytes
<1>4. sz * Align <= g * Align - HeaderBytes - 1
  BY <1>2, <1>3, <1>1, AlignAssumption DEF Fits, FreeSpace, HeaderBytes
<1>5. (g - sz) * Align = g * Align - sz * Align
  BY <1>1, AlignAssumption
<1>6. Size - ((h + sz) - t2) = g - sz
  BY SizeAssumption
<1> QED BY <1>1, <1>4, <1>5, <1>6, AlignAssumption DEF HeaderBytes
-------------------------------------------------------------------------------
(* The three ways the sequence of elements changes. *)

LEMMA WithPhaseType ==
  ASSUME NEW x \in Element, NEW p \in Phases
  PROVE  /\ WithPhase(x, p) \in Element
         /\ WithPhase(x, p).off = x.off
         /\ WithPhase(x, p).size = x.size
         /\ WithPhase(x, p).phase = p
BY DEF WithPhase, Element

LEMMA OnePhaseChanges ==
  ASSUME NEW s \in Seq(Element), NEW i \in DOMAIN s, NEW p \in Phases
  PROVE  LET t == [s EXCEPT ![i] = WithPhase(s[i], p)]
         IN  /\ t \in Seq(Element)
             /\ DOMAIN t = DOMAIN s /\ Len(t) = Len(s)
             /\ \A j \in DOMAIN s :
                  t[j] = IF j = i THEN WithPhase(s[j], p) ELSE s[j]
<1>1. s[i] \in Element /\ i \in 1 .. Len(s) /\ DOMAIN s = 1 .. Len(s)
  BY ElementOfSeq, LenProperties
<1>2. WithPhase(s[i], p) \in Element
  BY <1>1, WithPhaseType
<1> QED BY <1>1, <1>2, ExceptSeq, LenProperties

LEMMA GotAtOffset ==
  ASSUME NEW s \in Seq(Element), NEW o \in Nat
  PROVE  LET t == [i \in DOMAIN s |->
                     IF s[i].off = o THEN WithPhase(s[i], "got") ELSE s[i]]
         IN  /\ t \in Seq(Element)
             /\ DOMAIN t = DOMAIN s /\ Len(t) = Len(s)
             /\ \A j \in DOMAIN s :
                  t[j] = IF s[j].off = o THEN WithPhase(s[j], "got") ELSE s[j]
<1> DEFINE t == [i \in DOMAIN s |->
                   IF s[i].off = o THEN WithPhase(s[i], "got") ELSE s[i]]
<1>1. Len(s) \in Nat /\ DOMAIN s = 1 .. Len(s)
  BY LenProperties
<1>2. \A j \in DOMAIN s : s[j] \in Element
  BY <1>1, ElementOfSeq
<1>3. t \in [1 .. Len(s) -> Element]
  BY <1>1, <1>2, WithPhaseType DEF Phases
<1>4. t \in Seq(Element)
  BY <1>1, <1>3, SeqDef
<1>5. DOMAIN t = DOMAIN s /\ Len(t) = Len(s)
  BY <1>1, <1>3, <1>4, LenProperties
<1> QED BY <1>4, <1>5

LEMMA ElementAdded ==
  ASSUME NEW s \in Seq(Element), NEW e \in Element, NEW t, t = Append(s, e)
  PROVE  /\ t \in Seq(Element)
         /\ Len(s) \in Nat /\ DOMAIN s = 1 .. Len(s)
         /\ DOMAIN t = 1 .. Len(s) + 1 /\ Len(t) = Len(s) + 1
         /\ \A j \in DOMAIN s : t[j] = s[j]
         /\ t[Len(s) + 1] = e
BY LenProperties
-------------------------------------------------------------------------------
LEMMA TypeInit == Init => TypeOK
BY SizeAssumption DEF Init, TypeOK, NoHeader, Statuses, PutSteps, Pos

LEMMA TypeStep == TypeOK /\ [Next]_vars => TypeOK'
<1> SUFFICES ASSUME TypeOK, [Next]_vars PROVE TypeOK'
  OBVIOUS
<1> USE SizeAssumption, SizesAssumption
    DEF TypeOK, PutSteps, Statuses, control, reaping, putter, getter
<1>1. ASSUME NEW sz \in Sizes, PutCall(sz) PROVE TypeOK'
  BY <1>1 DEF PutCall
<1>2. CASE PutCheck
  BY <1>2 DEF PutCheck
<1>3. CASE ReapAdvance
  <2>1. elm[Ix(rbtail2)] \in [size : 0 .. Size, status : Statuses]
    BY IxType
  <2>2. elm[Ix(rbtail2)].size \in Nat
    BY <2>1
  <2> QED BY <1>3, <2>2 DEF ReapAdvance
<1>4. CASE ReapStop
  BY <1>4 DEF ReapStop
<1>5. CASE ReapAllAdvance
  <2>1. elm[Ix(rbtail2)] \in [size : 0 .. Size, status : Statuses]
    BY IxType
  <2>2. elm[Ix(rbtail2)].size \in Nat
    BY <2>1
  <2> QED BY <1>5, <2>2 DEF ReapAllAdvance, AtTail
<1>6. CASE ReapAllStop
  BY <1>6 DEF ReapAllStop, PutDecide
<1>7. CASE ReapAllCas
  BY <1>7 DEF ReapAllCas, PutDecide
<1>8. CASE PutPeek
  BY <1>8 DEF PutPeek
<1>9. CASE PutElement
  BY <1>9, IxType DEF PutElement
<1>10. CASE PutPublish
  BY <1>10 DEF PutPublish, Element, Phases
<1>11. CASE GetReady
  BY <1>11, IxType DEF GetReady
<1>12. CASE GetNotReady
  BY <1>12 DEF GetNotReady
<1>13. CASE GetPeek
  BY <1>13 DEF GetPeek
<1>14. CASE GetPublish
  <2>1. items' \in Seq(Element)
    BY <1>14, GotAtOffset DEF GetPublish
  <2> QED BY <1>14, <2>1 DEF GetPublish
<1>15. ASSUME NEW i \in DOMAIN items, NEW st \in {"ready", "done"}, SetStatus(i, st)
       PROVE  TypeOK'
  <2>1. st \in Phases
    BY DEF Phases
  <2>2. items' \in Seq(Element)
    BY <1>15, <2>1, OnePhaseChanges DEF SetStatus
  <2>3. items[i] \in Element
    BY ElementOfSeq, LenProperties
  <2> QED BY <1>15, <2>2, <2>3, IxType DEF SetStatus, Element
<1>16. CASE UserStep
  BY <1>15, <1>16 DEF UserStep, SetReady, SetDone
<1>17. CASE UNCHANGED vars
  BY <1>17 DEF vars
<1> QED
  BY <1>1, <1>2, <1>3, <1>4, <1>5, <1>6, <1>7, <1>8, <1>9, <1>10, <1>11, <1>12,
     <1>13, <1>14, <1>16, <1>17 DEF Next, PutStep, GetStep

(* Every behaviour keeps the types of the control variables, the headers,  *)
(* the elements and the locals of the two threads.                         *)
THEOREM TypeCorrect == Spec => []TypeOK
BY TypeInit, TypeStep, PTL DEF Spec

(* An element that starts before a boundary ends there or before it. *)
LEMMA EndsBefore ==
  ASSUME TypeOK, Layout, NEW b \in Nat, Boundary(b),
         NEW i \in DOMAIN items, items[i].off < b
  PROVE  End(i) <= b
<1>1. CASE b = head
  BY <1>1 DEF Layout
<1>2. ASSUME NEW j \in DOMAIN items, items[j].off = b PROVE End(i) <= b
  <2>1. items[i] \in Element /\ items[j] \in Element /\ i \in Nat /\ j \in Nat
    BY ElementOfSeq, LenProperties DEF TypeOK
  <2>2. items[j].off \in Nat /\ items[i].off \in Nat
        /\ items[j].size \in Nat /\ items[i].size \in Nat
    BY <2>1, SizeAssumption DEF Element
  <2>3. ~(j < i)
    BY <1>2, <2>2 DEF Layout, End
  <2> QED BY <1>2, <2>1, <2>3 DEF Layout
<1> QED BY <1>1, <1>2 DEF Boundary

(* Where reaping finds a finished element, it goes on to the next boundary *)
(* and passes nothing that is in use.                                      *)
LEMMA StepOver ==
  ASSUME TypeOK, Layout, Headers, NEW o \in Nat, Boundary(o), o # head,
         tail2 <= o, Done(o), NEW n, n = o + elm[Ix(o)].size
  PROVE  /\ n \in Nat /\ o < n /\ n <= head /\ Boundary(n)
         /\ \A b \in Nat : Boundary(b) /\ o < b => n <= b
         /\ \A j \in DOMAIN items :
              items[j].off < n => items[j].off < o \/ items[j].phase = "done"
<1>1. PICK i \in DOMAIN items : items[i].off = o
  BY DEF Boundary
<1>2. items[i] \in Element
  BY ElementOfSeq, LenProperties DEF TypeOK
<1>3. items[i].size \in Nat /\ items[i].size >= 1 /\ items[i].phase \in Phases
  BY <1>2, SizeAssumption DEF Layout, Element
<1>4. elm[Ix(o)] = [size |-> items[i].size, status |-> StatusOf(items[i].phase)]
  BY <1>1 DEF Headers
<1>5. n = End(i)
  BY <1>1, <1>4 DEF End
<1>6. items[i].phase = "done"
  BY <1>3, <1>4 DEF Done, StatusOf, Phases
<1>7. ASSUME NEW b \in Nat, Boundary(b), o < b PROVE n <= b
  BY <1>1, <1>5, <1>7, EndsBefore
<1>8. ASSUME NEW j \in DOMAIN items, items[j].off < n, ~(items[j].off < o)
      PROVE  items[j].phase = "done"
  <2>1. items[j] \in Element /\ i \in Nat /\ j \in Nat
    BY ElementOfSeq, LenProperties DEF TypeOK
  <2>2. items[j].off \in Nat /\ items[j].size \in Nat /\ items[j].size >= 1
    BY <2>1, SizeAssumption DEF Element, Layout
  <2>3. ~(o < items[j].off)
    BY <1>7, <1>8, <2>2 DEF Boundary
  <2>4. items[j].off = o
    BY <1>8, <2>2, <2>3
  <2>5. ~(i < j) /\ ~(j < i)
    BY <1>1, <1>3, <2>2, <2>4 DEF Layout, End
  <2>6. i = j
    BY <2>1, <2>5
  <2> QED BY <1>6, <2>6
<1>9. n \in Nat /\ o < n
  BY <1>1, <1>3, <1>5 DEF End
<1>10. n <= head /\ Boundary(n)
  BY <1>5 DEF Layout
<1> QED BY <1>7, <1>8, <1>9, <1>10

(* Steps that leave the elements and the control variables alone keep what *)
(* is said about them.                                                     *)
LEMMA ControlUnchanged ==
  ASSUME IInv, UNCHANGED <<control, items>>, putpc = "cas" <=> putpc' = "cas"
  PROVE  Layout' /\ Control'
BY DEF IInv, Layout, Control, Boundary, End, Room, control

LEMMA HeadersUnchanged ==
  ASSUME IInv, UNCHANGED <<tail2, items, elm>>
  PROVE  Headers'
BY DEF IInv, Headers

LEMMA GetUnchanged ==
  ASSUME IInv, UNCHANGED <<tail, items, getter>>
  PROVE  GetLocal'
BY DEF IInv, GetLocal, getter

LEMMA PutUnchanged ==
  ASSUME IInv, UNCHANGED <<control, items, elm, putter>>
  PROVE  Reaping' /\ PutLocal'
BY DEF IInv, Reaping, PutLocal, Boundary, Room, control, putter

(* head runs less than a round ahead of tail2. *)
LEMMA LessThanARound ==
  ASSUME IInv
  PROVE  /\ head \in Nat /\ tail \in Nat /\ tail2 \in Nat
         /\ tail2 <= head /\ tail <= head
         /\ head - tail2 < Size
<1>1. head \in Nat /\ tail \in Nat /\ tail2 \in Nat /\ tail2 <= head /\ tail <= head
  BY DEF IInv, TypeOK, Control
<1>2. Size - (head - tail2) >= 1
  BY <1>1, RoomPositive, SizeAssumption DEF IInv, Control, Room
<1> QED BY <1>1, <1>2, SizeAssumption
-------------------------------------------------------------------------------
(* The invariant holds initially and through the steps of put. *)

LEMMA InitInvariant == Init => IInv
<1> SUFFICES ASSUME Init PROVE IInv
  OBVIOUS
<1>1. TypeOK
  BY TypeInit
<1>2. items = <<>> /\ DOMAIN items = {}
  BY DEF Init
<1>3. Layout
  BY <1>2 DEF Init, Layout
<1>4. Room(head)
  <2>1. Size - (head - tail2) = Size
    BY SizeAssumption DEF Init, Pos
  <2> QED BY <2>1, CapacityAssumption DEF Room
<1>5. Control
  BY <1>2, <1>4 DEF Init, Control, Boundary, Pos
<1>6. Headers /\ Reaping /\ PutLocal /\ GetLocal
  BY <1>2 DEF Init, Headers, Reaping, PutLocal, GetLocal
<1> QED BY <1>1, <1>3, <1>5, <1>6 DEF IInv

LEMMA PutCallStep ==
  ASSUME IInv, TypeOK', NEW sz \in Sizes, PutCall(sz)
  PROVE  IInv'
<1> USE DEF PutCall
<1>1. Layout' /\ Control'
  BY ControlUnchanged
<1>2. Headers' /\ GetLocal'
  BY HeadersUnchanged, GetUnchanged DEF control
<1>3. Reaping'
  BY DEF Reaping
<1>4. PutLocal'
  BY DEF PutLocal
<1> QED BY <1>1, <1>2, <1>3, <1>4 DEF IInv

LEMMA PutCheckStep ==
  ASSUME IInv, TypeOK', PutCheck
  PROVE  IInv'
<1> USE DEF PutCheck
<1>1. Layout' /\ Control'
  BY ControlUnchanged
<1>2. Headers' /\ GetLocal'
  BY HeadersUnchanged, GetUnchanged DEF control
<1>3. need \in Sizes /\ need \in Nat
  BY SizesAssumption, SizeAssumption DEF IInv, PutLocal, PutSteps, TypeOK
<1>4. CASE Fits(need, head, tail2)
  <2>1. Room(head + need)
    BY <1>3, <1>4, LessThanARound, FitsLeavesRoom DEF IInv, Control, Room
  <2> QED BY <1>1, <1>2, <1>3, <1>4, <2>1
          DEF IInv, Reaping, PutLocal, Room, control
<1>5. CASE ~Fits(need, head, tail2)
  <2>1. Reaping'
    BY <1>5, LessThanARound, SizeAssumption
       DEF IInv, Control, Reaping, Boundary, control
  <2>2. PutLocal'
    BY <1>3, <1>5 DEF IInv, Control, PutLocal
  <2> QED BY <1>1, <1>2, <2>1, <2>2 DEF IInv
<1> QED BY <1>4, <1>5

LEMMA ReapAdvanceStep ==
  ASSUME IInv, TypeOK', ReapAdvance
  PROVE  IInv'
<1> USE DEF ReapAdvance
<1>1. Layout' /\ Control'
  BY ControlUnchanged
<1>2. Headers' /\ GetLocal'
  BY HeadersUnchanged, GetUnchanged DEF control
<1>3. /\ rbtail \in Nat /\ rbtail2 \in Nat /\ tail2 <= rbtail2
      /\ Boundary(rbtail) /\ Boundary(rbtail2) /\ rbtail2 <= rbtail /\ rbtail <= head
  BY LessThanARound DEF IInv, Reaping, PutLocal, TypeOK
<1>4. rbtail2 < rbtail
  BY <1>3
<1>5. /\ rbtail2' \in Nat /\ rbtail2 < rbtail2' /\ rbtail2' <= head
      /\ Boundary(rbtail2') /\ rbtail2' <= rbtail
      /\ \A j \in DOMAIN items :
           items[j].off < rbtail2' => items[j].off < rbtail2 \/ items[j].phase = "done"
  BY <1>3, <1>4, StepOver DEF IInv
<1>6. Reaping'
  <2>1. /\ rbtail <= tail /\ head - rbtail < Size /\ (Direct => rbtail = tail)
        /\ \A j \in DOMAIN items : items[j].off < rbtail2 => items[j].phase = "done"
    BY DEF IInv, Reaping
  <2>2. \A j \in DOMAIN items : items[j].off < rbtail2' => items[j].phase = "done"
    BY <1>5, <2>1
  <2>3. UNCHANGED <<head, tail, tail2, items, rbtail>>
    BY DEF control
  <2>4. Boundary(rbtail)' /\ Boundary(rbtail2)'
    BY <1>3, <1>5, <2>3 DEF Boundary
  <2>5. tail2 <= rbtail2'
    BY <1>3, <1>5, LessThanARound
  <2> QED BY <1>5, <2>1, <2>2, <2>3, <2>4, <2>5 DEF Reaping
<1>7. PutLocal'
  BY <1>3, <1>5 DEF IInv, PutLocal
<1> QED BY <1>1, <1>2, <1>6, <1>7 DEF IInv

(* What reaping leaves to prove when it publishes tail2. *)
LEMMA TailTwoMoves ==
  ASSUME IInv, TypeOK', putpc \in {"reap", "reap_all"},
         UNCHANGED <<head, tail, items, elm, need>>, tail2' = rbtail2,
         rbtail2 <= tail \/ putpc' = "cas"
  PROVE  /\ Layout' /\ Control' /\ Headers'
         /\ Fits(need, head, rbtail2) => Room(head + need)'
<1>1. /\ Boundary(rbtail2) /\ tail2 <= rbtail2 /\ rbtail2 <= head
      /\ \A i \in DOMAIN items : items[i].off < rbtail2 => items[i].phase = "done"
  BY DEF IInv, Reaping
<1>2. /\ rbtail2 \in Nat /\ need \in Nat /\ head \in Nat /\ tail2 \in Nat
      /\ \A i \in DOMAIN items : items[i].off \in Nat
  <2>1. \A i \in DOMAIN items : items[i] \in Element
    BY ElementOfSeq, LenProperties DEF IInv, TypeOK
  <2>2. \A i \in DOMAIN items : items[i].off \in Nat
    BY <2>1 DEF Element
  <2> QED BY <2>2, SizeAssumption DEF IInv, TypeOK
<1>3. Layout'
  <2>1. items = <<>> => rbtail2 = head
    BY <1>1 DEF Boundary
  <2> QED BY <2>1 DEF IInv, Layout, Boundary, End
<1>4. (Size - (head - rbtail2)) * Align > HeaderBytes
  BY <1>1, <1>2, RoomMonotone, SizeAssumption DEF IInv, Control, Room
<1>5. Control'
  <2>1. Boundary(tail)' /\ Boundary(tail2)'
    BY <1>1 DEF IInv, Control, Boundary
  <2>2. Room(head)'
    BY <1>4 DEF Room
  <2>3. \A i \in DOMAIN items :
          /\ ~Direct => (items[i].off < tail <=> items[i].phase \in {"got", "done"})
          /\ Direct => items[i].phase # "got"
    BY DEF IInv, Control
  <2>4. tail <= head
    BY DEF IInv, Control
  <2> QED BY <1>1, <2>1, <2>2, <2>3, <2>4 DEF Control
<1>6. Headers'
  BY <1>1, <1>2 DEF IInv, Headers
<1>7. Fits(need, head, rbtail2) => Room(head + need)'
  BY <1>1, <1>2, <1>4, FitsLeavesRoom DEF Room
<1> QED BY <1>3, <1>5, <1>6, <1>7

LEMMA ReapStopStep ==
  ASSUME IInv, TypeOK', ReapStop
  PROVE  IInv'
<1> USE DEF ReapStop
<1>1. /\ Boundary(rbtail2) /\ tail2 <= rbtail2 /\ rbtail2 <= head
      /\ rbtail2 <= rbtail /\ rbtail <= tail
      /\ \A i \in DOMAIN items : items[i].off < rbtail2 => items[i].phase = "done"
  BY DEF IInv, Reaping, PutLocal
<1>2. rbtail2 \in Nat /\ rbtail \in Nat /\ tail \in Nat
  BY DEF IInv, TypeOK
<1>3. rbtail2 <= tail
  BY <1>1, <1>2
<1>4. /\ Layout' /\ Control' /\ Headers'
      /\ Fits(need, head, rbtail2) => Room(head + need)'
  BY <1>3, TailTwoMoves
<1>5. Reaping'
  <2>1. Boundary(rbtail)' /\ Boundary(rbtail2)'
    BY <1>1 DEF IInv, Control, Boundary
  <2>2. head - tail < Size
    BY <1>1, <1>2, <1>3, LessThanARound, SizeAssumption
  <2> QED BY <1>1, <1>2, <2>1, <2>2 DEF Reaping
<1>6. PutLocal'
  <2>1. need \in Sizes
    BY DEF IInv, PutLocal, PutSteps
  <2> QED BY <1>3, <1>4, <2>1 DEF PutLocal, Room
<1>7. GetLocal'
  BY GetUnchanged
<1> QED BY <1>4, <1>5, <1>6, <1>7 DEF IInv

(* When the aggressive reap notices the snapshot of tail, it is there. *)
LEMMA TailNoticed ==
  ASSUME IInv, putpc = "reap_all"
  PROVE  IF AtTail THEN rbtail <= rbtail2
         ELSE /\ rbtail2 <= rbtail
              /\ Ix(rbtail2) # Ix(head) => rbtail2 < rbtail
<1>1. /\ rbtail2 \in Nat /\ rbtail \in Nat /\ passed \in BOOLEAN
      /\ tail2 <= rbtail2 /\ rbtail <= head
      /\ IF passed THEN rbtail <= rbtail2 ELSE rbtail2 <= rbtail
  BY LessThanARound DEF IInv, TypeOK, Reaping, PutLocal
<1>2. rbtail < rbtail2 + Size
  BY <1>1, LessThanARound, SizeAssumption
<1>3. ~passed /\ Ix(rbtail) = Ix(rbtail2) => rbtail = rbtail2
  BY <1>1, <1>2, IxInjective
<1> QED BY <1>1, <1>3 DEF AtTail

LEMMA ReapAllAdvanceStep ==
  ASSUME IInv, TypeOK', ReapAllAdvance
  PROVE  IInv'
<1> USE DEF ReapAllAdvance
<1>1. Layout' /\ Control'
  BY ControlUnchanged
<1>2. Headers' /\ GetLocal'
  BY HeadersUnchanged, GetUnchanged DEF control
<1>3. /\ rbtail \in Nat /\ rbtail2 \in Nat /\ tail2 <= rbtail2
      /\ Boundary(rbtail) /\ Boundary(rbtail2)
  BY DEF IInv, Reaping, TypeOK
<1>4. /\ rbtail2' \in Nat /\ rbtail2 < rbtail2' /\ rbtail2' <= head
      /\ Boundary(rbtail2') /\ (rbtail2 < rbtail => rbtail2' <= rbtail)
      /\ \A j \in DOMAIN items :
           items[j].off < rbtail2' => items[j].off < rbtail2 \/ items[j].phase = "done"
  BY <1>3, StepOver DEF IInv
<1>5. Reaping'
  <2>1. /\ rbtail <= tail /\ head - rbtail < Size /\ (Direct => rbtail = tail)
        /\ \A j \in DOMAIN items : items[j].off < rbtail2 => items[j].phase = "done"
    BY DEF IInv, Reaping
  <2>2. \A j \in DOMAIN items : items[j].off < rbtail2' => items[j].phase = "done"
    BY <1>4, <2>1
  <2>3. UNCHANGED <<head, tail, tail2, items, rbtail>>
    BY DEF control
  <2>4. Boundary(rbtail)' /\ Boundary(rbtail2)'
    BY <1>3, <1>4, <2>3 DEF Boundary
  <2>5. tail2 <= rbtail2'
    BY <1>3, <1>4, LessThanARound
  <2> QED BY <1>4, <2>1, <2>2, <2>3, <2>4, <2>5 DEF Reaping
<1>6. IF AtTail THEN rbtail <= rbtail2' ELSE rbtail2' <= rbtail
  BY <1>3, <1>4, TailNoticed
<1>7. PutLocal'
  <2>1. need \in Sizes
    BY DEF IInv, PutLocal, PutSteps
  <2> QED BY <1>6, <2>1 DEF PutLocal
<1> QED BY <1>1, <1>2, <1>5, <1>7 DEF IInv

LEMMA ReapAllStopStep ==
  ASSUME IInv, TypeOK', ReapAllStop
  PROVE  IInv'
<1> USE DEF ReapAllStop
<1>1. /\ Boundary(rbtail) /\ Boundary(rbtail2) /\ rbtail2 <= head
      /\ rbtail <= tail /\ head - rbtail < Size /\ (Direct => rbtail = tail)
      /\ \A i \in DOMAIN items : items[i].off < rbtail2 => items[i].phase = "done"
  BY DEF IInv, Reaping
<1>2. rbtail2 \in Nat /\ rbtail \in Nat /\ tail \in Nat
  BY DEF IInv, TypeOK
<1>3. IF AtTail THEN rbtail <= rbtail2 ELSE rbtail2 <= rbtail
  BY TailNoticed
<1>4. rbtail2 <= tail \/ putpc' = "cas"
  BY <1>1, <1>2, <1>3
<1>5. /\ Layout' /\ Control' /\ Headers'
      /\ Fits(need, head, rbtail2) => Room(head + need)'
  BY <1>4, TailTwoMoves
<1>6. putpc' = "cas" => AtTail
  BY DEF PutDecide
<1>7. putpc' \in {"cas", "write", "peek", "idle"}
      /\ (putpc' = "write" => Fits(need, head, rbtail2))
  BY DEF PutDecide
<1>8. Reaping'
  <2>1. Boundary(rbtail)' /\ Boundary(rbtail2)'
    BY <1>1 DEF Boundary, reaping
  <2> QED BY <1>1, <1>2, <1>7, <2>1 DEF Reaping, reaping
<1>9. PutLocal'
  <2>1. need \in Sizes
    BY DEF IInv, PutLocal, PutSteps
  <2> QED BY <1>3, <1>5, <1>6, <1>7, <2>1 DEF PutLocal, Room, reaping
<1>10. GetLocal'
  BY GetUnchanged
<1> QED BY <1>5, <1>8, <1>9, <1>10 DEF IInv

LEMMA ReapAllCasStep ==
  ASSUME IInv, TypeOK', ReapAllCas
  PROVE  IInv'
<1> USE DEF ReapAllCas
<1>1. /\ rbtail2 \in Nat /\ rbtail \in Nat /\ tail \in Nat
      /\ Boundary(tail) /\ Boundary(rbtail2) /\ rbtail2 <= head /\ tail <= head
      /\ rbtail <= tail /\ head - rbtail < Size /\ rbtail <= rbtail2 /\ tail2 = rbtail2
      /\ (Direct => rbtail = tail) /\ need \in Sizes
  BY DEF IInv, Control, Reaping, PutLocal, PutSteps, TypeOK
<1>2. /\ \A i \in DOMAIN items : items[i].off < rbtail2 => items[i].phase = "done"
      /\ \A i \in DOMAIN items : items[i].off \in Nat
      /\ ~Direct => \A i \in DOMAIN items :
                      items[i].off < tail <=> items[i].phase \in {"got", "done"}
  <2>1. \A i \in DOMAIN items : items[i] \in Element
    BY ElementOfSeq, LenProperties DEF IInv, TypeOK
  <2>2. \A i \in DOMAIN items : items[i].off \in Nat
    BY <2>1 DEF Element
  <2> QED BY <2>2 DEF IInv, Control, Reaping
<1>3. Ix(tail) = Ix(rbtail) => tail = rbtail
  <2>1. tail < rbtail + Size
    BY <1>1, LessThanARound, SizeAssumption
  <2> QED BY <1>1, <2>1, IxInjective
(* Under get, an element that reaping passed was dequeued before. *)
<1>4. ~Direct => rbtail2 <= tail
  <2>1. SUFFICES ASSUME ~Direct, tail < rbtail2 PROVE FALSE
    BY <1>1
  <2>2. PICK j \in DOMAIN items : items[j].off = tail
    BY <1>1, <2>1 DEF Boundary
  <2> QED BY <1>1, <1>2, <2>1, <2>2
<1>5. tail' \in Nat /\ rbtail2 <= tail' /\ tail' <= head /\ Boundary(tail')
      /\ (~Direct => tail' = tail)
  BY <1>1, <1>3, <1>4
<1>6. Layout' /\ Headers'
  BY DEF IInv, Layout, Headers, Boundary, End
<1>7. Control'
  <2>1. Boundary(tail)' /\ Boundary(tail2)' /\ Room(head)'
    BY <1>5 DEF IInv, Control, Boundary, Room
  <2>2. \A i \in DOMAIN items :
          /\ items[i].off < tail2 => items[i].phase = "done"
          /\ Direct => items[i].phase # "got"
    BY DEF IInv, Control
  <2> QED BY <1>1, <1>2, <1>5, <2>1, <2>2 DEF Control
<1>8. putpc' \in {"write", "peek", "idle"}
      /\ (putpc' = "write" => Fits(need, head, tail2))
  BY DEF PutDecide
<1>9. putpc' = "write" => Room(head + need)
  <2>1. need \in Nat
    BY <1>1, SizesAssumption, SizeAssumption
  <2> QED BY <1>8, <2>1, LessThanARound, FitsLeavesRoom DEF IInv, Control, Room
<1>10. Reaping' /\ PutLocal'
  BY <1>1, <1>8, <1>9 DEF Reaping, PutLocal, Room
<1>11. GetLocal'
  <2>1. CASE Direct
    BY <2>1 DEF IInv, GetLocal, getter
  <2>2. CASE ~Direct
    BY <1>5, <2>2, GetUnchanged
  <2> QED BY <2>1, <2>2
<1> QED BY <1>6, <1>7, <1>10, <1>11 DEF IInv

LEMMA PutPeekStep ==
  ASSUME IInv, TypeOK', PutPeek
  PROVE  IInv'
<1> USE DEF PutPeek
<1>1. Layout' /\ Control'
  BY ControlUnchanged
<1>2. Headers' /\ GetLocal'
  BY HeadersUnchanged, GetUnchanged DEF control
<1>3. Reaping' /\ PutLocal'
  BY DEF IInv, Reaping, PutLocal, PutSteps
<1> QED BY <1>1, <1>2, <1>3 DEF IInv

LEMMA PutElementStep ==
  ASSUME IInv, TypeOK', PutElement
  PROVE  IInv'
<1> USE DEF PutElement
<1>1. Layout' /\ Control'
  BY ControlUnchanged
<1>2. GetLocal'
  BY GetUnchanged DEF control
<1>3. Headers'
  <2>1. SUFFICES ASSUME NEW i \in DOMAIN items, items[i].off >= tail2
                 PROVE  elm'[Ix(items[i].off)] = elm[Ix(items[i].off)]
    BY DEF IInv, Headers, control
  <2>2. items[i] \in Element
    BY ElementOfSeq, LenProperties DEF IInv, TypeOK
  <2>3. items[i].off \in Nat /\ items[i].size \in Nat /\ items[i].size >= 1
    BY <2>2, SizeAssumption DEF IInv, Layout, Element
  <2>4. items[i].off < head
    BY <2>3, LessThanARound DEF IInv, Layout, End
  <2>5. head < items[i].off + Size
    BY <2>1, <2>3, LessThanARound, SizeAssumption
  <2>6. Ix(items[i].off) # Ix(head)
    BY <2>3, <2>4, <2>5, LessThanARound, IxInjective
  <2> QED BY <2>3, <2>6, IxType DEF IInv, TypeOK
<1>4. Reaping'
  BY DEF Reaping
<1>5. PutLocal'
  <2>1. need \in Sizes /\ Room(head + need)
    BY DEF IInv, PutLocal, PutSteps
  <2>2. elm'[Ix(head)] = [size |-> need, status |-> "init"]
    BY LessThanARound, IxType DEF IInv, TypeOK
  <2> QED BY <2>1, <2>2 DEF PutLocal, Room, control
<1> QED BY <1>1, <1>2, <1>3, <1>4, <1>5 DEF IInv

LEMMA PutPublishStep ==
  ASSUME IInv, TypeOK', PutPublish
  PROVE  IInv'
<1> USE DEF PutPublish
<1> DEFINE n == Len(items)
           new == [off |-> head, size |-> need, phase |-> "reserved"]
<1>1. /\ need \in Sizes /\ need \in Nat /\ need >= 1 /\ Room(head + need)
      /\ elm[Ix(head)] = [size |-> need, status |-> "init"]
  <2>1. need \in Sizes
    BY DEF IInv, PutLocal, PutSteps
  <2>2. Room(head + need) /\ elm[Ix(head)] = [size |-> need, status |-> "init"]
    BY DEF IInv, PutLocal
  <2> QED BY <2>1, <2>2, SizesAssumption, SizeAssumption
<1>2. new \in Element
  BY <1>1, LessThanARound DEF IInv, TypeOK, Element, Phases
<1>3. /\ n \in Nat /\ DOMAIN items = 1 .. n
      /\ DOMAIN items' = 1 .. n + 1 /\ Len(items') = n + 1
      /\ \A j \in 1 .. n : items'[j] = items[j]
      /\ items'[n + 1] = new
  BY <1>2, ElementAdded DEF IInv, TypeOK
<1>4. /\ head' \in Nat /\ head' = head + need
      /\ \A i \in 1 .. n : /\ items[i].off \in Nat /\ items[i].size \in Nat
                           /\ items[i].size >= 1 /\ End(i) <= head
                           /\ items[i].off < head
  <2>1. SUFFICES ASSUME NEW i \in 1 .. n
                 PROVE  /\ items[i].off \in Nat /\ items[i].size \in Nat
                        /\ items[i].size >= 1 /\ End(i) <= head
                        /\ items[i].off < head
    BY <1>1, LessThanARound
  <2>2. items[i] \in Element
    BY ElementOfSeq DEF IInv, TypeOK
  <2>3. items[i].off \in Nat /\ items[i].size \in Nat
    BY <2>2, SizeAssumption DEF Element
  <2> QED BY <1>3, <2>3, LessThanARound DEF IInv, Layout, End
<1>5. ASSUME NEW b, Boundary(b) PROVE b = head' \/ \E i \in DOMAIN items' : items'[i].off = b
  <2>1. n + 1 \in DOMAIN items' /\ items'[n + 1].off = head
    BY <1>3
  <2> QED BY <1>3, <1>5, <2>1 DEF Boundary
<1>6. \A i \in 1 .. n : items'[i].off + items'[i].size = End(i)
  BY <1>3 DEF End
<1>7. items'[n + 1].off = head /\ items'[n + 1].size = need
  BY <1>3
<1>8. Layout'
  <2>1. ASSUME NEW i \in 1 .. n + 1, NEW j \in 1 .. n + 1, i < j
        PROVE  items'[i].off + items'[i].size <= items'[j].off
    <3>1. i \in 1 .. n
      BY <1>3, <2>1
    <3>2. CASE j \in 1 .. n
      BY <1>3, <2>1, <3>1, <3>2, <1>6 DEF IInv, Layout
    <3>3. CASE j = n + 1
      BY <3>1, <3>3, <1>4, <1>6, <1>7
    <3> QED BY <3>2, <3>3, <1>3
  <2>2. ASSUME NEW i \in 1 .. n + 1
        PROVE  LET e == items'[i].off + items'[i].size IN
                 /\ items'[i].size >= 1 /\ e <= head'
                 /\ e = head' \/ \E k \in DOMAIN items' : items'[k].off = e
    <3>1. CASE i \in 1 .. n
      <4>1. Boundary(End(i)) /\ End(i) <= head /\ End(i) \in Nat
        BY <1>3, <1>4, <3>1 DEF IInv, Layout, End
      <4>2. items'[i].off + items'[i].size = End(i)
        BY <1>6, <3>1
      <4>3. items'[i].size >= 1
        BY <1>3, <1>4, <3>1
      <4>4. End(i) <= head'
        BY <1>1, <1>4, <4>1, LessThanARound
      <4>5. End(i) = head' \/ \E k \in DOMAIN items' : items'[k].off = End(i)
        BY <1>5, <4>1
      <4> QED BY <4>2, <4>3, <4>4, <4>5
    <3>2. CASE i = n + 1
      BY <1>1, <1>4, <1>7, <3>2, LessThanARound
    <3> QED BY <3>1, <3>2, <1>3
  <2>3. items' # <<>> /\ head' = items'[n + 1].off + items'[n + 1].size
    BY <1>3, <1>7
  <2> QED BY <1>3, <2>1, <2>2, <2>3 DEF Layout, End, Boundary
<1>9. Control'
  <2>1. Boundary(tail)' /\ Boundary(tail2)'
    BY <1>5 DEF IInv, Control, Boundary
  <2>2. Room(head)'
    BY <1>1 DEF Room
  <2>3. tail2 <= head' /\ tail <= head' /\ (putpc' # "cas" => tail2 <= tail)
    BY <1>1, LessThanARound DEF IInv, Control
  <2>4. ASSUME NEW i \in 1 .. n + 1
        PROVE  /\ items'[i].off < tail2 => items'[i].phase = "done"
               /\ ~Direct => (items'[i].off < tail
                                <=> items'[i].phase \in {"got", "done"})
               /\ Direct => items'[i].phase # "got"
    <3>1. CASE i \in 1 .. n
      BY <1>3, <3>1 DEF IInv, Control
    <3>2. CASE i = n + 1
      BY <1>3, <3>2, LessThanARound
    <3> QED BY <3>1, <3>2, <1>3
  <2> QED BY <1>3, <2>1, <2>2, <2>3, <2>4 DEF Control
<1>10. Headers'
  <2>1. ASSUME NEW i \in 1 .. n + 1, items'[i].off >= tail2
        PROVE  elm[Ix(items'[i].off)] = [size |-> items'[i].size,
                                         status |-> StatusOf(items'[i].phase)]
    <3>1. CASE i \in 1 .. n
      BY <1>3, <2>1, <3>1 DEF IInv, Headers
    <3>2. CASE i = n + 1
      BY <1>1, <1>3, <3>2 DEF StatusOf
    <3> QED BY <3>1, <3>2, <1>3
  <2> QED BY <1>3, <2>1 DEF Headers
<1>11. Reaping' /\ PutLocal'
  BY DEF Reaping, PutLocal, PutSteps
<1>12. GetLocal'
  <2>1. CASE getpc = "publish"
    <3>1. PICK i \in DOMAIN items : /\ items[i].off = tail /\ items[i].phase = "ready"
                                    /\ items[i].size = getsize
      BY <2>1 DEF IInv, GetLocal
    <3>2. i \in DOMAIN items' /\ items'[i] = items[i]
      BY <1>3
    <3> QED BY <3>1, <3>2 DEF IInv, GetLocal, getter
  <2>2. CASE getpc # "publish"
    BY <2>2 DEF IInv, GetLocal, getter
  <2> QED BY <2>1, <2>2
<1> QED BY <1>8, <1>9, <1>10, <1>11, <1>12 DEF IInv

-------------------------------------------------------------------------------
(* The steps of get and of the users of elements.                          *)

LEMMA ElementTypes ==
  ASSUME IInv
  PROVE  /\ DOMAIN items = 1 .. Len(items) /\ Len(items) \in Nat
         /\ \A i \in DOMAIN items :
              /\ items[i] \in Element
              /\ items[i].off \in Nat /\ items[i].size \in Nat
              /\ items[i].phase \in Phases
              /\ items[i].size >= 1 /\ items[i].off < head
<1>1. DOMAIN items = 1 .. Len(items) /\ Len(items) \in Nat
  BY LenProperties DEF IInv, TypeOK
<1>2. ASSUME NEW i \in DOMAIN items
      PROVE  /\ items[i] \in Element
             /\ items[i].off \in Nat /\ items[i].size \in Nat
             /\ items[i].phase \in Phases
             /\ items[i].size >= 1 /\ items[i].off < head
  <2>1. items[i] \in Element
    BY <1>1, ElementOfSeq DEF IInv, TypeOK
  <2>2. items[i].off \in Nat /\ items[i].size \in Nat /\ items[i].phase \in Phases
    BY <2>1, SizeAssumption DEF Element
  <2>3. items[i].size >= 1 /\ End(i) <= head
    BY DEF IInv, Layout
  <2> QED BY <2>1, <2>2, <2>3, LessThanARound DEF End
<1> QED BY <1>1, <1>2

(* No two elements start at the same offset. *)
LEMMA OffsetsDiffer ==
  ASSUME IInv, NEW i \in DOMAIN items, NEW j \in DOMAIN items,
         items[i].off = items[j].off
  PROVE  i = j
<1>1. ~(i < j) /\ ~(j < i)
  BY ElementTypes DEF IInv, Layout, End
<1> QED BY <1>1, ElementTypes

(* When only phases change, elements stay where they are. *)
LEMMA OnlyPhases ==
  ASSUME IInv, UNCHANGED <<head, tail2>>,
         DOMAIN items' = DOMAIN items, Len(items') = Len(items),
         \A j \in DOMAIN items : /\ items'[j].off = items[j].off
                                 /\ items'[j].size = items[j].size
  PROVE  /\ Layout'
         /\ \A b : Boundary(b) =>
              b = head \/ \E j \in DOMAIN items' : items'[j].off = b
<1>1. \A b : Boundary(b) => b = head \/ \E j \in DOMAIN items' : items'[j].off = b
  BY DEF Boundary
<1>2. \A i, j \in DOMAIN items' : i < j => items'[i].off + items'[i].size <= items'[j].off
  BY DEF IInv, Layout, End
<1>3. \A i \in DOMAIN items' :
        LET e == items'[i].off + items'[i].size
        IN  /\ items'[i].size >= 1 /\ e <= head
            /\ e = head \/ \E j \in DOMAIN items' : items'[j].off = e
  BY <1>1 DEF IInv, Layout, End
<1>4. items' = <<>> <=> items = <<>>
  BY LenProperties, ElementTypes, EmptySeq DEF IInv, TypeOK
<1>5. items # <<>> => Len(items) \in DOMAIN items
  BY ElementTypes, EmptySeq DEF IInv, TypeOK
<1>6. Layout'
  BY <1>2, <1>3, <1>4, <1>5 DEF IInv, Layout, End, Boundary
<1> QED BY <1>1, <1>6

(* An element of the queue that is not dequeued is not reclaimed either.   *)
LEMMA NotReclaimed ==
  ASSUME IInv, NEW i \in DOMAIN items, items[i].phase # "done"
  PROVE  /\ tail2 <= items[i].off
         /\ elm[Ix(items[i].off)] = [size |-> items[i].size,
                                     status |-> StatusOf(items[i].phase)]
<1>1. tail2 <= items[i].off
  BY ElementTypes, LessThanARound DEF IInv, Control
<1> QED BY <1>1, ElementTypes, LessThanARound DEF IInv, Headers

LEMMA GetReadyStep ==
  ASSUME IInv, TypeOK', GetReady
  PROVE  IInv'
<1> USE DEF GetReady
<1>1. Layout' /\ Control'
  BY ControlUnchanged DEF putter
<1>2. Headers' /\ Reaping' /\ PutLocal'
  BY HeadersUnchanged, PutUnchanged DEF control
<1>3. tail # head
  BY DEF NonEmpty
<1>4. PICK i \in DOMAIN items : items[i].off = tail
  BY <1>3 DEF IInv, Control, Boundary
<1>5. items[i].phase \notin {"got", "done"}
  BY <1>4, LessThanARound DEF IInv, Control
<1>6. elm[Ix(tail)] = [size |-> items[i].size, status |-> StatusOf(items[i].phase)]
  BY <1>4, <1>5, NotReclaimed
<1>7. items[i].phase = "ready" /\ getsize' = items[i].size
  BY <1>5, <1>6, ElementTypes DEF StatusOf, Phases
<1>8. GetLocal'
  BY <1>4, <1>7 DEF GetLocal, control
<1> QED BY <1>1, <1>2, <1>8 DEF IInv

LEMMA GetWaitStep ==
  ASSUME IInv, TypeOK', GetNotReady \/ GetPeek
  PROVE  IInv'
<1> USE DEF GetNotReady, GetPeek
<1>1. Layout' /\ Control'
  BY ControlUnchanged DEF putter
<1>2. Headers' /\ Reaping' /\ PutLocal'
  BY HeadersUnchanged, PutUnchanged DEF control
<1>3. GetLocal'
  BY DEF IInv, GetLocal
<1> QED BY <1>1, <1>2, <1>3 DEF IInv

LEMMA GetPublishStep ==
  ASSUME IInv, TypeOK', GetPublish
  PROVE  IInv'
<1> USE DEF GetPublish
<1>1. PICK i \in DOMAIN items : /\ items[i].off = tail /\ items[i].phase = "ready"
                                /\ items[i].size = getsize
  BY DEF IInv, GetLocal
<1>2. ~Direct /\ getpos = tail
  BY DEF IInv, GetLocal
<1>3. /\ DOMAIN items' = DOMAIN items /\ Len(items') = Len(items)
      /\ \A j \in DOMAIN items :
           items'[j] = IF items[j].off = getpos THEN WithPhase(items[j], "got")
                       ELSE items[j]
  BY GotAtOffset DEF IInv, TypeOK
<1>4. /\ \A j \in DOMAIN items : j # i => items'[j] = items[j]
      /\ items'[i].off = items[i].off /\ items'[i].size = items[i].size
      /\ items'[i].phase = "got"
  <2>1. "got" \in Phases
    BY DEF Phases
  <2> QED BY <1>1, <1>2, <1>3, <2>1, OffsetsDiffer, ElementTypes, WithPhaseType
<1>5. \A j \in DOMAIN items : /\ items'[j].off = items[j].off
                              /\ items'[j].size = items[j].size
  BY <1>4
<1>6. /\ Layout'
      /\ \A b : Boundary(b) => b = head \/ \E j \in DOMAIN items' : items'[j].off = b
  BY <1>3, <1>5, OnlyPhases
<1>7. /\ tail' = End(i) /\ tail' \in Nat /\ tail < tail' /\ tail' <= head
      /\ Boundary(tail') /\ tail2 <= tail
  <2>1. tail' = End(i) /\ End(i) <= head /\ Boundary(End(i))
    BY <1>1, <1>2 DEF IInv, Layout, End
  <2>2. tail2 <= tail
    BY <1>1, NotReclaimed
  <2>3. tail < End(i) /\ End(i) \in Nat
    BY <1>1, ElementTypes DEF End
  <2> QED BY <2>1, <2>2, <2>3
<1>8. \A j \in DOMAIN items : items[j].off < tail' => items[j].off <= tail
  <2>1. SUFFICES ASSUME NEW j \in DOMAIN items, tail < items[j].off
                 PROVE  tail' <= items[j].off
    BY <1>7, ElementTypes, LessThanARound
  <2>2. Boundary(items[j].off)
    BY DEF Boundary
  <2> QED BY <1>1, <1>7, <2>1, <2>2, ElementTypes, EndsBefore DEF IInv
<1>9. Control'
  <2>1. Boundary(tail)' /\ Boundary(tail2)'
    BY <1>6, <1>7 DEF IInv, Control, Boundary
  <2>2. Room(head)' /\ tail2 <= head /\ tail2 <= tail'
    BY <1>7, LessThanARound DEF IInv, Control, Room
  <2>3. ASSUME NEW j \in DOMAIN items
        PROVE  /\ items'[j].off < tail2 => items'[j].phase = "done"
               /\ items'[j].off < tail' <=> items'[j].phase \in {"got", "done"}
    <3>1. CASE j = i
      BY <1>1, <1>4, <1>7, <3>1, LessThanARound
    <3>2. CASE j # i
      <4>1. items[j].off # tail
        BY <1>1, <3>2, OffsetsDiffer
      <4>2. items[j].off < tail' <=> items[j].off < tail
        BY <1>7, <1>8, <4>1, ElementTypes, LessThanARound
      <4> QED BY <1>2, <1>4, <3>2, <4>2 DEF IInv, Control
    <3> QED BY <3>1, <3>2
  <2> QED BY <1>2, <1>3, <1>7, <2>1, <2>2, <2>3 DEF Control
<1>10. Headers'
  <2>1. ASSUME NEW j \in DOMAIN items, items[j].off >= tail2
        PROVE  elm[Ix(items'[j].off)] = [size |-> items'[j].size,
                                         status |-> StatusOf(items'[j].phase)]
    <3>1. CASE j = i
      BY <1>1, <1>4, <3>1, NotReclaimed DEF StatusOf
    <3>2. CASE j # i
      BY <1>4, <2>1, <3>2 DEF IInv, Headers
    <3> QED BY <3>1, <3>2
  <2> QED BY <1>3, <1>5, <2>1 DEF Headers
<1>11. Reaping'
  <2>1. SUFFICES ASSUME putpc \in {"reap", "reap_all", "cas"} PROVE Reaping'
    BY DEF Reaping, putter
  <2>2. /\ Boundary(rbtail) /\ Boundary(rbtail2) /\ tail2 <= rbtail2 /\ rbtail2 <= head
        /\ rbtail <= tail /\ head - rbtail < Size /\ rbtail \in Nat
        /\ \A j \in DOMAIN items : items[j].off < rbtail2 => items[j].phase = "done"
    BY <2>1 DEF IInv, Reaping, TypeOK
  <2>3. \A j \in DOMAIN items' : items'[j].off < rbtail2 => items'[j].phase = "done"
    BY <1>1, <1>3, <1>4, <2>2
  <2>4. Boundary(rbtail)' /\ Boundary(rbtail2)'
    BY <1>6, <2>2 DEF Boundary, putter
  <2>5. rbtail <= tail'
    BY <1>7, <2>2, LessThanARound
  <2> QED BY <1>2, <2>2, <2>3, <2>4, <2>5 DEF Reaping, putter
<1>12. PutLocal'
  BY DEF IInv, PutLocal, Room, putter
<1>13. GetLocal'
  BY DEF IInv, GetLocal
<1> QED BY <1>6, <1>9, <1>10, <1>11, <1>12, <1>13 DEF IInv

(* set_ready and set_done write the header of an element in use and of no  *)
(* other element.                                                          *)
LEMMA SetStatusStep ==
  ASSUME IInv, TypeOK', NEW i \in DOMAIN items, SetReady(i) \/ SetDone(i)
  PROVE  IInv'
<1>1. PICK st \in {"ready", "done"} :
        /\ SetStatus(i, st)
        /\ \/ items[i].phase = "reserved" /\ st = "ready"
           \/ items[i].phase = (IF Direct THEN "ready" ELSE "got") /\ st = "done"
  BY DEF SetReady, SetDone
<1> USE <1>1 DEF SetStatus
<1>2. /\ items[i].phase # "done" /\ st \in Phases /\ StatusOf(st) = st
      /\ UNCHANGED <<head, tail, tail2>>
  BY DEF Phases, StatusOf, control
<1>3. /\ DOMAIN items' = DOMAIN items /\ Len(items') = Len(items)
      /\ \A j \in DOMAIN items : j # i => items'[j] = items[j]
      /\ items'[i].off = items[i].off /\ items'[i].size = items[i].size
      /\ items'[i].phase = st
  <2>1. items \in Seq(Element) /\ items[i] \in Element
    BY ElementTypes DEF IInv, TypeOK
  <2>2. items' = [items EXCEPT ![i] = WithPhase(items[i], st)]
    OBVIOUS
  <2>3. /\ DOMAIN items' = DOMAIN items /\ Len(items') = Len(items)
        /\ \A j \in DOMAIN items :
             items'[j] = IF j = i THEN WithPhase(items[j], st) ELSE items[j]
    BY <1>2, <2>1, <2>2, OnePhaseChanges
  <2>4. items'[i] = WithPhase(items[i], st)
    BY <2>3
  <2> QED BY <1>2, <2>1, <2>3, <2>4, WithPhaseType
<1>4. \A j \in DOMAIN items : /\ items'[j].off = items[j].off
                              /\ items'[j].size = items[j].size
  BY <1>3
<1>5. /\ Layout'
      /\ \A b : Boundary(b) => b = head \/ \E j \in DOMAIN items' : items'[j].off = b
  BY <1>2, <1>3, <1>4, OnlyPhases
<1>6. /\ tail2 <= items[i].off
      /\ elm[Ix(items[i].off)] = [size |-> items[i].size,
                                  status |-> StatusOf(items[i].phase)]
  BY <1>2, NotReclaimed
<1>7. elm'[Ix(items[i].off)] = [size |-> items[i].size, status |-> st]
  BY <1>6, IxType, ElementTypes DEF IInv, TypeOK
<1>8. ASSUME NEW o \in Nat, tail2 <= o, o <= head, o # items[i].off
      PROVE  elm'[Ix(o)] = elm[Ix(o)]
  <2>1. items[i].off \in Nat /\ items[i].off < head
    BY ElementTypes
  <2>2. o < items[i].off + Size /\ items[i].off < o + Size
    BY <1>6, <1>8, <2>1, LessThanARound, SizeAssumption
  <2>3. Ix(o) # Ix(items[i].off)
    BY <1>8, <2>1, <2>2, IxInjective
  <2> QED BY <1>8, <2>1, <2>3, IxType DEF IInv, TypeOK
<1>9. Control'
  <2>1. Boundary(tail)' /\ Boundary(tail2)'
    BY <1>2, <1>5 DEF IInv, Control, Boundary
  <2>2. /\ tail2 <= head /\ tail <= head /\ (putpc' # "cas" => tail2 <= tail)
        /\ Room(head)'
    BY <1>2 DEF IInv, Control, Room, putter
  <2>3. ASSUME NEW j \in DOMAIN items
        PROVE  /\ items'[j].off < tail2 => items'[j].phase = "done"
               /\ ~Direct => (items'[j].off < tail <=> items'[j].phase \in {"got", "done"})
               /\ Direct => items'[j].phase # "got"
    <3>1. CASE j = i
      BY <1>3, <1>6, <3>1, ElementTypes, LessThanARound DEF IInv, Control
    <3>2. CASE j # i
      BY <1>3, <3>2 DEF IInv, Control
    <3> QED BY <3>1, <3>2
  <2> QED BY <1>2, <1>3, <2>1, <2>2, <2>3 DEF Control
<1>10. Headers'
  <2>1. ASSUME NEW j \in DOMAIN items, items[j].off >= tail2
        PROVE  elm'[Ix(items'[j].off)] = [size |-> items'[j].size,
                                          status |-> StatusOf(items'[j].phase)]
    <3>1. CASE j = i
      BY <1>2, <1>3, <1>7, <3>1
    <3>2. CASE j # i
      <4>1. items[j].off # items[i].off
        BY <3>2, OffsetsDiffer
      <4>2. elm'[Ix(items[j].off)] = elm[Ix(items[j].off)]
        BY <1>8, <2>1, <4>1, ElementTypes, LessThanARound
      <4> QED BY <1>3, <2>1, <3>2, <4>2 DEF IInv, Headers
    <3> QED BY <3>1, <3>2
  <2> QED BY <1>2, <1>3, <1>4, <2>1 DEF Headers
<1>11. Reaping'
  <2>1. SUFFICES ASSUME putpc \in {"reap", "reap_all", "cas"} PROVE Reaping'
    BY DEF Reaping, putter
  <2>2. /\ Boundary(rbtail) /\ Boundary(rbtail2) /\ tail2 <= rbtail2 /\ rbtail2 <= head
        /\ rbtail <= tail /\ head - rbtail < Size /\ (Direct => rbtail = tail)
        /\ \A j \in DOMAIN items : items[j].off < rbtail2 => items[j].phase = "done"
    BY <2>1 DEF IInv, Reaping
  <2>3. \A j \in DOMAIN items' : items'[j].off < rbtail2 => items'[j].phase = "done"
    BY <1>2, <1>3, <2>2
  <2>4. Boundary(rbtail)' /\ Boundary(rbtail2)'
    BY <1>2, <1>5, <2>2 DEF Boundary, putter
  <2> QED BY <1>2, <2>2, <2>3, <2>4 DEF Reaping, putter
<1>12. PutLocal'
  <2>1. elm'[Ix(head)] = elm[Ix(head)]
    BY <1>8, ElementTypes, LessThanARound
  <2> QED BY <1>2, <2>1 DEF IInv, PutLocal, Room, putter
<1>13. GetLocal'
  <2>1. CASE getpc = "publish"
    <3>1. PICK w \in DOMAIN items : /\ items[w].off = tail /\ items[w].phase = "ready"
                                    /\ items[w].size = getsize
      BY <2>1 DEF IInv, GetLocal
    <3>2. ~Direct
      BY <2>1 DEF IInv, GetLocal
    <3>3. w # i
      BY <3>1, <3>2
    <3> QED BY <1>2, <1>3, <3>1, <3>3 DEF IInv, GetLocal, getter
  <2>2. CASE getpc # "publish"
    BY <2>2 DEF IInv, GetLocal, getter
  <2> QED BY <2>1, <2>2
<1> QED BY <1>5, <1>9, <1>10, <1>11, <1>12, <1>13 DEF IInv
-------------------------------------------------------------------------------
LEMMA StepInvariant == IInv /\ [Next]_vars => IInv'
<1> SUFFICES ASSUME IInv, [Next]_vars PROVE IInv'
  OBVIOUS
<1>1. TypeOK'
  BY TypeStep DEF IInv
<1>2. ASSUME NEW sz \in Sizes, PutCall(sz) PROVE IInv'
  BY <1>1, <1>2, PutCallStep
<1>3. CASE PutStep
  BY <1>1, <1>3, PutCheckStep, ReapAdvanceStep, ReapStopStep, ReapAllAdvanceStep,
     ReapAllStopStep, ReapAllCasStep, PutPeekStep, PutElementStep, PutPublishStep
     DEF PutStep
<1>4. CASE GetStep
  BY <1>1, <1>4, GetReadyStep, GetWaitStep, GetPublishStep DEF GetStep
<1>5. CASE UserStep
  BY <1>1, <1>5, SetStatusStep DEF UserStep
<1>6. CASE UNCHANGED vars
  BY <1>6 DEF vars, IInv, TypeOK, Layout, Control, Headers, Reaping, PutLocal,
              GetLocal, Boundary, End, Room
<1> QED BY <1>2, <1>3, <1>4, <1>5, <1>6 DEF Next

(* The inductive invariant holds in every reachable state: elements are    *)
(* laid out without gaps, the control variables and the locals of reaping  *)
(* are boundaries between them, and everything reclaimed was set done.     *)
THEOREM Invariant == Spec => []IInv
BY InitInvariant, StepInvariant, PTL DEF Spec

-------------------------------------------------------------------------------
(* What follows from the invariant. *)

(* set_ready and set_done find the status they assert, in a header nobody  *)
(* else has written since put wrote it.                                    *)
THEOREM ElementsIntact == Spec => []InUseIntact
<1>1. IInv => InUseIntact
  BY NotReclaimed DEF InUseIntact, InUse
<1> QED BY <1>1, Invariant, PTL

LEMMA DisjointUnits ==
  ASSUME NEW a \in Nat, NEW sa \in Nat, NEW b \in Nat, NEW sb \in Nat,
         a + sa <= b, b + sb <= a + Size
  PROVE  /\ UnitsOf(a, sa) \cap UnitsOf(b, sb) = {}
         /\ UnitsOf(b, sb) \cap UnitsOf(a, sa) = {}
<1>1. ASSUME NEW k \in 0 .. sa - 1, NEW l \in 0 .. sb - 1, Ix(a + k) = Ix(b + l)
      PROVE  FALSE
  <2>1. a + k \in Nat /\ b + l \in Nat /\ a + k < b + l /\ b + l < (a + k) + Size
    BY SizeAssumption
  <2> QED BY <1>1, <2>1, IxInjective
<1> QED BY <1>1 DEF UnitsOf

(* Elements in use, and the one a put is writing, share no unit.           *)
THEOREM ElementsDisjoint == Spec => []NoOverlap
<1>1. ASSUME IInv, NEW i \in DOMAIN items, NEW j \in DOMAIN items, i < j,
             InUse(i)
      PROVE  /\ UnitsOf(items[i].off, items[i].size)
                  \cap UnitsOf(items[j].off, items[j].size) = {}
             /\ UnitsOf(items[j].off, items[j].size)
                  \cap UnitsOf(items[i].off, items[i].size) = {}
  <2>1. End(i) <= items[j].off /\ End(j) <= head
    BY <1>1 DEF IInv, Layout
  <2>2. tail2 <= items[i].off
    BY <1>1, NotReclaimed DEF InUse
  <2>3. items[j].off + items[j].size <= items[i].off + Size
    BY <1>1, <2>1, <2>2, ElementTypes, LessThanARound, SizeAssumption DEF End
  <2> QED BY <1>1, <2>1, <2>3, ElementTypes, DisjointUnits DEF End
<1>2. ASSUME IInv, NEW i \in DOMAIN items, InUse(i), putpc \in {"write", "publish"}
      PROVE  UnitsOf(items[i].off, items[i].size) \cap UnitsOf(head, need) = {}
  <2>1. tail2 <= items[i].off
    BY <1>2, NotReclaimed DEF InUse
  <2>2. need \in Nat /\ Room(head + need)
    BY <1>2, SizeAssumption DEF IInv, PutLocal, TypeOK
  <2>3. (head + need) - tail2 < Size
    BY <1>2, <2>2, LessThanARound, RoomPositive, SizeAssumption DEF Room
  <2>4. End(i) <= head
    BY <1>2 DEF IInv, Layout
  <2>5. head + need <= items[i].off + Size
    BY <1>2, <2>1, <2>2, <2>3, ElementTypes, LessThanARound, SizeAssumption
  <2> QED BY <1>2, <2>2, <2>4, <2>5, ElementTypes, LessThanARound, DisjointUnits DEF End
<1>3. IInv => NoOverlap
  <2> SUFFICES ASSUME IInv PROVE NoOverlap
    OBVIOUS
  <2>1. ASSUME NEW i \in DOMAIN items, NEW j \in DOMAIN items, i # j, InUse(i), InUse(j)
        PROVE  UnitsOf(items[i].off, items[i].size)
                 \cap UnitsOf(items[j].off, items[j].size) = {}
    <3>1. i < j \/ j < i
      BY <2>1, ElementTypes
    <3> QED BY <1>1, <2>1, <3>1
  <2> QED BY <1>2, <2>1 DEF NoOverlap
<1> QED BY <1>3, Invariant, PTL

(* The roles that the comment in ring_buffer_create gives to head, tail    *)
(* and tail2.                                                              *)
THEOREM ControlVariablesOrdered == Spec => []ControlVariables
<1>1. IInv => ControlVariables
  BY LessThanARound DEF IInv, Control, ControlVariables, InUse
<1> QED BY <1>1, Invariant, PTL

(* free_space_size never wraps around, whatever the alignment.             *)
THEOREM FreeSpaceNeverWraps == Spec => []NoUnderflow
<1>1. IInv => NoUnderflow
  <2> SUFFICES ASSUME IInv PROVE NoUnderflow
    OBVIOUS
  <2>1. Gap(head, tail2) = Size - (head - tail2)
    BY LessThanARound, GapIsRoom, SizeAssumption
  <2>2. Gap(head, tail2) * Align > HeaderBytes
    BY <2>1 DEF IInv, Control, Room
  <2>3. Gap(head, tail2) \in Int
    BY <2>1, LessThanARound, SizeAssumption
  <2> QED BY <2>2, <2>3, AlignAssumption DEF NoUnderflow, FreeSpace, HeaderBytes
<1> QED BY <1>1, Invariant, PTL

(* What GetPublish does to the elements: the one at tail, which was ready, *)
(* is the first one not dequeued, and only its phase changes.              *)
LEMMA TakesTheOldest ==
  ASSUME IInv, GetPublish
  PROVE  \E i \in DOMAIN items :
           /\ ~Direct
           /\ items[i].phase = "ready"
           /\ \A j \in 1 .. i - 1 : items[j].phase \in {"got", "done"}
           /\ items' = [items EXCEPT ![i] = WithPhase(items[i], "got")]
<1>1. PICK i \in DOMAIN items : items[i].off = tail /\ items[i].phase = "ready"
  BY DEF IInv, GetLocal, GetPublish
<1>2. ~Direct /\ getpos = tail
  BY DEF IInv, GetLocal, GetPublish
<1>3. ASSUME NEW j \in 1 .. i - 1 PROVE items[j].phase \in {"got", "done"}
  <2>1. j \in DOMAIN items /\ j < i
    BY <1>1, ElementTypes
  <2>2. End(j) <= tail
    BY <1>1, <2>1 DEF IInv, Layout
  <2>3. items[j].off < tail
    BY <2>1, <2>2, ElementTypes, LessThanARound DEF End
  <2> QED BY <1>2, <2>1, <2>3 DEF IInv, Control
<1>4. \A j \in DOMAIN items : items[j].off = getpos <=> j = i
  BY <1>1, <1>2, OffsetsDiffer
<1>5. items' = [items EXCEPT ![i] = WithPhase(items[i], "got")]
  <2>1. /\ \A j \in DOMAIN items :
             items'[j] = IF j = i THEN WithPhase(items[i], "got") ELSE items[j]
        /\ items' = [j \in DOMAIN items |-> items'[j]]
    BY <1>4 DEF GetPublish
  <2>2. items' = [j \in DOMAIN items |->
                    IF j = i THEN WithPhase(items[i], "got") ELSE items[j]]
    BY <2>1
  <2>3. items \in Seq(Element)
    BY DEF IInv, TypeOK
  <2> HIDE DEF IInv
  <2> QED BY <2>2, <2>3, SMT
<1> QED BY <1>1, <1>2, <1>3, <1>5

LEMMA OrderStep ==
  ASSUME IInv, [Next]_vars, NEW i \in DOMAIN items,
         items'[i].phase = "got", items[i].phase # "got"
  PROVE  /\ items[i].phase = "ready"
         /\ \A j \in 1 .. i - 1 : items[j].phase \in {"got", "done"}
<1> DEFINE Ordered == /\ items[i].phase = "ready"
                      /\ \A j \in 1 .. i - 1 : items[j].phase \in {"got", "done"}
<1>1. CASE GetPublish
  <2>1. PICK k \in DOMAIN items :
          /\ items[k].phase = "ready"
          /\ \A j \in 1 .. k - 1 : items[j].phase \in {"got", "done"}
          /\ items' = [items EXCEPT ![k] = WithPhase(items[k], "got")]
    BY <1>1, TakesTheOldest
  <2>2. i = k
    BY <2>1
  <2> QED BY <2>1, <2>2
<1>2. CASE PutPublish
  <2>1. items'[i] = items[i]
    BY <1>2, ElementTypes DEF IInv, TypeOK, PutPublish
  <2> QED BY <2>1
<1>3. ASSUME NEW k \in DOMAIN items, NEW st \in {"ready", "done"}, SetStatus(k, st)
      PROVE  Ordered
  <2>1. items'[i] = IF i = k THEN WithPhase(items[k], st) ELSE items[i]
    BY <1>3 DEF SetStatus
  <2>2. i = k => items'[i].phase = st
    BY <2>1, ElementTypes, WithPhaseType DEF Phases
  <2> QED BY <2>1, <2>2
<1>4. CASE UserStep
  BY <1>3, <1>4 DEF UserStep, SetReady, SetDone
<1>5. ASSUME items' = items PROVE Ordered
  BY <1>5
<1> QED
  BY <1>1, <1>2, <1>4, <1>5
     DEF Next, PutStep, GetStep, vars, PutCall, PutCheck, ReapAdvance, ReapStop,
         ReapAllAdvance, ReapAllStop, ReapAllCas, PutPeek, PutElement, GetReady,
         GetNotReady, GetPeek

(* get hands out ready elements, each once, in the order of their puts.    *)
THEOREM DeliveryOrder == Spec => DeliveredInOrder
<1>1. IInv /\ [Next]_vars =>
        [\A i \in DOMAIN items :
           items'[i].phase = "got" /\ items[i].phase # "got" =>
             /\ items[i].phase = "ready"
             /\ \A j \in 1 .. i - 1 : items[j].phase \in {"got", "done"}]_vars
  BY OrderStep
<1> QED BY <1>1, Invariant, PTL DEF Spec, DeliveredInOrder
-------------------------------------------------------------------------------
(* The ring buffer implements the claim queue. *)

LEMMA EndIsHead ==
  ASSUME IInv
  PROVE  Promise!EndOf(items, tail2) = head
BY DEF Promise!EndOf, IInv, Layout, End

LEMMA ClaimStep ==
  ASSUME IInv, PutPublish
  PROVE  Promise!Claim(need)
<1>1. need \in Sizes /\ need \in Nat /\ Room(head + need)
  BY SizesAssumption, SizeAssumption DEF IInv, PutPublish, PutLocal, PutSteps, TypeOK
<1>2. (head + need) - tail2 < Size
  BY <1>1, LessThanARound, RoomPositive, SizeAssumption DEF Room
<1>3. Promise!EndOf(items, tail2) + need - tail2 < Size
  BY <1>1, <1>2, EndIsHead, LessThanARound
<1>4. items' = Append(items, [off |-> Promise!EndOf(items, tail2), size |-> need,
                              phase |-> "reserved"])
  BY EndIsHead DEF PutPublish
<1>5. UNCHANGED tail2
  BY DEF PutPublish
<1> QED BY <1>3, <1>4, <1>5 DEF Promise!Claim

LEMMA ReclaimStep ==
  ASSUME IInv, ReapStop \/ ReapAllStop
  PROVE  \/ \E f \in tail2 + 1 .. Promise!EndOf(items, tail2) : Promise!Reclaim(f)
         \/ UNCHANGED <<items, tail2>>
<1>1. /\ tail2' = rbtail2 /\ items' = items /\ rbtail2 \in Nat
      /\ Boundary(rbtail2) /\ tail2 <= rbtail2 /\ rbtail2 <= head
      /\ \A i \in DOMAIN items : items[i].off < rbtail2 => items[i].phase = "done"
  BY DEF IInv, TypeOK, Reaping, ReapStop, ReapAllStop
<1>2. \A i \in DOMAIN items :
        items[i].off < rbtail2 => items[i].off + items[i].size <= rbtail2
  BY <1>1, EndsBefore DEF IInv, End
<1>3. CASE rbtail2 = tail2
  BY <1>1, <1>3
<1>4. CASE rbtail2 > tail2
  <2>1. Promise!Reclaim(rbtail2)
    BY <1>1, <1>2, <1>4, EndIsHead DEF Promise!Reclaim
  <2>2. rbtail2 \in tail2 + 1 .. Promise!EndOf(items, tail2)
    BY <1>1, <1>4, EndIsHead, LessThanARound
  <2> QED BY <2>1, <2>2
<1> QED BY <1>1, <1>3, <1>4, LessThanARound

LEMMA RefinementStep ==
  ASSUME IInv, [Next]_vars
  PROVE  [Promise!Next]_<<items, tail2>>
<1>1. CASE PutPublish
  <2>1. need \in Sizes
    BY <1>1 DEF IInv, PutPublish, PutLocal, PutSteps
  <2> QED BY <1>1, <2>1, ClaimStep DEF Promise!Next
<1>2. CASE ReapStop \/ ReapAllStop
  BY <1>2, ReclaimStep DEF Promise!Next
<1>3. CASE GetPublish
  <2>1. PICK i \in DOMAIN items :
          /\ ~Direct
          /\ items[i].phase = "ready"
          /\ \A j \in 1 .. i - 1 : items[j].phase \in {"got", "done"}
          /\ items' = [items EXCEPT ![i] = WithPhase(items[i], "got")]
    BY <1>3, TakesTheOldest
  <2>2. Promise!Take(i)
    BY <1>3, <2>1
       DEF Promise!Take, Promise!Taken, Promise!Advance, WithPhase, GetPublish
  <2> QED BY <2>2 DEF Promise!Next
<1>4. ASSUME NEW i \in DOMAIN items, SetReady(i) PROVE Promise!MakeReady(i)
  BY <1>4 DEF SetReady, SetStatus, WithPhase, Promise!MakeReady, Promise!Advance, control
<1>5. ASSUME NEW i \in DOMAIN items, SetDone(i) PROVE Promise!Finish(i)
  BY <1>5 DEF SetDone, SetStatus, WithPhase, Promise!Finish, Promise!Advance, control
<1>6. CASE UserStep
  BY <1>4, <1>5, <1>6 DEF UserStep, Promise!Next
<1>7. ASSUME UNCHANGED <<items, tail2>> PROVE [Promise!Next]_<<items, tail2>>
  BY <1>7
<1> QED
  BY <1>1, <1>2, <1>3, <1>6, <1>7
     DEF Next, PutStep, GetStep, vars, control, PutCall, PutCheck, ReapAdvance,
         ReapAllAdvance, ReapAllCas, PutPeek, PutElement, GetReady, GetNotReady, GetPeek

(* Claimed, readied, taken, finished and reclaimed exactly as a claim      *)
(* queue does it, with tail2 as the limit of reuse.                        *)
THEOREM Refinement == Spec => ImplementsClaimQueue
<1>1. Init => Promise!Init
  BY DEF Init, Promise!Init, Pos
<1>2. IInv /\ [Next]_vars => [Promise!Next]_(Promise!vars)
  BY RefinementStep DEF Promise!vars
<1> QED BY <1>1, <1>2, Invariant, PTL DEF Spec, ImplementsClaimQueue, Promise!Spec

(***************************************************************************)
(* Combining: one combiner at a time, and operations in the order of       *)
(* arrival.  It is what RingBuffer takes for granted when it lets one put  *)
(* and one get execute at a time.                                          *)
(***************************************************************************)
Places == Combining \cup Waiting \cup {"idle", "link", "pending", "release_last"}

Types ==
  /\ req_tail \in Threads \cup {NoReq}
  /\ next \in [Threads -> Threads \cup {NoReq}]
  /\ done \in [Threads -> BOOLEAN] /\ combiner \in [Threads -> BOOLEAN]
  /\ pc \in [Threads -> Places]
  /\ cur \in [Threads -> Threads \cup {NoReq}]
  /\ order \in Seq(Threads)
  /\ DOMAIN rc = Threads /\ DOMAIN nxt = Threads

Queued(t) == \E i \in 1 .. Len(order) : order[i] = t

(* The wait list is the requests in order, linked one to the next but for  *)
(* those whose owners are about to link them, and req_tail is the last.    *)
WaitList ==
  /\ \A i, j \in 1 .. Len(order) : order[i] = order[j] => i = j
  /\ order = <<>> => req_tail = NoReq
  /\ order # <<>> => req_tail = order[Len(order)] /\ next[order[Len(order)]] = NoReq
  /\ \A i \in 1 .. Len(order) - 1 :
       IF pc[order[i + 1]] = "link"
         THEN cur[order[i + 1]] = order[i] /\ next[order[i]] = NoReq
         ELSE next[order[i]] = order[i + 1]

(* A request in the list is not done; behind the first, it is untouched.   *)
Requests ==
  /\ \A i \in 1 .. Len(order) :
       ~done[order[i]] /\ pc[order[i]] \notin {"idle", "release_last"}
  /\ \A i \in 2 .. Len(order) :
       /\ rc[order[i]] = "inprogress"
       /\ ~combiner[order[i]] /\ pc[order[i]] \notin Combining
  /\ order # <<>> => pc[order[1]] # "link"

IsChosen(t) ==
  pc[t] \in Combining \/ (pc[t] \in Waiting /\ ~done[t] /\ combiner[t])

(* One thread is chosen if requests wait, and it is at the first of them.  *)
OneChosen ==
  /\ \A s, t \in Threads : IsChosen(s) /\ IsChosen(t) => s = t
  /\ order # <<>> => \E t \in Threads : IsChosen(t)
  /\ \A t \in Threads : pc[t] \in Combining =>
       order # <<>> /\ cur[t] = order[1] /\ (cur[t] # t => done[t])
  /\ \A t \in Threads : pc[t] \in Waiting /\ ~done[t] /\ combiner[t] =>
       order # <<>> /\ t = order[1]

(* What a combiner knows at the ends of its loop.                          *)
Combiners ==
  \A t \in Threads :
    /\ pc[t] = "release" =>
         /\ Len(order) >= 2
         /\ nxt[t] = order[2] /\ next[order[1]] = order[2]
    /\ pc[t] = "hand_over" => cur[t] # t /\ cur[t] \in Blocking

(* Threads outside the list, and the requests just taken off it.           *)
Callers ==
  \A t \in Threads :
    /\ pc[t] = "link" => Queued(t)
    /\ pc[t] \in Waiting => t \in Blocking
    /\ pc[t] = "pending" => t \notin Blocking
    /\ pc[t] \in Waiting \cup {"pending"} /\ ~done[t] =>
         Queued(t) \/ \E s \in Threads : pc[s] = "release_last" /\ cur[s] = t

Leaving ==
  /\ \A t \in Threads : pc[t] = "release_last" =>
       /\ cur[t] \in Threads /\ ~Queued(cur[t]) /\ ~done[cur[t]]
       /\ cur[t] # t => /\ pc[cur[t]] \in Waiting \cup {"pending"}
                        /\ pc[cur[t]] \in Waiting => ~combiner[cur[t]]
                        /\ done[t]
  /\ \A s, t \in Threads :
       pc[s] = "release_last" /\ pc[t] = "release_last" /\ cur[s] = cur[t] => s = t

CombiningIInv ==
  Types /\ WaitList /\ Requests /\ OneChosen /\ Combiners /\ Callers /\ Leaving
-------------------------------------------------------------------------------
LEMMA InitHolds == CombiningInit => CombiningIInv
<1> SUFFICES ASSUME CombiningInit PROVE CombiningIInv
    OBVIOUS
<1> USE DEF CombiningInit
<1>1. order = <<>> /\ Len(order) = 0 /\ order \in Seq(Threads)
  BY EmptySeq
<1>2. Types
  <2>1. done \in [Threads -> BOOLEAN] /\ combiner \in [Threads -> BOOLEAN]
    BY Zenon
  <2>2. pc \in [Threads -> Places]
    BY DEF Places
  <2> QED
    BY <1>1, <2>1, <2>2 DEF Types
<1>3. WaitList /\ Requests
  BY <1>1 DEF WaitList, Requests
<1>4. \A t \in Threads : pc[t] = "idle"
  OBVIOUS
<1>5. OneChosen
  BY <1>1, <1>4 DEF OneChosen, IsChosen, Combining, Waiting
<1>6. Combiners /\ Callers /\ Leaving
  BY <1>4 DEF Combiners, Callers, Leaving, Waiting
<1> QED
  BY <1>2, <1>3, <1>5, <1>6 DEF CombiningIInv

(* A step that leaves the list, the flags of the requests and the kind of  *)
(* every thread's place alone.                                             *)
SameKind(p, q) ==
  /\ p \in Combining <=> q \in Combining
  /\ p \in Waiting <=> q \in Waiting
  /\ p \notin Combining \cup Waiting => p = q

Quiet ==
  /\ UNCHANGED <<req_tail, next, done, combiner, cur, order>>
  /\ pc' \in [Threads -> Places]
  /\ \A t \in Threads : SameKind(pc[t], pc'[t])
  /\ DOMAIN rc' = Threads /\ DOMAIN nxt' = Threads
  /\ \A i \in 2 .. Len(order) : rc'[order[i]] = rc[order[i]]
  /\ Combiners'

LEMMA Kinds ==
  /\ "idle" \notin Combining \cup Waiting
  /\ "link" \notin Combining \cup Waiting
  /\ "pending" \notin Combining \cup Waiting
  /\ "release_last" \notin Combining \cup Waiting
  /\ Combining \cap Waiting = {}
BY DEF Combining, Waiting

LEMMA QuietKeeps ==
  ASSUME CombiningIInv, Quiet
  PROVE  CombiningIInv'
<1> USE DEF CombiningIInv, Quiet
<1>1. \A t \in Threads :
        /\ pc'[t] \in Combining <=> pc[t] \in Combining
        /\ pc'[t] \in Waiting <=> pc[t] \in Waiting
        /\ \A p \in {"idle", "link", "pending", "release_last"} :
             pc'[t] = p <=> pc[t] = p
  BY Kinds DEF SameKind, Types, Places
<1>2. \A i \in 1 .. Len(order) : order[i] \in Threads
  BY ElementOfSeq DEF Types
<1>3. Len(order) \in Nat /\ (order # <<>> => Len(order) > 0)
  BY EmptySeq, LenProperties DEF Types
<1>4. Types'
  BY DEF Types
<1>5. WaitList'
  BY <1>1, <1>2, <1>3 DEF WaitList
<1>6. Requests'
  BY <1>1, <1>2, <1>3 DEF Requests
<1>7. \A t \in Threads : IsChosen(t)' <=> IsChosen(t)
  BY <1>1 DEF IsChosen
<1>8. OneChosen'
  BY <1>1, <1>7 DEF OneChosen
<1>9. Callers'
  BY <1>1 DEF Callers, Queued
<1>10. Leaving'
  BY <1>1 DEF Leaving, Queued
<1> QED
  BY <1>4, <1>5, <1>6, <1>8, <1>9, <1>10

(* Quiet steps of one thread t that leave everything but pc, and flags the *)
(* invariant does not speak of, alone.                                     *)
LEMMA MoveIsQuiet ==
  ASSUME CombiningIInv, NEW t \in Threads, NEW p \in Places,
         UNCHANGED <<req_tail, request, locals, order>>,
         pc' = [pc EXCEPT ![t] = p], SameKind(pc[t], p),
         p \notin {"release", "hand_over"}
  PROVE  Quiet
<1> USE DEF CombiningIInv, Quiet, request, locals
<1>1. pc' \in [Threads -> Places] /\ \A s \in Threads : SameKind(pc[s], pc'[s])
  BY DEF Types, SameKind
<1>2. Combiners'
  BY DEF Combiners, Types
<1> QED
  BY <1>1, <1>2 DEF Types

LEMMA DozingIsQuiet ==
  ASSUME CombiningIInv, NEW t \in Threads,
         Doze(t) \/ DozeLock(t) \/ DozeCheck(t) \/ DozeSleep(t)
  PROVE  Quiet
<1> USE DEF Go, SameKind, Places, Waiting, Combining
<1>1. CASE Doze(t)
  BY <1>1, MoveIsQuiet DEF Doze
<1>2. CASE DozeLock(t)
  BY <1>2, MoveIsQuiet DEF DozeLock
<1>3. CASE DozeCheck(t)
  BY <1>3, MoveIsQuiet DEF DozeCheck
<1>4. CASE DozeSleep(t)
  BY <1>4, MoveIsQuiet DEF DozeSleep
<1> QED
  BY <1>1, <1>2, <1>3, <1>4

LEMMA WakingIsQuiet ==
  ASSUME CombiningIInv, NEW t \in Threads,
         PeekNap(t) \/ Monitor(t) \/ WakeClear(t) \/ WakeLock(t)
  PROVE  Quiet
<1> USE DEF Go, SameKind, Places, Waiting, Combining
<1>1. CASE PeekNap(t)
  <2>1. PICK p \in {"monitor", "exec"} : pc' = [pc EXCEPT ![t] = p]
    BY <1>1 DEF PeekNap
  <2>2. pc[t] = "peek" /\ UNCHANGED <<req_tail, request, locals, order>>
    BY <1>1 DEF PeekNap
  <2> QED
    BY <2>1, <2>2, MoveIsQuiet
<1>2. CASE Monitor(t)
  BY <1>2, MoveIsQuiet DEF Monitor
<1>3. CASE WakeClear(t)
  <2>1. PICK p \in {"wake_lock", "exec", "next"} : pc' = [pc EXCEPT ![t] = p]
    BY <1>3 DEF WakeClear, AfterWake
  <2>2. pc[t] = "wake" /\ UNCHANGED <<req_tail, request, locals, order>>
    BY <1>3 DEF WakeClear
  <2> QED
    BY <2>1, <2>2, MoveIsQuiet
<1>4. CASE WakeLock(t)
  BY <1>4, MoveIsQuiet DEF WakeLock
<1> QED
  BY <1>1, <1>2, <1>3, <1>4

LEMMA WakeAllIsQuiet ==
  ASSUME CombiningIInv, NEW t \in Threads, WakeAll(t)
  PROVE  Quiet
<1> USE DEF CombiningIInv, WakeAll
<1>1. \A s \in Threads :
        \/ pc'[s] = pc[s]
        \/ s = t /\ pc[s] = "wake_all" /\ pc'[s] \in {"exec", "next"}
        \/ pc[s] = "asleep" /\ pc'[s] = "doze"
  OBVIOUS
<1>2. \A s \in Threads : SameKind(pc[s], pc'[s])
  BY <1>1 DEF SameKind, Combining, Waiting
<1>3. pc' \in [Threads -> Places]
  <2>1. \A s \in Threads : pc'[s] \in Places
    BY <1>1 DEF Places, Combining, Waiting, Types
  <2> QED
    BY <2>1
<1>4. Combiners'
  BY <1>1 DEF Combiners, locals, request
<1> QED
  BY <1>2, <1>3, <1>4 DEF Quiet, request, locals, Types

(* The request executed is the first of the list.                          *)
LEMMA ExecIsQuiet ==
  ASSUME CombiningIInv, NEW t \in Threads, Exec(t)
  PROVE  Quiet
<1> USE DEF CombiningIInv, Exec, Go
<1>1. pc[t] = "exec" /\ order # <<>> /\ cur[t] = order[1]
  BY DEF OneChosen, Combining
<1>2. PICK p \in {"next", "hand_over", "peek", "wake"} :
        /\ pc' = [pc EXCEPT ![t] = p]
        /\ p = "hand_over" => cur[t] # t /\ cur[t] \in Blocking
  BY DEF AfterExec
<1>3. PICK c : rc' = [rc EXCEPT ![cur[t]] = c]
  OBVIOUS
<1>4. \A i \in 2 .. Len(order) : rc'[order[i]] = rc[order[i]]
  <2>1. \A i \in 2 .. Len(order) : order[i] # order[1] /\ order[i] \in Threads
    BY ElementOfSeq, LenProperties DEF WaitList, Types
  <2> QED
    BY <1>1, <1>3, <2>1 DEF Types
<1>5. \A s \in Threads : SameKind(pc[s], pc'[s])
  BY <1>1, <1>2 DEF SameKind, Combining, Waiting, Types
<1>6. pc' \in [Threads -> Places]
  BY <1>2 DEF Types, Places, Combining
<1>7. Combiners'
  BY <1>2 DEF Combiners, Types, locals, request
<1> QED
  BY <1>3, <1>4, <1>5, <1>6, <1>7 DEF Quiet, request, locals, Types

(* The next request is known once it is linked.                            *)
LEMMA NextIsQuiet ==
  ASSUME CombiningIInv, NEW t \in Threads, ReadNext(t) \/ AwaitLink(t)
  PROVE  Quiet
<1> USE DEF CombiningIInv, Go
<1>1. pc[t] \in {"next", "await_link"} /\ nxt' = [nxt EXCEPT ![t] = next[cur[t]]]
  BY DEF ReadNext, AwaitLink
<1>2. order # <<>> /\ cur[t] = order[1] /\ order[1] \in Threads /\ Len(order) \in Nat /\ Len(order) >= 1
  BY <1>1, ElementOfSeq, EmptySeq, LenProperties DEF OneChosen, Combining, Types
<1>3. PICK p \in {"cas", "release"} :
        pc' = [pc EXCEPT ![t] = p] /\ (p = "release" => next[cur[t]] # NoReq)
  BY DEF ReadNext, AwaitLink
<1>4. next[cur[t]] # NoReq => Len(order) >= 2 /\ next[order[1]] = order[2]
  BY <1>2 DEF WaitList
<1>5. \A s \in Threads : SameKind(pc[s], pc'[s])
  BY <1>1, <1>3 DEF SameKind, Combining, Waiting, Types
<1>6. pc' \in [Threads -> Places]
  BY <1>3 DEF Types, Places, Combining
<1>7. UNCHANGED <<req_tail, request, cur, order>>
  BY DEF ReadNext, AwaitLink
<1>8. Combiners'
  BY <1>1, <1>2, <1>3, <1>4, <1>7 DEF Combiners, Types, request
<1> QED
  BY <1>1, <1>5, <1>6, <1>7, <1>8 DEF Quiet, request, Types

LEMMA CasFailsQuietly ==
  ASSUME CombiningIInv, NEW t \in Threads, CasTail(t), req_tail # cur[t]
  PROVE  Quiet
BY MoveIsQuiet DEF CasTail, Go, SameKind, Places, Waiting, Combining

(* A combiner is not at its own end of the list: nobody else is chosen.    *)
LEMMA CombinerFacts ==
  ASSUME CombiningIInv, NEW t \in Threads, pc[t] \in Combining
  PROVE  /\ Len(order) \in Nat /\ Len(order) >= 1 /\ order # <<>>
         /\ order[1] \in Threads /\ cur[t] = order[1]
         /\ \A i \in 1 .. Len(order) : order[i] \in Threads
         /\ \A s \in Threads : IsChosen(s) => s = t
         /\ cur[t] # t => done[t] /\ \A i \in 1 .. Len(order) : order[i] # t
<1> USE DEF CombiningIInv
<1>1. order # <<>> /\ cur[t] = order[1] /\ (cur[t] # t => done[t])
  BY DEF OneChosen
<1>2. Len(order) \in Nat /\ Len(order) >= 1
  BY <1>1, EmptySeq, LenProperties DEF Types
<1>3. \A i \in 1 .. Len(order) : order[i] \in Threads
  BY ElementOfSeq DEF Types
<1>4. \A s \in Threads : IsChosen(s) => s = t
  BY DEF OneChosen, IsChosen
<1>5. cur[t] # t => \A i \in 1 .. Len(order) : order[i] # t
  BY <1>1 DEF Requests
<1> QED
  BY <1>1, <1>2, <1>3, <1>4, <1>5

(* A list of one has no successor of the first request: req_tail is the    *)
(* first request only if it is the last.                                   *)
LEMMA LastRequest ==
  ASSUME CombiningIInv, NEW t \in Threads, pc[t] = "cas", req_tail = cur[t]
  PROVE  Len(order) = 1 /\ Tail(order) = <<>>
<1> USE DEF CombiningIInv
<1>1. pc[t] \in Combining
  BY DEF Combining
<1>2. order[Len(order)] = order[1] /\ Len(order) \in Nat /\ Len(order) >= 1
  BY <1>1, CombinerFacts DEF WaitList
<1>3. Len(order) = 1
  <2>1. 1 \in 1 .. Len(order) /\ Len(order) \in 1 .. Len(order)
    BY <1>2
  <2> QED
    BY <1>2, <2>1 DEF WaitList
<1>4. Tail(order) = <<>>
  <2>1. order \in Seq(Threads) /\ order # <<>>
    BY <1>1, CombinerFacts DEF Types
  <2>2. Tail(order) \in Seq(Threads) /\ Len(Tail(order)) = 0
    BY <1>3, <2>1, HeadTailProperties
  <2> QED
    BY <2>2, EmptySeq
<1> QED
  BY <1>3, <1>4

LEMMA ListFacts ==
  ASSUME CombiningIInv
  PROVE  /\ Len(order) \in Nat /\ order \in Seq(Threads)
         /\ order # <<>> <=> Len(order) >= 1
         /\ \A i \in 1 .. Len(order) : order[i] \in Threads
<1>1. order \in Seq(Threads)
  BY DEF CombiningIInv, Types
<1>2. Len(order) \in Nat /\ (order # <<>> <=> Len(order) >= 1)
  BY <1>1, EmptySeq, LenProperties
<1>3. \A i \in 1 .. Len(order) : order[i] \in Threads
  BY <1>1, ElementOfSeq
<1> QED
  BY <1>1, <1>2, <1>3

(* A caller is nowhere: not in the list and not in a combiner's hands.     *)
LEMMA CallKeeps ==
  ASSUME CombiningIInv, NEW t \in Threads, Call(t)
  PROVE  CombiningIInv'
<1> USE DEF CombiningIInv, Call, Go, StartCombining, locals, request
<1> DEFINE n == Len(order)
<1>1. n \in Nat /\ order \in Seq(Threads) /\ (order # <<>> <=> n >= 1)
      /\ \A i \in 1 .. n : order[i] \in Threads
  BY ListFacts
<1>2. pc[t] = "idle" /\ \A i \in 1 .. n : order[i] # t
  BY DEF Requests
<1>3. /\ order' \in Seq(Threads) /\ order' # <<>> /\ Len(order') = n + 1
      /\ \A i \in 1 .. n : order'[i] = order[i]
      /\ order'[n + 1] = t
  BY <1>1, AppendProperties
<1>4. /\ next' = [next EXCEPT ![t] = NoReq] /\ done' = [done EXCEPT ![t] = FALSE]
      /\ combiner' = [combiner EXCEPT ![t] = FALSE]
      /\ rc' = [rc EXCEPT ![t] = "inprogress"] /\ req_tail' = t
  OBVIOUS
<1>5. PICK p \in {"exec", "link"}, c \in Threads :
        /\ pc' = [pc EXCEPT ![t] = p] /\ cur' = [cur EXCEPT ![t] = c]
        /\ order = <<>> => p = "exec" /\ c = t
        /\ order # <<>> => p = "link" /\ c = order[n]
  <2>1. CASE order = <<>>
    BY <2>1, <1>1 DEF WaitList
  <2>2. CASE order # <<>>
    BY <2>2, <1>1, NullAssumption DEF WaitList
  <2> QED
    BY <2>1, <2>2
<1> HIDE DEF Call
<1>6. /\ done'[t] = FALSE /\ combiner'[t] = FALSE /\ next'[t] = NoReq
      /\ rc'[t] = "inprogress" /\ pc'[t] = p /\ cur'[t] = c
      /\ \A s \in Threads \ {t} :
           /\ done'[s] = done[s] /\ combiner'[s] = combiner[s]
           /\ next'[s] = next[s] /\ rc'[s] = rc[s]
           /\ pc'[s] = pc[s] /\ cur'[s] = cur[s]
  BY <1>4, <1>5 DEF Types
<1>7. UNCHANGED nxt
  BY DEF Call
<1>8. Types'
  <2>1. done' \in [Threads -> BOOLEAN] /\ combiner' \in [Threads -> BOOLEAN]
    BY <1>4, Zenon DEF Types
  <2>2. pc' \in [Threads -> Places]
    BY <1>5 DEF Types, Places, Combining
  <2> QED
    BY <1>3, <1>4, <1>5, <1>7, <2>1, <2>2 DEF Types
<1>9. WaitList'
  <2>1. \A i, j \in 1 .. Len(order') : order'[i] = order'[j] => i = j
    BY <1>1, <1>2, <1>3 DEF WaitList
  <2>2. req_tail' = order'[Len(order')] /\ next'[order'[Len(order')]] = NoReq
    BY <1>3, <1>4, <1>6
  <2>3. ASSUME NEW i \in 1 .. Len(order') - 1
        PROVE  IF pc'[order'[i + 1]] = "link"
                 THEN cur'[order'[i + 1]] = order'[i] /\ next'[order'[i]] = NoReq
                 ELSE next'[order'[i]] = order'[i + 1]
    <3>1. CASE i = n
      <4>1. order # <<>> /\ order'[i + 1] = t /\ order'[i] = order[n]
            /\ order[n] \in Threads \ {t}
        BY <1>1, <1>2, <1>3, <3>1, <2>3
      <4> QED
        BY <4>1, <1>5, <1>6 DEF WaitList
    <3>2. CASE i # n
      <4>1. i \in 1 .. n - 1 /\ i \in 1 .. n /\ i + 1 \in 1 .. n
        BY <1>1, <1>3, <3>2, <2>3
      <4>2. order'[i] = order[i] /\ order'[i + 1] = order[i + 1]
            /\ order[i] \in Threads \ {t} /\ order[i + 1] \in Threads \ {t}
        BY <1>1, <1>2, <1>3, <4>1
      <4> QED
        BY <4>1, <4>2, <1>6 DEF WaitList
    <3> QED
      BY <3>1, <3>2
  <2> QED
    BY <2>1, <2>2, <2>3, <1>3 DEF WaitList
<1>10. Requests'
  <2>1. ASSUME NEW i \in 1 .. Len(order')
        PROVE  /\ ~done'[order'[i]] /\ pc'[order'[i]] \notin {"idle", "release_last"}
               /\ i >= 2 => /\ rc'[order'[i]] = "inprogress"
                            /\ ~combiner'[order'[i]] /\ pc'[order'[i]] \notin Combining
    <3>1. CASE i = n + 1
      BY <1>1, <1>3, <1>5, <1>6, <3>1 DEF Combining
    <3>2. CASE i # n + 1
      <4>1. i \in 1 .. n /\ order'[i] = order[i] /\ order[i] \in Threads \ {t}
        BY <1>1, <1>2, <1>3, <3>2
      <4> QED
        BY <4>1, <1>1, <1>6 DEF Requests
    <3> QED
      BY <3>1, <3>2
  <2>2. pc'[order'[1]] # "link"
    <3>1. CASE order = <<>>
      BY <3>1, <1>1, <1>3, <1>5, <1>6
    <3>2. CASE order # <<>>
      <4>1. 1 \in 1 .. n /\ order'[1] = order[1] /\ order[1] \in Threads \ {t}
        BY <3>2, <1>1, <1>2, <1>3
      <4> QED
        BY <4>1, <3>2, <1>6 DEF Requests
    <3> QED
      BY <3>1, <3>2
  <2> QED
    BY <2>1, <2>2, <1>1, <1>3 DEF Requests
<1>11. \A s \in Threads \ {t} : IsChosen(s)' <=> IsChosen(s)
  BY <1>6 DEF IsChosen
<1>12. IsChosen(t)' <=> order = <<>>
  BY <1>5, <1>6 DEF IsChosen, Combining, Waiting
<1>13. ~IsChosen(t)
  BY <1>2 DEF IsChosen, Combining, Waiting
<1>14. OneChosen'
  <2>1. CASE order = <<>>
    <3>1. \A s \in Threads : ~IsChosen(s)
      BY <2>1 DEF OneChosen, IsChosen
    <3>2. \A s \in Threads : IsChosen(s)' <=> s = t
      BY <3>1, <1>11, <1>12, <2>1
    <3>3. order'[1] = t /\ cur'[t] = t
      BY <1>1, <1>3, <1>5, <1>6, <2>1
    <3> QED
      BY <3>2, <3>3, <1>3 DEF OneChosen, IsChosen
  <2>2. CASE order # <<>>
    <3>1. order'[1] = order[1]
      BY <2>2, <1>1, <1>3
    <3>2. \A s \in Threads : IsChosen(s)' <=> s # t /\ IsChosen(s)
      BY <1>11, <1>12, <2>2
    <3>3. \A r, s \in Threads : IsChosen(r)' /\ IsChosen(s)' => r = s
      BY <3>2 DEF OneChosen
    <3>4. \E s \in Threads : IsChosen(s)'
      BY <3>2, <1>13, <2>2 DEF OneChosen
    <3>5. \A s \in Threads : pc'[s] \in Combining =>
            cur'[s] = order'[1] /\ (cur'[s] # s => done'[s])
      BY <3>1, <3>2, <1>6, <2>2 DEF OneChosen, IsChosen
    <3>6. \A s \in Threads : pc'[s] \in Waiting /\ ~done'[s] /\ combiner'[s] => s = order'[1]
      BY <3>1, <3>2, <1>6, <2>2 DEF OneChosen, IsChosen
    <3> QED
      BY <3>3, <3>4, <3>5, <3>6, <1>3 DEF OneChosen
  <2> QED
    BY <2>1, <2>2
<1>15. Combiners'
  <2>1. ASSUME NEW s \in Threads, pc'[s] = "release"
        PROVE  Len(order') >= 2 /\ nxt'[s] = order'[2] /\ next'[order'[1]] = order'[2]
    <3>1. s # t /\ pc[s] = "release"
      BY <2>1, <1>5, <1>6
    <3>2. n >= 2 /\ nxt[s] = order[2] /\ next[order[1]] = order[2]
      BY <3>1 DEF Combiners
    <3>3. order'[1] = order[1] /\ order'[2] = order[2] /\ order[1] \in Threads \ {t}
      BY <3>2, <1>1, <1>2, <1>3
    <3> QED
      BY <3>2, <3>3, <1>1, <1>3, <1>6, <1>7
  <2>2. ASSUME NEW s \in Threads, pc'[s] = "hand_over"
        PROVE  cur'[s] # s /\ cur'[s] \in Blocking
    BY <2>2, <1>5, <1>6 DEF Combiners
  <2> QED
    BY <2>1, <2>2 DEF Combiners
<1>16. Queued(t)' /\ \A s \in Threads \ {t} : Queued(s)' <=> Queued(s)
  <2>1. \A i \in 1 .. n + 1 : i \in 1 .. n \/ i = n + 1
    BY <1>1
  <2> QED
    BY <1>1, <1>3, <2>1 DEF Queued
<1>17. \A s \in Threads : pc[s] = "release_last" => s # t /\ cur[s] # t
  BY <1>2 DEF Leaving, Waiting
<1>18. \A s \in Threads : pc'[s] = "release_last" <=> pc[s] = "release_last"
  BY <1>2, <1>5, <1>6
<1>19. Callers'
  <2>1. ASSUME NEW s \in Threads \ {t} PROVE
          /\ pc'[s] = "link" => Queued(s)'
          /\ pc'[s] \in Waiting => s \in Blocking
          /\ pc'[s] = "pending" => s \notin Blocking
          /\ pc'[s] \in Waiting \cup {"pending"} /\ ~done'[s] =>
               Queued(s)' \/ \E r \in Threads : pc'[r] = "release_last" /\ cur'[r] = s
    BY <1>6, <1>16, <1>17, <1>18 DEF Callers
  <2>2. pc'[t] \notin Waiting /\ pc'[t] # "pending"
    BY <1>5, <1>6 DEF Waiting
  <2> QED
    BY <2>1, <2>2, <1>16 DEF Callers
<1>20. Leaving'
  <2>1. \A s \in Threads : pc'[s] = "release_last" => cur'[s] = cur[s] /\ s # t /\ cur[s] \in Threads \ {t}
    BY <1>6, <1>17, <1>18 DEF Leaving
  <2> QED
    BY <2>1, <1>6, <1>16, <1>18 DEF Leaving
<1> QED
  BY <1>8, <1>9, <1>10, <1>14, <1>15, <1>19, <1>20

(* The link to the predecessor: the one found in req_tail.                 *)
LEMMA LinkKeeps ==
  ASSUME CombiningIInv, NEW t \in Threads, Link(t)
  PROVE  CombiningIInv'
<1> USE DEF CombiningIInv
<1> DEFINE n == Len(order)
<1>1. n \in Nat /\ (order # <<>> <=> n >= 1) /\ \A i \in 1 .. n : order[i] \in Threads
  BY ListFacts
<1>2. pc[t] = "link"
  BY DEF Link
<1>3. PICK k \in 1 .. n : order[k] = t
  BY <1>2 DEF Callers, Queued
<1>4. k \in 2 .. n /\ k - 1 \in 1 .. n - 1 /\ (k - 1) + 1 = k
  BY <1>1, <1>2, <1>3 DEF Requests
<1>5. cur[t] = order[k - 1] /\ next[order[k - 1]] = NoReq /\ order[k - 1] \in Threads
  BY <1>1, <1>2, <1>3, <1>4 DEF WaitList
<1>6. PICK p \in {"wait", "pending"} :
        /\ pc' = [pc EXCEPT ![t] = p]
        /\ p = "wait" => t \in Blocking
        /\ p = "pending" => t \notin Blocking
  BY DEF Link, Go
<1>7. next' = [next EXCEPT ![order[k - 1]] = t]
      /\ UNCHANGED <<req_tail, rc, done, combiner, cur, nxt, order>>
  BY <1>5 DEF Link, locals
<1>8. /\ next'[order[k - 1]] = t /\ pc'[t] = p
      /\ \A s \in Threads : s # order[k - 1] => next'[s] = next[s]
      /\ \A s \in Threads : s # t => pc'[s] = pc[s]
  BY <1>5, <1>6, <1>7 DEF Types
<1>9. \A i, j \in 1 .. n : order[i] = order[j] => i = j
  BY DEF WaitList
<1>10. Types'
  <2>1. pc' \in [Threads -> Places]
    BY <1>6 DEF Types, Places, Waiting
  <2> QED
    BY <1>5, <1>7, <2>1 DEF Types
<1>11. WaitList'
  <2>1. req_tail' = order[n] /\ next'[order[n]] = NoReq
    <3>1. order # <<>> /\ n \in 1 .. n /\ k - 1 \in 1 .. n /\ n # k - 1
      BY <1>1, <1>4
    <3>2. order[n] # order[k - 1] /\ order[n] \in Threads
      BY <3>1, <1>1, <1>9
    <3> QED
      BY <3>1, <3>2, <1>7, <1>8 DEF WaitList
  <2>2. ASSUME NEW i \in 1 .. n - 1
        PROVE  IF pc'[order[i + 1]] = "link"
                 THEN cur[order[i + 1]] = order[i] /\ next'[order[i]] = NoReq
                 ELSE next'[order[i]] = order[i + 1]
    <3>1. CASE i = k - 1
      BY <3>1, <1>3, <1>4, <1>6, <1>8
    <3>2. CASE i # k - 1
      <4>1. i \in 1 .. n /\ i + 1 \in 1 .. n /\ k - 1 \in 1 .. n /\ i + 1 # k
        BY <3>2, <1>1, <1>4
      <4>2. order[i] # order[k - 1] /\ order[i + 1] # t /\ order[i] \in Threads /\ order[i + 1] \in Threads
        BY <4>1, <3>2, <1>1, <1>3, <1>9
      <4> QED
        BY <4>2, <1>8 DEF WaitList
    <3> QED
      BY <3>1, <3>2
  <2> QED
    BY <2>1, <2>2, <1>1, <1>4, <1>7, <1>9 DEF WaitList
<1>12. Requests'
  BY <1>1, <1>6, <1>7, <1>8 DEF Requests, Combining
<1>13. ~done[t] /\ ~combiner[t]
  BY <1>3, <1>4 DEF Requests
<1>14. \A s \in Threads : IsChosen(s)' <=> IsChosen(s)
  BY <1>2, <1>6, <1>7, <1>8, <1>13 DEF IsChosen, Combining, Waiting
<1>15. \A s \in Threads : pc'[s] \in Combining <=> pc[s] \in Combining
  BY <1>2, <1>6, <1>8 DEF Combining
<1>16. OneChosen'
  BY <1>7, <1>8, <1>13, <1>14, <1>15 DEF OneChosen
<1>17. Combiners'
  <2>1. ASSUME NEW s \in Threads, pc'[s] = "release"
        PROVE  n >= 2 /\ nxt[s] = order[2] /\ next'[order[1]] = order[2]
    <3>1. pc[s] = "release"
      BY <2>1, <1>6, <1>8
    <3>2. n >= 2 /\ nxt[s] = order[2] /\ next[order[1]] = order[2]
      BY <3>1 DEF Combiners
    <3>3. 1 \in 1 .. n /\ order[1] \in Threads /\ order[2] \in Threads
      BY <3>2, <1>1
    <3>4. order[1] # order[k - 1]
      BY <3>2, <3>3, <1>5, NullAssumption
    <3> QED
      BY <3>2, <3>3, <3>4, <1>8
  <2>2. \A s \in Threads : pc'[s] = "hand_over" => pc[s] = "hand_over"
    BY <1>6, <1>8
  <2> QED
    BY <2>1, <2>2, <1>7 DEF Combiners
<1>18. Queued(t) /\ \A s \in Threads : Queued(s)' <=> Queued(s)
  BY <1>3, <1>7 DEF Queued
<1>19. \A s \in Threads : pc'[s] = "release_last" <=> pc[s] = "release_last"
  BY <1>2, <1>6, <1>8
<1>20. Callers'
  BY <1>6, <1>7, <1>8, <1>18, <1>19 DEF Callers, Waiting
<1>21. Leaving'
  BY <1>7, <1>8, <1>18, <1>19 DEF Leaving
<1> QED
  BY <1>10, <1>11, <1>12, <1>16, <1>17, <1>20, <1>21

(* A request that is done has left the list.                               *)
LEMMA WaitDoneKeeps ==
  ASSUME CombiningIInv, NEW t \in Threads, WaitDone(t)
  PROVE  CombiningIInv'
<1> USE DEF CombiningIInv
<1>1. /\ pc[t] \in {"wait", "pending"} /\ done[t] /\ pc' = [pc EXCEPT ![t] = "idle"]
      /\ UNCHANGED <<req_tail, next, rc, done, combiner, cur, nxt, order>>
  BY DEF WaitDone, Return, Go, request, locals
<1>2. \A i \in 1 .. Len(order) : order[i] # t /\ order[i] \in Threads
  BY <1>1, ListFacts DEF Requests
<1>3. Len(order) \in Nat /\ (order # <<>> <=> Len(order) >= 1)
  BY ListFacts
<1>4. pc'[t] = "idle" /\ \A s \in Threads : s # t => pc'[s] = pc[s]
  BY <1>1 DEF Types
<1>5. Types'
  <2>1. pc' \in [Threads -> Places]
    BY <1>1 DEF Types, Places
  <2> QED
    BY <1>1, <2>1 DEF Types
<1>6. WaitList'
  BY <1>1, <1>2, <1>3, <1>4 DEF WaitList
<1>7. Requests'
  BY <1>1, <1>2, <1>3, <1>4 DEF Requests
<1>8. \A s \in Threads : IsChosen(s)' <=> IsChosen(s)
  BY <1>1, <1>4 DEF IsChosen, Combining, Waiting
<1>9. OneChosen'
  BY <1>1, <1>4, <1>8 DEF OneChosen, Combining, Waiting
<1>10. Combiners'
  BY <1>1, <1>4 DEF Combiners
<1>11. Callers'
  BY <1>1, <1>4 DEF Callers, Queued, Waiting
<1>12. Leaving'
  BY <1>1, <1>4 DEF Leaving, Queued, Waiting
<1> QED
  BY <1>5, <1>6, <1>7, <1>9, <1>10, <1>11, <1>12

(* The waiter told to combine is the owner of the first request.           *)
LEMMA WaitCombinerKeeps ==
  ASSUME CombiningIInv, NEW t \in Threads, WaitCombiner(t)
  PROVE  CombiningIInv'
<1> USE DEF CombiningIInv
<1>1. /\ pc[t] = "wait" /\ ~done[t] /\ combiner[t]
      /\ pc' = [pc EXCEPT ![t] = "exec"] /\ cur' = [cur EXCEPT ![t] = t]
      /\ UNCHANGED <<req_tail, next, rc, done, combiner, nxt, order>>
  BY DEF WaitCombiner, StartCombining, Go, request
<1>2. order # <<>> /\ t = order[1]
  BY <1>1 DEF OneChosen, Waiting
<1>3. Len(order) \in Nat /\ Len(order) >= 1 /\ \A i \in 1 .. Len(order) : order[i] \in Threads
  BY <1>2, ListFacts
<1>4. \A i \in 2 .. Len(order) : order[i] # t
  BY <1>2, <1>3 DEF WaitList
<1>5. /\ pc'[t] = "exec" /\ cur'[t] = t
      /\ \A s \in Threads : s # t => pc'[s] = pc[s] /\ cur'[s] = cur[s]
  BY <1>1 DEF Types
<1>6. Types'
  <2>1. pc' \in [Threads -> Places]
    BY <1>1 DEF Types, Places, Combining
  <2> QED
    BY <1>1, <2>1 DEF Types
<1>7. WaitList'
  <2>1. \A i \in 1 .. Len(order) - 1 : i + 1 \in 2 .. Len(order) /\ i + 1 \in 1 .. Len(order)
    BY <1>3
  <2>2. \A i \in 1 .. Len(order) - 1 :
          /\ pc'[order[i + 1]] = pc[order[i + 1]] /\ cur'[order[i + 1]] = cur[order[i + 1]]
    BY <2>1, <1>3, <1>4, <1>5
  <2> QED
    BY <2>2, <1>1 DEF WaitList
<1>8. Requests'
  <2>1. \A i \in 2 .. Len(order) : i \in 1 .. Len(order) /\ pc'[order[i]] = pc[order[i]]
    BY <1>3, <1>4, <1>5
  <2>2. \A i \in 1 .. Len(order) : i \in 2 .. Len(order) \/ order[i] = t
    BY <1>2, <1>3
  <2> QED
    BY <2>1, <2>2, <1>1, <1>2, <1>5 DEF Requests
<1>9. IsChosen(t) /\ \A s \in Threads : IsChosen(s)' <=> IsChosen(s)
  BY <1>1, <1>5 DEF IsChosen, Combining, Waiting
<1>10. OneChosen'
  BY <1>1, <1>2, <1>5, <1>9 DEF OneChosen, IsChosen
<1>11. Combiners'
  BY <1>1, <1>5 DEF Combiners
<1>12. Queued(t)
  BY <1>2, <1>3 DEF Queued
<1>13. Callers'
  BY <1>1, <1>5, <1>12 DEF Callers, Queued, Waiting
<1>14. Leaving'
  BY <1>1, <1>5, <1>12 DEF Leaving, Queued, Waiting
<1> QED
  BY <1>6, <1>7, <1>8, <1>10, <1>11, <1>13, <1>14

(* The last request leaves the list; its owner is still to be told.        *)
LEMMA CasKeeps ==
  ASSUME CombiningIInv, NEW t \in Threads, CasTail(t), req_tail = cur[t]
  PROVE  CombiningIInv'
<1> USE DEF CombiningIInv
<1>1. pc[t] = "cas" /\ pc[t] \in Combining
  BY DEF CasTail, Combining
<1>2. /\ req_tail' = NoReq /\ order' = <<>> /\ pc' = [pc EXCEPT ![t] = "release_last"]
      /\ UNCHANGED <<next, rc, done, combiner, cur, nxt>>
  BY <1>1, LastRequest DEF CasTail, Go, request, locals
<1>3. Len(order) = 1 /\ order[1] \in Threads /\ cur[t] = order[1]
      /\ \A s \in Threads : IsChosen(s) => s = t
  BY <1>1, LastRequest, CombinerFacts
<1>4. order' \in Seq(Threads) /\ Len(order') = 0
  BY <1>2, EmptySeq
<1>5. pc'[t] = "release_last" /\ \A s \in Threads : s # t => pc'[s] = pc[s]
  BY <1>2 DEF Types
<1>6. ~done[order[1]] /\ pc[order[1]] \notin {"idle", "release_last", "link"}
  BY <1>3, <1>1, CombinerFacts DEF Requests
<1>7. \A s \in Threads : Queued(s) <=> s = order[1]
  BY <1>3 DEF Queued
<1>8. \A s \in Threads : ~Queued(s)'
  BY <1>4 DEF Queued
<1>9. Types'
  <2>1. pc' \in [Threads -> Places]
    BY <1>2 DEF Types, Places
  <2> QED
    BY <1>2, <1>4, <2>1 DEF Types
<1>10. WaitList' /\ Requests'
  BY <1>2, <1>4 DEF WaitList, Requests
<1>11. \A s \in Threads : ~IsChosen(s)'
  BY <1>2, <1>3, <1>5 DEF IsChosen, Combining, Waiting
<1>12. OneChosen'
  BY <1>2, <1>11 DEF OneChosen, IsChosen
<1>13. Combiners'
  BY <1>11 DEF Combiners, IsChosen, Combining
<1>14. Callers'
  <2>1. \A s \in Threads : pc'[s] # "link"
    BY <1>5, <1>6, <1>7 DEF Callers
  <2>2. ASSUME NEW s \in Threads, pc'[s] \in Waiting \cup {"pending"}, ~done[s]
        PROVE  \E r \in Threads : pc'[r] = "release_last" /\ cur[r] = s
    <3>1. s # t /\ pc[s] \in Waiting \cup {"pending"}
      BY <2>2, <1>5 DEF Waiting
    <3>2. CASE s = order[1]
      BY <3>2, <1>3, <1>5
    <3>3. CASE s # order[1]
      BY <3>1, <3>3, <2>2, <1>1, <1>5, <1>7 DEF Callers
    <3> QED
      BY <3>2, <3>3
  <2>3. \A s \in Threads :
          /\ pc'[s] \in Waiting => s \in Blocking
          /\ pc'[s] = "pending" => s \notin Blocking
    BY <1>5 DEF Callers, Waiting
  <2> QED
    BY <2>1, <2>2, <2>3, <1>2 DEF Callers
<1>15. Leaving'
  <2>1. cur[t] # t => /\ pc[cur[t]] \in Waiting \cup {"pending"}
                      /\ pc[cur[t]] \in Waiting => ~combiner[cur[t]]
                      /\ done[t]
    BY <1>1, <1>3, <1>6 DEF Types, Places, IsChosen, OneChosen
  <2>2. ASSUME NEW s \in Threads, s # t, pc'[s] = "release_last"
        PROVE  /\ pc[s] = "release_last" /\ cur[s] # cur[t]
               /\ cur[s] \in Threads /\ ~done[cur[s]] /\ cur[s] # t
               /\ cur[s] # s => /\ pc'[cur[s]] \in Waiting \cup {"pending"}
                                /\ pc'[cur[s]] \in Waiting => ~combiner[cur[s]]
                                /\ done[s]
    BY <2>2, <1>1, <1>3, <1>5, <1>7 DEF Leaving, Waiting
  <2>3. \A s \in Threads : pc'[s] = "release_last" =>
          /\ cur[s] \in Threads /\ ~done[cur[s]]
          /\ cur[s] # s => /\ pc'[cur[s]] \in Waiting \cup {"pending"}
                           /\ pc'[cur[s]] \in Waiting => ~combiner[cur[s]]
                           /\ done[s]
    BY <2>1, <2>2, <1>3, <1>5, <1>6
  <2>4. \A r, s \in Threads :
          pc'[r] = "release_last" /\ pc'[s] = "release_last" /\ cur[r] = cur[s] => r = s
    BY <2>2, <1>5 DEF Leaving
  <2> QED
    BY <2>3, <2>4, <1>2, <1>8 DEF Leaving
<1> QED
  BY <1>9, <1>10, <1>12, <1>13, <1>14, <1>15

(* Its owner is told: no other request is touched.                         *)
LEMMA ReleaseLastKeeps ==
  ASSUME CombiningIInv, NEW t \in Threads, ReleaseLast(t)
  PROVE  CombiningIInv'
<1> USE DEF CombiningIInv
<1>1. /\ pc[t] = "release_last" /\ pc' = [pc EXCEPT ![t] = "idle"]
      /\ done' = [done EXCEPT ![cur[t]] = TRUE]
      /\ UNCHANGED <<req_tail, next, rc, combiner, cur, nxt, order>>
  BY DEF ReleaseLast, Return, Go, locals
<1>2. /\ cur[t] \in Threads /\ ~Queued(cur[t])
      /\ cur[t] # t => /\ pc[cur[t]] \in Waiting \cup {"pending"}
                       /\ pc[cur[t]] \in Waiting => ~combiner[cur[t]]
  BY <1>1 DEF Leaving
<1>3. Len(order) \in Nat /\ (order # <<>> <=> Len(order) >= 1)
  BY ListFacts
<1>4. \A i \in 1 .. Len(order) : order[i] \in Threads /\ order[i] # t /\ order[i] # cur[t]
  BY <1>1, <1>2, ListFacts DEF Requests, Queued
<1>5. /\ pc'[t] = "idle" /\ \A s \in Threads : s # t => pc'[s] = pc[s]
      /\ done'[cur[t]] = TRUE /\ \A s \in Threads : s # cur[t] => done'[s] = done[s]
  BY <1>1, <1>2 DEF Types
<1>6. Types'
  <2>1. pc' \in [Threads -> Places]
    BY <1>1 DEF Types, Places
  <2>2. done' \in [Threads -> BOOLEAN]
    BY <1>1, Zenon DEF Types
  <2> QED
    BY <1>1, <2>1, <2>2 DEF Types
<1>7. WaitList'
  BY <1>1, <1>3, <1>4, <1>5 DEF WaitList
<1>8. Requests'
  BY <1>1, <1>3, <1>4, <1>5 DEF Requests
<1>9. \A s \in Threads : IsChosen(s)' <=> IsChosen(s)
  <2>1. ~IsChosen(t) /\ ~IsChosen(t)'
    BY <1>1, <1>5 DEF IsChosen, Combining, Waiting
  <2>2. ~IsChosen(cur[t])
    BY <2>1, <1>2, Kinds DEF IsChosen
  <2>3. \A s \in Threads : s = cur[t] /\ s # t => ~IsChosen(s)'
    BY <2>2, <1>1, <1>2, <1>5 DEF IsChosen
  <2>4. \A s \in Threads : s # t /\ s # cur[t] => (IsChosen(s)' <=> IsChosen(s))
    BY <1>1, <1>5 DEF IsChosen
  <2> QED
    BY <2>1, <2>2, <2>3, <2>4
<1>10. OneChosen'
  BY <1>1, <1>5, <1>9 DEF OneChosen, Combining, Waiting
<1>11. Combiners'
  BY <1>1, <1>5 DEF Combiners
<1>12. Callers'
  BY <1>1, <1>5 DEF Callers, Queued, Waiting
<1>13. Leaving'
  BY <1>1, <1>5 DEF Leaving, Queued, Waiting
<1> QED
  BY <1>6, <1>7, <1>8, <1>10, <1>11, <1>12, <1>13

(* A combiner hands over to the owner of the first request, who waits.     *)
LEMMA HandOverKeeps ==
  ASSUME CombiningIInv, NEW t \in Threads, HandOver(t)
  PROVE  CombiningIInv'
<1> USE DEF CombiningIInv
<1> DEFINE c == cur[t]
<1>1. /\ pc[t] = "hand_over" /\ pc[t] \in Combining /\ pc' = [pc EXCEPT ![t] = "idle"]
      /\ combiner' = [combiner EXCEPT ![c] = TRUE]
      /\ UNCHANGED <<req_tail, next, rc, done, cur, nxt, order>>
  BY DEF HandOver, Return, Go, locals, Combining
<1>2. /\ Len(order) \in Nat /\ Len(order) >= 1 /\ order # <<>> /\ c = order[1] /\ c \in Threads
      /\ \A i \in 1 .. Len(order) : order[i] \in Threads
      /\ \A s \in Threads : IsChosen(s) => s = t
  BY <1>1, CombinerFacts
<1>3. c # t /\ c \in Blocking
  BY <1>1 DEF Combiners
<1>4. done[t] /\ \A i \in 1 .. Len(order) : order[i] # t
  BY <1>1, <1>3, CombinerFacts
<1>5. 1 \in 1 .. Len(order) /\ Queued(c) /\ ~done[c]
  BY <1>2 DEF Queued, Requests
<1>6. pc[c] \in Waiting
  <2>1. pc[c] \notin {"idle", "release_last", "link"}
    BY <1>2, <1>5 DEF Requests
  <2>2. pc[c] # "pending"
    BY <1>2, <1>3 DEF Callers
  <2>3. pc[c] \notin Combining
    BY <1>2, <1>3 DEF IsChosen
  <2> QED
    BY <2>1, <2>2, <2>3, <1>2 DEF Types, Places
<1>7. /\ pc'[t] = "idle" /\ \A s \in Threads : s # t => pc'[s] = pc[s]
      /\ combiner'[c] = TRUE /\ \A s \in Threads : s # c => combiner'[s] = combiner[s]
  BY <1>1, <1>2 DEF Types
<1>8. Types'
  <2>1. pc' \in [Threads -> Places]
    BY <1>1 DEF Types, Places
  <2>2. combiner' \in [Threads -> BOOLEAN]
    BY <1>1, Zenon DEF Types
  <2> QED
    BY <1>1, <2>1, <2>2 DEF Types
<1>9. WaitList'
  BY <1>1, <1>2, <1>4, <1>7 DEF WaitList
<1>10. Requests'
  <2>1. \A i \in 2 .. Len(order) : i \in 1 .. Len(order) /\ order[i] # c
    BY <1>2, <1>5 DEF WaitList
  <2> QED
    BY <2>1, <1>1, <1>2, <1>4, <1>7 DEF Requests
<1>11. \A s \in Threads : IsChosen(s)' <=> s = c
  BY <1>1, <1>2, <1>3, <1>5, <1>6, <1>7 DEF IsChosen, Combining, Waiting
<1>12. OneChosen'
  BY <1>1, <1>2, <1>3, <1>6, <1>7, <1>11, Kinds DEF OneChosen, IsChosen
<1>13. Combiners'
  BY <1>1, <1>7 DEF Combiners
<1>14. Callers'
  BY <1>1, <1>7 DEF Callers, Queued, Waiting
<1>15. Leaving'
  BY <1>1, <1>5, <1>7 DEF Leaving, Queued, Waiting
<1> QED
  BY <1>8, <1>9, <1>10, <1>12, <1>13, <1>14, <1>15

(* The first request leaves the list and the combiner goes on to the next. *)
LEMMA ReleaseKeeps ==
  ASSUME CombiningIInv, NEW t \in Threads, Release(t)
  PROVE  CombiningIInv'
<1> USE DEF CombiningIInv
<1> DEFINE n == Len(order)
<1>1. pc[t] = "release" /\ pc[t] \in Combining
  BY DEF Release, Combining
<1>2. /\ n \in Nat /\ n >= 2 /\ order # <<>> /\ order \in Seq(Threads)
      /\ cur[t] = order[1] /\ nxt[t] = order[2] /\ next[order[1]] = order[2]
      /\ \A i \in 1 .. n : order[i] \in Threads
      /\ \A s \in Threads : IsChosen(s) => s = t
  BY <1>1, CombinerFacts, ListFacts DEF Combiners
<1>3. 1 \in 1 .. n /\ 2 \in 1 .. n /\ 1 \in 1 .. n - 1
      /\ \A i, j \in 1 .. n : order[i] = order[j] => i = j
  BY <1>2 DEF WaitList
<1>4. /\ order' \in Seq(Threads) /\ Len(order') = n - 1
      /\ \A i \in 1 .. n - 1 : order'[i] = order[i + 1]
  BY <1>2, HeadTailProperties DEF Release
<1>5. PICK p \in {"exec", "hand_over"} :
        /\ pc' = [pc EXCEPT ![t] = p]
        /\ p = "hand_over" => order[2] \in Blocking
  BY <1>2 DEF Release, Go
<1>6. /\ done' = [done EXCEPT ![order[1]] = TRUE] /\ cur' = [cur EXCEPT ![t] = order[2]]
      /\ UNCHANGED <<req_tail, next, rc, combiner, nxt>>
  BY <1>2 DEF Release
<1>7. /\ pc'[t] = p /\ cur'[t] = order[2]
      /\ \A s \in Threads : s # t => pc'[s] = pc[s] /\ cur'[s] = cur[s]
      /\ done'[order[1]] = TRUE /\ \A s \in Threads : s # order[1] => done'[s] = done[s]
  BY <1>2, <1>3, <1>5, <1>6 DEF Types
<1>8. done'[t] /\ \A i \in 2 .. n : order[i] # t /\ order[i] # order[1] /\ order[i] \in Threads
  <2>1. \A i \in 2 .. n : i \in 1 .. n /\ order[i] # order[1] /\ order[i] \in Threads
    BY <1>2, <1>3
  <2>2. CASE t = order[1]
    BY <2>1, <2>2, <1>7
  <2>3. CASE t # order[1]
    <3>1. done[t] /\ \A i \in 1 .. n : order[i] # t
      BY <2>3, <1>1, <1>2, CombinerFacts
    <3> QED
      BY <3>1, <2>1, <2>3, <1>7
  <2> QED
    BY <2>2, <2>3
<1>9. Types'
  <2>1. pc' \in [Threads -> Places]
    BY <1>5 DEF Types, Places, Combining
  <2>2. done' \in [Threads -> BOOLEAN]
    BY <1>6, Zenon DEF Types
  <2> QED
    BY <1>2, <1>3, <1>4, <1>6, <2>1, <2>2 DEF Types
<1>10. WaitList'
  <2>1. \A i, j \in 1 .. n - 1 : order'[i] = order'[j] => i = j
    <3>1. \A i \in 1 .. n - 1 : i + 1 \in 1 .. n /\ i \in Int
      BY <1>2
    <3> QED
      BY <3>1, <1>3, <1>4
  <2>2. order'[n - 1] = order[n] /\ req_tail' = order[n] /\ next'[order[n]] = NoReq
    BY <1>2, <1>4, <1>6 DEF WaitList
  <2>3. ASSUME NEW i \in 1 .. (n - 1) - 1
        PROVE  IF pc'[order'[i + 1]] = "link"
                 THEN cur'[order'[i + 1]] = order'[i] /\ next'[order'[i]] = NoReq
                 ELSE next'[order'[i]] = order'[i + 1]
    <3>1. i + 1 \in 1 .. n - 1 /\ i \in 1 .. n - 1 /\ (i + 1) + 1 \in 2 .. n
      BY <1>2
    <3>2. order'[i] = order[i + 1] /\ order'[i + 1] = order[(i + 1) + 1]
          /\ order[(i + 1) + 1] \in Threads \ {t}
      BY <3>1, <1>4, <1>8
    <3> QED
      BY <3>1, <3>2, <1>6, <1>7 DEF WaitList
  <2> QED
    BY <2>1, <2>2, <2>3, <1>2, <1>4, EmptySeq DEF WaitList
<1>11. Requests'
  <2>1. \A i \in 1 .. n - 1 : i + 1 \in 2 .. n /\ i + 1 \in 1 .. n /\ order'[i] = order[i + 1]
    BY <1>2, <1>4
  <2>2. \A i \in 1 .. n - 1 : pc'[order'[i]] = pc[order[i + 1]] /\ done'[order'[i]] = done[order[i + 1]]
    BY <2>1, <1>7, <1>8
  <2>3. pc[order[2]] # "link"
    <3>1. order[2] # NoReq /\ 1 + 1 = 2
      BY <1>2, <1>3, NullAssumption
    <3> QED
      BY <3>1, <1>2, <1>3 DEF WaitList
  <2>4. pc'[order'[1]] # "link"
    BY <2>1, <2>2, <2>3, <1>3
  <2>5. ASSUME NEW i \in 1 .. n - 1
        PROVE  ~done'[order'[i]] /\ pc'[order'[i]] \notin {"idle", "release_last"}
    BY <2>1, <2>2 DEF Requests
  <2>6. ASSUME NEW i \in 2 .. n - 1
        PROVE  /\ rc'[order'[i]] = "inprogress"
               /\ ~combiner'[order'[i]] /\ pc'[order'[i]] \notin Combining
    <3>1. i \in 1 .. n - 1
      BY <1>2
    <3> QED
      BY <3>1, <2>1, <2>2, <1>6 DEF Requests
  <2> QED
    BY <2>4, <2>5, <2>6, <1>4 DEF Requests
<1>12. \A s \in Threads : IsChosen(s)' <=> s = t
  <2>1. IsChosen(t)'
    BY <1>5, <1>7 DEF IsChosen, Combining
  <2>2. ASSUME NEW s \in Threads, s # t, IsChosen(s)' PROVE FALSE
    <3>1. ~IsChosen(s)
      BY <2>2, <1>2
    <3> QED
      BY <2>2, <3>1, <1>6, <1>7 DEF IsChosen
  <2> QED
    BY <2>1, <2>2
<1>13. order' # <<>> /\ order'[1] = order[2]
  BY <1>2, <1>3, <1>4, EmptySeq
<1>14. pc'[t] \notin Waiting
  BY <1>5, <1>7 DEF Waiting
<1>15. OneChosen'
  BY <1>7, <1>8, <1>12, <1>13, <1>14 DEF OneChosen, IsChosen
<1>16. Combiners'
  <2>1. \A s \in Threads : pc'[s] \in {"release", "hand_over"} => s = t
    BY <1>12 DEF IsChosen, Combining
  <2>2. order[2] # t
    BY <1>2, <1>8
  <2> QED
    BY <2>1, <2>2, <1>5, <1>7 DEF Combiners
<1>17. \A s \in Threads : s # order[1] /\ Queued(s) => Queued(s)'
  <2>1. ASSUME NEW s \in Threads, s # order[1], NEW i \in 1 .. n, order[i] = s
        PROVE  Queued(s)'
    <3>1. i - 1 \in 1 .. n - 1 /\ (i - 1) + 1 = i
      BY <2>1, <1>2
    <3>2. order'[i - 1] = s
      BY <3>1, <2>1, <1>4
    <3> QED
      BY <3>1, <3>2, <1>4 DEF Queued
  <2> QED
    BY <2>1 DEF Queued
<1>18. \A s \in Threads : Queued(s)' => Queued(s)
  <2>1. \A i \in 1 .. n - 1 : i + 1 \in 1 .. n /\ order'[i] = order[i + 1]
    BY <1>2, <1>4
  <2> QED
    BY <2>1, <1>4 DEF Queued
<1>19. Queued(order[1]) /\ pc[order[1]] # "link"
  BY <1>2, <1>3 DEF Queued, Requests
<1>20. \A s \in Threads : pc'[s] = "release_last" <=> pc[s] = "release_last"
  BY <1>1, <1>5, <1>7
<1>21. Callers'
  <2>1. \A s \in Threads : s # t =>
          /\ pc'[s] = "link" => Queued(s)'
          /\ pc'[s] \in Waiting => s \in Blocking
          /\ pc'[s] = "pending" => s \notin Blocking
    BY <1>7, <1>17, <1>19 DEF Callers
  <2>2. ASSUME NEW s \in Threads, pc'[s] \in Waiting \cup {"pending"}, ~done'[s]
        PROVE  Queued(s)' \/ \E r \in Threads : pc'[r] = "release_last" /\ cur'[r] = s
    <3>1. s # t /\ s # order[1] /\ pc[s] = pc'[s] /\ ~done[s]
      BY <2>2, <1>7, <1>8
    <3>2. CASE Queued(s)
      BY <3>1, <3>2, <1>17
    <3>3. CASE ~Queued(s)
      <4>1. PICK r \in Threads : pc[r] = "release_last" /\ cur[r] = s
        BY <2>2, <3>1, <3>3 DEF Callers
      <4> QED
        BY <4>1, <1>1, <1>7
    <3> QED
      BY <3>2, <3>3
  <2>3. pc'[t] \notin Waiting \cup {"link", "pending"}
    BY <1>5, <1>7 DEF Waiting
  <2> QED
    BY <2>1, <2>2, <2>3 DEF Callers
<1>22. Leaving'
  <2>1. ASSUME NEW s \in Threads, pc'[s] = "release_last"
        PROVE  /\ pc[s] = "release_last" /\ cur'[s] = cur[s] /\ cur[s] \in Threads
               /\ cur[s] # t /\ cur[s] # order[1] /\ ~Queued(cur[s])
    <3>1. pc[s] = "release_last" /\ s # t
      BY <2>1, <1>1, <1>20
    <3>2. cur[s] \in Threads /\ ~Queued(cur[s]) /\ cur[s] # order[1]
      BY <3>1, <1>19 DEF Leaving
    <3>3. cur[s] # t
      BY <3>1, <1>1 DEF Leaving, Waiting
    <3> QED
      BY <3>1, <3>2, <3>3, <1>7
  <2>2. \A s \in Threads : pc'[s] = "release_last" =>
          ~ \E i \in 1 .. Len(order') : order'[i] = cur'[s]
    <3>1. \A r \in Threads : ~Queued(r) => ~ \E i \in 1 .. Len(order') : order'[i] = r
      BY <1>18 DEF Queued
    <3> QED
      BY <3>1, <2>1
  <2>3. \A s \in Threads : pc'[s] = "release_last" =>
          /\ cur'[s] \in Threads /\ ~done'[cur'[s]]
          /\ cur'[s] # s => /\ pc'[cur'[s]] \in Waiting \cup {"pending"}
                            /\ pc'[cur'[s]] \in Waiting => ~combiner'[cur'[s]]
                            /\ done'[s]
    BY <2>1, <1>6, <1>7 DEF Leaving
  <2>4. \A r, s \in Threads :
          pc'[r] = "release_last" /\ pc'[s] = "release_last" /\ cur'[r] = cur'[s] => r = s
    BY <2>1 DEF Leaving
  <2> QED
    BY <2>2, <2>3, <2>4 DEF Leaving, Queued
<1> QED
  BY <1>9, <1>10, <1>11, <1>15, <1>16, <1>21, <1>22

LEMMA StutterKeeps ==
  ASSUME CombiningIInv, UNCHANGED <<req_tail, request, pc, locals, order>>
  PROVE  CombiningIInv'
<1>1. Quiet
  BY DEF CombiningIInv, Quiet, SameKind, Types, Combiners, request, locals
<1> QED
  BY <1>1, QuietKeeps
-------------------------------------------------------------------------------
(* The invariant of the wait list: who combines, which request is worked   *)
(* on, and that requests are released in the order they were inserted.     *)
THEOREM CombiningInvariant == CombiningSpec => []CombiningIInv
<1>1. ASSUME CombiningIInv, [CombiningNext]_combiningVars PROVE CombiningIInv'
  <2>1. ASSUME NEW t \in Threads, Call(t) \/ Step(t) PROVE CombiningIInv'
    <3>1. CASE Call(t)
      BY <1>1, <3>1, CallKeeps
    <3>2. CASE Link(t)
      BY <1>1, <3>2, LinkKeeps
    <3>3. CASE WaitDone(t) \/ WaitCombiner(t)
      BY <1>1, <3>3, WaitDoneKeeps, WaitCombinerKeeps
    <3>4. CASE Doze(t) \/ DozeLock(t) \/ DozeCheck(t) \/ DozeSleep(t)
      BY <1>1, <3>4, DozingIsQuiet, QuietKeeps
    <3>5. CASE PeekNap(t) \/ Monitor(t) \/ WakeClear(t) \/ WakeLock(t)
      BY <1>1, <3>5, WakingIsQuiet, QuietKeeps
    <3>6. CASE WakeAll(t)
      BY <1>1, <3>6, WakeAllIsQuiet, QuietKeeps
    <3>7. CASE Exec(t)
      BY <1>1, <3>7, ExecIsQuiet, QuietKeeps
    <3>8. CASE ReadNext(t) \/ AwaitLink(t)
      BY <1>1, <3>8, NextIsQuiet, QuietKeeps
    <3>9. CASE CasTail(t)
      BY <1>1, <3>9, CasKeeps, CasFailsQuietly, QuietKeeps
    <3>10. CASE ReleaseLast(t) \/ Release(t) \/ HandOver(t)
      BY <1>1, <3>10, ReleaseLastKeeps, ReleaseKeeps, HandOverKeeps
    <3> QED
      BY <2>1, <3>1, <3>2, <3>3, <3>4, <3>5, <3>6, <3>7, <3>8, <3>9, <3>10 DEF Step
  <2>2. CASE ElementPut \/ ElementReady \/ ElementDone
    BY <1>1, <2>2, StutterKeeps DEF ElementPut, ElementReady, ElementDone
  <2>3. CASE UNCHANGED combiningVars
    BY <1>1, <2>3, StutterKeeps DEF combiningVars
  <2> QED
    BY <1>1, <2>1, <2>2, <2>3 DEF CombiningNext
<1> QED
  BY <1>1, InitHolds, PTL DEF CombiningSpec

(* Never do two threads execute put (or get) on one ring buffer, and while *)
(* requests wait somebody does: for any number of threads.                 *)
THEOREM OneCombines == CombiningSpec => []OneCombiner
<1>1. ASSUME CombiningIInv PROVE OneCombiner
  <2> USE <1>1 DEF CombiningIInv
  <2>1. Chosen = { t \in Threads : IsChosen(t) }
    BY DEF Chosen, IsChosen
  <2>2. CASE Chosen = {}
    BY <2>1, <2>2, FS_EmptySet DEF OneChosen, OneCombiner
  <2>3. CASE Chosen # {}
    <3>1. PICK t \in Threads : Chosen = {t}
      BY <2>1, <2>3 DEF OneChosen
    <3> QED
      BY <3>1, FS_Singleton DEF OneCombiner
  <2> QED
    BY <2>2, <2>3
<1> QED
  BY <1>1, CombiningInvariant, PTL

(* Operations take effect in the order in which the callers entered.       *)
THEOREM InOrder == CombiningSpec => []ArrivalOrder
<1>1. ASSUME CombiningIInv PROVE ArrivalOrder
  <2> USE <1>1 DEF CombiningIInv
  <2>1. Len(order) \in Nat /\ (order # <<>> <=> Len(order) >= 1) /\ order \in Seq(Threads)
        /\ DOMAIN order = 1 .. Len(order)
    BY ListFacts, LenProperties
  <2>2. \A t \in Threads : pc[t] \in Combining => order # <<>> /\ cur[t] = Head(order)
    BY <2>1 DEF OneChosen
  <2>3. \A i \in 2 .. Len(order) :
          rc[order[i]] = "inprogress" /\ ~done[order[i]] /\ order[i] # order[1]
    <3>1. \A i \in 2 .. Len(order) : i \in 1 .. Len(order) /\ 1 \in 1 .. Len(order) /\ i # 1
      BY <2>1
    <3> QED
      BY <3>1 DEF Requests, WaitList
  <2>4. ASSUME NEW t \in Threads, pc[t] # "idle", ~done[t]
        PROVE  Queued(t) \/ \E s \in Threads : pc[s] = "release_last" /\ cur[s] = t
    <3>1. CASE pc[t] \in Combining
      BY <3>1, <2>1, <2>4 DEF OneChosen, Queued
    <3>2. CASE pc[t] \in Waiting \cup {"pending", "link"}
      BY <3>2, <2>4 DEF Callers
    <3>3. CASE pc[t] = "release_last"
      BY <3>3, <2>4 DEF Leaving
    <3> QED
      BY <3>1, <3>2, <3>3, <2>4 DEF Types, Places
  <2> QED
    BY <2>1, <2>2, <2>3, <2>4 DEF ArrivalOrder, Queued
<1> QED
  BY <1>1, CombiningInvariant, PTL
===============================================================================
