----------------------------- MODULE ScifRingProofs -----------------------------
(***************************************************************************)
(* Proofs about ScifRing, for every size of the buffer and of the          *)
(* elements, whichever end puts, whatever each end combines, and through   *)
(* every failure of the connection: what each end knows of the other is    *)
(* never ahead, copies touch what they should, and the two ends implement  *)
(* the claim queue.                                                        *)
(***************************************************************************)
EXTENDS ScifRing, SequenceTheorems, FiniteSetTheorems, TLAPS

Positions == 0 .. Size - 1
Controls == [head : Nat, tail : Nat, tail2 : Nat]
Statuses == {"none", "init", "ready", "done"}
Phases == {"reserved", "ready", "got", "done"}
PutPlaces ==
  {"idle", "check", "again", "reap_all", "cas", "full", "peek", "write", "served",
   "failed"}
GetPlaces == {"idle", "check", "empty", "unready", "peek", "served", "failed"}
Element == [off : Nat, size : Nat, phase : Phases]

(* The control variables, by the end that owns them: head, tail and tail2  *)
(* of the putting end, tail and the copy of head of the getting end.       *)
PutHead == Mine.head
PutTail == Mine.tail
PutTail2 == Mine.tail2
GotTail == Theirs.tail
SeenHead == Theirs.head

End(i) == items[i].off + items[i].size
StatusOf(phase) == CASE phase = "reserved" -> "init"
                     [] phase \in {"ready", "got"} -> "ready"
                     [] phase = "done" -> "done"

(* An offset at which an element starts, or at which the next one will. *)
Boundary(o) == o = PutHead \/ \E i \in DOMAIN items : items[i].off = o

TypeOK ==
  /\ producer \in Ends /\ blocking \in Blockings /\ DOMAIN at = Ends
  /\ at = [e \in Ends |-> at[e]]
  /\ view \in [Ends -> Controls]
  /\ elm \in [Positions -> [size : Nat, status : Statuses]]
  /\ items \in Seq(Element)
  /\ put \in [pc : PutPlaces, batch : Nat, own : SUBSET Nat, need : Nat]
  /\ get \in [pc : GetPlaces, batch : Nat, own : SUBSET Nat]
  /\ rbtail \in Nat /\ gets \in Nat

(* Elements lie one after the other up to head, without gaps. *)
Layout ==
  /\ \A i, j \in DOMAIN items : i < j => End(i) <= items[j].off
  /\ \A i \in DOMAIN items : /\ items[i].size >= 1
                              /\ End(i) <= PutHead /\ Boundary(End(i))
  /\ items = <<>> => PutTail2 = PutHead
  /\ items # <<>> => PutHead = End(Len(items))

(* What each end knows of the other's variables is never ahead of it, and  *)
(* what the phases of elements say about them.                             *)
Views ==
  /\ PutTail2 <= GotTail /\ PutTail <= GotTail
  /\ GotTail <= SeenHead /\ SeenHead <= PutHead
  /\ put.pc # "cas" \/ consumer = "shadow" => PutTail2 <= PutTail
  /\ PutHead - PutTail2 < Size
  /\ Boundary(PutTail) /\ Boundary(PutTail2)
  /\ Boundary(GotTail) /\ Boundary(SeenHead)
  /\ \A i \in DOMAIN items :
       /\ items[i].off < PutTail2 => items[i].phase = "done"
       /\ items[i].off < GotTail <=> items[i].phase \in {"got", "done"}

(* The header of every element not reclaimed yet is the one its put wrote. *)
Headers ==
  \A i \in DOMAIN items :
    items[i].off >= PutTail2 =>
      elm[Ix(items[i].off)] = [size |-> items[i].size,
                               status |-> StatusOf(items[i].phase)]

(* What the combiner of the putting end knows. *)
Putting ==
  /\ put.pc \notin {"idle", "served", "failed"} => put.need \in Sizes
  /\ put.pc = "write" => (PutHead + put.need) - PutTail2 < Size
  /\ put.pc \in {"reap_all", "cas"} =>
       /\ Boundary(rbtail) /\ rbtail <= PutTail /\ PutHead - rbtail < Size
       /\ producer = "shadow" => rbtail = PutTail
       /\ put.pc = "reap_all" => PutTail2 <= rbtail
       /\ put.pc = "cas" => rbtail <= PutTail2

(* The elements a shadow has taken and not published begin with that of    *)
(* the combiner's own request, which is therefore not done.                *)
Batches ==
  /\ get.pc = "idle" => get.batch = 0
  /\ get.batch = 0 => get.own = {}
  /\ consumer = "shadow" =>
       /\ get.own = {} => PutTail = GotTail
       /\ get.own # {} => \E i \in DOMAIN items : /\ get.own = {items[i].off}
                                                  /\ PutTail >= items[i].off
                                                  /\ items[i].phase = "got"
       /\ blocking => get.batch = 0 \/ get.own # {}
       /\ ~blocking => get.batch = 0 \/ get.pc \in {"served", "failed"}

(* Until there is a shadow its end has done nothing, and nothing has been  *)
(* taken from the buffer.                                                  *)
Untouched ==
  at["shadow"] \notin {"ready", "gone"} =>
    /\ \A e \in Ends : view[e].tail = 0 /\ view[e].tail2 = 0
    /\ producer = "shadow" =>
         put.pc = "idle" /\ PutHead = 0 /\ SeenHead = 0
    /\ consumer = "shadow" => get.pc = "idle"

(* Either requests wait, or each one of the shadow's is published.         *)
Orderly == Blockings = {TRUE} \/ Combined["shadow"] = 1

IInv == TypeOK /\ Layout /\ Views /\ Headers /\ Putting /\ Batches
        /\ Untouched
-------------------------------------------------------------------------------
(* Arithmetic of offsets and positions, and induction. *)

LEMMA Division ==
  ASSUME NEW a \in Nat
  PROVE  /\ a = (Size * (a \div Size)) + (a % Size)
         /\ (a \div Size) \in Nat
         /\ (a % Size) \in Positions
BY SizeAssumption DEF Positions

LEMMA NextMultiple ==
  ASSUME NEW p \in Int, NEW q \in Int, p < q
  PROVE  (Size * p) + Size <= Size * q
BY SizeAssumption

LEMMA IxType == ASSUME NEW a \in Nat PROVE Ix(a) \in Positions
BY Division DEF Ix

(* Two offsets less than Size apart are at the same position only if they  *)
(* are equal.                                                              *)
LEMMA IxInjective ==
  ASSUME NEW a \in Nat, NEW b \in Nat, a <= b, b < a + Size, Ix(a) = Ix(b)
  PROVE  a = b
<1> DEFINE qa == a \div Size
           qb == b \div Size
           r == a % Size
<1>1. /\ a = (Size * qa) + r /\ b = (Size * qb) + r
      /\ qa \in Nat /\ qb \in Nat /\ r \in Positions
  BY Division DEF Ix
<1>2. (Size * qa) \in Int /\ (Size * qb) \in Int
  BY <1>1, SizeAssumption
<1>3. ~(qa < qb) /\ ~(qb < qa)
  BY <1>1, <1>2, NextMultiple, SizeAssumption DEF Positions
<1> QED BY <1>1, <1>3

LEMMA Remainder ==
  ASSUME NEW x \in Int, -Size < x, x < Size
  PROVE  x % Size = IF x < 0 THEN x + Size ELSE x
BY SizeAssumption

LEMMA Distance ==
  ASSUME NEW p \in Positions, NEW q \in Positions, p # q, NEW d \in Int,
         \/ d = q - p /\ q >= p
         \/ d = Size + (q - p) /\ q < p
  PROVE  (p - q) % Size = Size - d
<1>1. p - q \in Int /\ -Size < p - q /\ p - q < Size
  BY SizeAssumption DEF Positions
<1>2. (p - q) % Size = IF p - q < 0 THEN (p - q) + Size ELSE p - q
  BY <1>1, Remainder
<1> QED BY <1>1, <1>2, SizeAssumption DEF Positions

(* free_space_size computes the room between head and tail2. *)
LEMMA GapIsRoom ==
  ASSUME NEW v \in Controls, v.tail2 <= v.head, v.head - v.tail2 < Size
  PROVE  Gap(v) = Size - (v.head - v.tail2)
<1> DEFINE a == v.tail2
           b == v.head
           qa == a \div Size
           qb == b \div Size
           ra == a % Size
           rb == b % Size
<1>0. a \in Nat /\ b \in Nat /\ a <= b /\ b < a + Size
  BY SizeAssumption DEF Controls
<1> HIDE DEF a, b
<1>1. /\ a = (Size * qa) + ra /\ b = (Size * qb) + rb
      /\ qa \in Nat /\ qb \in Nat
      /\ ra \in Positions /\ rb \in Positions
  BY <1>0, Division
<1>2. /\ (Size * qa) \in Int /\ (Size * qb) \in Int
      /\ Size * (qa + 1) = (Size * qa) + Size
  BY <1>1, SizeAssumption
<1>3. ~(qb < qa) /\ ~(qa + 1 < qb)
  BY <1>0, <1>1, <1>2, NextMultiple, SizeAssumption DEF Positions
<1>4. Gap(v) = IF ra = rb THEN Size ELSE (ra - rb) % Size
  BY DEF Gap, Ix, a, b
<1>5. ASSUME qa = qb PROVE Gap(v) = Size - (b - a)
  <2>0. Size * qa = Size * qb
    BY <1>5
  <2>1. b - a = rb - ra /\ rb >= ra
    BY <2>0, <1>0, <1>1, <1>2, SizeAssumption DEF Positions
  <2>2. ra # rb => (ra - rb) % Size = Size - (b - a)
    BY <2>1, <1>0, <1>1, Distance
  <2>3. ra = rb => Size - (b - a) = Size
    BY <2>1, <1>1, SizeAssumption DEF Positions
  <2> QED BY <2>2, <2>3, <1>4
<1>6. ASSUME qb = qa + 1 PROVE Gap(v) = Size - (b - a)
  <2>1. b - a = Size + (rb - ra) /\ rb < ra
    BY <1>0, <1>6, <1>1, <1>2, SizeAssumption DEF Positions
  <2>2. ra # rb => (ra - rb) % Size = Size - (b - a)
    BY <2>1, <1>0, <1>1, Distance
  <2>3. ra = rb => Size - (b - a) = Size
    BY <2>1, <1>1, SizeAssumption DEF Positions
  <2> QED BY <2>2, <2>3, <1>4
<1>7. Gap(v) = Size - (b - a)
  BY <1>1, <1>3, <1>5, <1>6
<1> QED BY <1>7 DEF a, b

(* Induction, for a set in place of a predicate: a set that has 0 and, with *)
(* each number, the next one has them all.  The members below m form an    *)
(* interval, which is counted.                                             *)
LEMMA SizesType ==
  ASSUME NEW n \in Sizes
  PROVE  n \in Nat /\ n >= 1 /\ n < Size
<1>1. n \in 1 .. Size - 1 /\ Size \in Nat
  BY SizeAssumption
<1> QED BY <1>1

LEMMA SetInduction ==
  ASSUME NEW S, 0 \in S, \A n \in Nat : n \in S => n + 1 \in S
  PROVE  Nat \subseteq S
<1> SUFFICES ASSUME NEW m \in Nat PROVE m \in S
  OBVIOUS
<1> DEFINE D == {k \in 0 .. m : 0 .. k \subseteq S}
           c == Cardinality(D)
<1>1. IsFiniteSet(0 .. m) /\ Cardinality(0 .. m) = m + 1
  BY FS_Interval
<1>2. IsFiniteSet(D) /\ c \in Nat /\ c <= m + 1
  BY <1>1, FS_Subset, FS_CardinalityType
<1>3. \A k \in D : k + 1 <= c
  <2> TAKE k \in D
  <2>1. 0 .. k \subseteq D
    OBVIOUS
  <2>2. Cardinality(0 .. k) = k + 1
    BY FS_Interval
  <2>3. Cardinality(0 .. k) <= c
    BY <1>2, <2>1, FS_Subset
  <2> QED BY <2>2, <2>3
<1>4. D \subseteq 0 .. c - 1
  BY <1>2, <1>3
<1>5. Cardinality(0 .. c - 1) = c /\ IsFiniteSet(0 .. c - 1)
  <2> HIDE DEF c
  <2>1. c - 1 \in Int /\ (0 > c - 1 <=> c = 0) /\ (c - 1) - 0 + 1 = c
    BY <1>2
  <2> QED BY <2>1, FS_Interval
<1>6. D = 0 .. c - 1
  BY <1>4, <1>5, FS_Subset
<1>7. c \in Nat /\ c <= m + 1 /\ D = 0 .. c - 1
  BY <1>2, <1>6
<1>8. 0 \in D
  OBVIOUS
<1>9. CASE c <= m
  <2>1. c - 1 \in D
    BY <1>2, <1>6, <1>8
  <2>2. 0 .. c \subseteq S
    BY <1>2, <2>1
  <2>3. c \in D
    BY <1>2, <1>9, <2>2
  <2> HIDE DEF c, D
  <2> QED BY <1>7, <2>3
<1>10. CASE c = m + 1
  <2>1. m \in D
    <3> HIDE DEF c, D
    <3> QED BY <1>7, <1>10
  <2> QED BY <2>1
<1> QED BY <1>7, <1>9, <1>10
-------------------------------------------------------------------------------
(* The path of a reap, which the model computes by recursion. *)

Stepped(o, stop) ==
  IF Ix(o) = Ix(stop) \/ ~Done(o) THEN o ELSE After(o)

LEMMA SteppedType ==
  ASSUME TypeOK, NEW o \in Nat, NEW stop
  PROVE  Stepped(o, stop) \in Nat
<1>1. elm[Ix(o)].size \in Nat
  BY IxType DEF TypeOK
<1> QED BY <1>1 DEF Stepped, After

LEMMA ReapPath ==
  ASSUME TypeOK, NEW from \in Nat, NEW stop
  PROVE  \E f \in [0 .. Size -> Nat] :
           /\ f[0] = from
           /\ \A k \in 1 .. Size : f[k] = Stepped(f[k - 1], stop)
           /\ Reap(from, stop) = [end |-> f[Size],
                                  passed |-> {f[k] : k \in 0 .. Size}]
<1> DEFINE Path(f, n) == /\ f \in [0 .. n -> Nat] /\ f[0] = from
                         /\ \A k \in 1 .. n : f[k] = Stepped(f[k - 1], stop)
           S == {n \in Nat : \E f : Path(f, n)}
<1>1. 0 \in S
  <2>1. Path([k \in 0 .. 0 |-> from], 0)
    OBVIOUS
  <2> QED BY <2>1
<1>2. ASSUME NEW n \in Nat, n \in S PROVE n + 1 \in S
  <2>1. PICK f : Path(f, n)
    BY <1>2
  <2>2. PICK last \in Nat : last = Stepped(f[n], stop)
    BY <2>1, SteppedType
  <2> DEFINE g == [k \in 0 .. n + 1 |-> IF k = n + 1 THEN last ELSE f[k]]
  <2>3. g \in [0 .. n + 1 -> Nat] /\ g[0] = from
    BY <2>1
  <2>4. ASSUME NEW k \in 1 .. n + 1 PROVE g[k] = Stepped(g[k - 1], stop)
    <3>1. CASE k = n + 1
      BY <2>2, <3>1
    <3>2. CASE k \in 1 .. n
      <4>1. f[k] = Stepped(f[k - 1], stop)
        BY <2>1, <3>2
      <4>2. g[k] = f[k] /\ g[k - 1] = f[k - 1]
        BY <3>2
      <4> QED BY <4>1, <4>2
    <3> QED BY <3>1, <3>2
  <2> HIDE DEF g
  <2>5. Path(g, n + 1)
    BY <2>3, <2>4
  <2> HIDE DEF Path
  <2>6. \E h : Path(h, n + 1)
    BY <2>5
  <2> QED BY <2>6
<1> HIDE DEF S
<1>3. Size \in S
  BY <1>1, <1>2, SetInduction, SizeAssumption
<1>4. PICK f : Path(f, Size)
  BY <1>3 DEF S
<1> DEFINE Is(g) == g = [k \in 0 .. Size |->
                          IF k = 0 THEN from
                          ELSE IF Ix(g[k - 1]) = Ix(stop) \/ ~Done(g[k - 1])
                               THEN g[k - 1] ELSE After(g[k - 1])]
           c == CHOOSE g : Is(g)
<1>5. Is(f)
  <2>1. f = [k \in 0 .. Size |-> f[k]]
    BY <1>4
  <2>2. ASSUME NEW k \in 0 .. Size
        PROVE  f[k] = IF k = 0 THEN from
                      ELSE IF Ix(f[k - 1]) = Ix(stop) \/ ~Done(f[k - 1])
                           THEN f[k - 1] ELSE After(f[k - 1])
    BY <1>4, SMTT(30) DEF Stepped
  <2> QED BY <2>1, <2>2, Zenon
<1>6. Is(c)
  BY <1>5
<1>7. Reap(from, stop) = [end |-> c[Size], passed |-> {c[k] : k \in 0 .. Size}]
  BY DEF Reap
<1> HIDE DEF c
<1>8. /\ DOMAIN c = 0 .. Size
      /\ c[0] = from
      /\ \A k \in 1 .. Size : c[k] = Stepped(c[k - 1], stop)
  BY <1>6, SizeAssumption DEF Stepped
<1> DEFINE T == {k \in Nat : k \in 0 .. Size => c[k] \in Nat}
<1>9. 0 \in T
  BY <1>8
<1>10. ASSUME NEW k \in Nat, k \in T PROVE k + 1 \in T
  <2>1. CASE k + 1 \in 1 .. Size
    <3>1. c[k] \in Nat
      <4>1. k \in 0 .. Size
        BY <2>1, SizeAssumption
      <4> QED BY <1>10, <4>1
    <3>2. c[k + 1] = Stepped(c[k], stop)
      BY <1>8, <2>1
    <3> QED BY <3>1, <3>2, SteppedType
  <2>2. CASE k + 1 \notin 1 .. Size
    BY <2>2
  <2> QED BY <2>1, <2>2
<1> HIDE DEF T
<1>11. \A k \in 0 .. Size : c[k] \in Nat
  <2>1. Nat \subseteq T
    BY <1>9, <1>10, SetInduction
  <2> QED BY <2>1 DEF T
<1>12. c \in [0 .. Size -> Nat]
  BY <1>6, <1>8, <1>11
<1> QED BY <1>7, <1>8, <1>12
-------------------------------------------------------------------------------
(* Types. *)

LEMMA ControlsType ==
  ASSUME NEW v \in Controls, NEW n \in Nat
  PROVE  /\ v.head \in Nat /\ v.tail \in Nat /\ v.tail2 \in Nat
         /\ v = [head |-> v.head, tail |-> v.tail, tail2 |-> v.tail2]
         /\ [v EXCEPT !.head = n] = [head |-> n, tail |-> v.tail, tail2 |-> v.tail2]
         /\ [v EXCEPT !.tail = n] = [head |-> v.head, tail |-> n, tail2 |-> v.tail2]
         /\ [v EXCEPT !.tail2 = n] = [head |-> v.head, tail |-> v.tail, tail2 |-> n]
         /\ [v EXCEPT !.head = n] \in Controls /\ [v EXCEPT !.tail = n] \in Controls
         /\ [v EXCEPT !.tail2 = n] \in Controls
BY DEF Controls

LEMMA ViewTypes ==
  ASSUME TypeOK
  PROVE  /\ producer \in Ends /\ consumer \in Ends /\ consumer # producer
         /\ "master" \in Ends /\ "shadow" \in Ends
         /\ \A e \in Ends : /\ view[e] \in Controls /\ view[e].head \in Nat
                             /\ view[e].tail \in Nat /\ view[e].tail2 \in Nat
         /\ PutHead \in Nat /\ PutTail \in Nat /\ PutTail2 \in Nat
         /\ GotTail \in Nat /\ SeenHead \in Nat
<1>1. /\ producer \in Ends /\ consumer \in Ends /\ consumer # producer
      /\ "master" \in Ends /\ "shadow" \in Ends
  BY DEF TypeOK, consumer, Other, Ends
<1>2. \A e \in Ends : view[e] \in Controls
  BY DEF TypeOK
<1>3. \A e \in Ends : /\ view[e].head \in Nat /\ view[e].tail \in Nat
                       /\ view[e].tail2 \in Nat
  BY <1>2 DEF Controls
<1> QED BY <1>1, <1>2, <1>3 DEF PutHead, PutTail, PutTail2, GotTail, SeenHead, Mine, Theirs

(* One end's variables change. *)
LEMMA ViewSet ==
  ASSUME TypeOK, NEW e \in Ends, NEW v \in Controls, view' = [view EXCEPT ![e] = v]
  PROVE  /\ view' \in [Ends -> Controls]
         /\ view'[e] = v
         /\ \A d \in Ends : d # e => view'[d] = view[d]
BY DEF TypeOK

(* rb_rmb of tail, which the putting end calls, and of head, which the     *)
(* getting end does.                                                       *)
LEMMA RefreshedTail ==
  ASSUME TypeOK
  PROVE  Refreshed(producer, "tail") =
           [head |-> PutHead,
            tail |-> IF producer = "shadow" THEN GotTail ELSE PutTail,
            tail2 |-> PutTail2]
<1>1. producer = "shadow" => GotTail = view["master"].tail
  BY DEF GotTail, Theirs, consumer, Other
<1>2. view[producer] = [head |-> PutHead, tail |-> PutTail, tail2 |-> PutTail2]
      /\ [view[producer] EXCEPT !.tail = GotTail] =
           [head |-> PutHead, tail |-> GotTail, tail2 |-> PutTail2]
  BY ViewTypes, ControlsType DEF PutHead, PutTail, PutTail2, Mine
<1>3. CASE producer = "shadow"
  <2>1. Refreshed(producer, "tail") = [view[producer] EXCEPT !.tail = GotTail]
    BY <1>1, <1>3 DEF Refreshed
  <2> QED BY <2>1, <1>2, <1>3
<1>4. CASE producer # "shadow"
  BY <1>2, <1>4 DEF Refreshed
<1> QED BY <1>3, <1>4

LEMMA RefreshedHead ==
  ASSUME TypeOK
  PROVE  Refreshed(consumer, "head") =
           [head |-> IF consumer = "shadow" THEN PutHead ELSE SeenHead,
            tail |-> GotTail,
            tail2 |-> Theirs.tail2]
<1>1. consumer = "shadow" => PutHead = view["master"].head
  BY ViewTypes DEF PutHead, Mine, consumer, Other, Ends
<1>2. view[consumer] = [head |-> SeenHead, tail |-> GotTail, tail2 |-> Theirs.tail2]
      /\ [view[consumer] EXCEPT !.head = PutHead] =
           [head |-> PutHead, tail |-> GotTail, tail2 |-> Theirs.tail2]
  BY ViewTypes, ControlsType DEF SeenHead, GotTail, Theirs
<1>3. CASE consumer = "shadow"
  <2>1. Refreshed(consumer, "head") = [view[consumer] EXCEPT !.head = PutHead]
    BY <1>1, <1>3 DEF Refreshed
  <2> QED BY <2>1, <1>2, <1>3
<1>4. CASE consumer # "shadow"
  BY <1>2, <1>4 DEF Refreshed
<1> QED BY <1>3, <1>4

(* What the getting end goes by. *)
LEMMA FreshControls ==
  ASSUME TypeOK
  PROVE  /\ Fresh \in Controls
         /\ Fresh.tail = GotTail /\ Fresh.tail2 = Theirs.tail2
         /\ Fresh.head = SeenHead \/ Fresh.head = PutHead
         /\ Fresh = [head |-> Fresh.head, tail |-> GotTail, tail2 |-> Theirs.tail2]
<1>1. /\ Theirs \in Controls /\ Theirs.tail2 \in Nat
      /\ Theirs = [head |-> SeenHead, tail |-> GotTail, tail2 |-> Theirs.tail2]
  BY ViewTypes, ControlsType DEF SeenHead, GotTail, Theirs
<1>2. \/ Fresh = Theirs
      \/ Fresh = [head |-> IF consumer = "shadow" THEN PutHead ELSE SeenHead,
                  tail |-> GotTail, tail2 |-> Theirs.tail2]
  BY RefreshedHead DEF Fresh
<1>3. PICK h \in Nat : /\ Fresh = [head |-> h, tail |-> GotTail, tail2 |-> Theirs.tail2]
                       /\ h = SeenHead \/ h = PutHead
  BY <1>1, <1>2, ViewTypes
<1>4. Fresh \in Controls
  BY <1>1, <1>3, ViewTypes DEF Controls
<1> QED BY <1>3, <1>4

(* rb_wmb, of head at the putting and of tail at the getting end. *)
LEMMA PublishedHead ==
  ASSUME TypeOK, Publish(producer, "head"), UNCHANGED <<producer, blocking>>
  PROVE  /\ view' \in [Ends -> Controls]
         /\ PutHead' = PutHead /\ PutTail' = PutTail /\ PutTail2' = PutTail2
         /\ GotTail' = GotTail
         /\ SeenHead' = IF producer = "shadow" THEN PutHead ELSE SeenHead
         /\ \A e \in Ends : view'[e].tail = view[e].tail /\ view'[e].tail2 = view[e].tail2
<1> USE DEF PutHead, PutTail, PutTail2, GotTail, SeenHead, Mine, Theirs
<1>1. CASE producer = "shadow"
  <2>1. consumer = "master" /\ consumer' = "master"
    BY <1>1 DEF consumer, Other
  <2>2. view["master"] \in Controls /\ view["shadow"].head \in Nat
    BY ViewTypes
  <2> DEFINE new == [view["master"] EXCEPT !.head = view["shadow"].head]
  <2>3. /\ new = [head |-> view["shadow"].head, tail |-> view["master"].tail,
                  tail2 |-> view["master"].tail2]
        /\ new \in Controls
    BY <2>2, ControlsType
  <2>4. view' = [view EXCEPT !["master"] = new]
    BY <1>1 DEF Publish
  <2> HIDE DEF new
  <2>5. /\ view' \in [Ends -> Controls] /\ view'["master"] = new
        /\ view'["shadow"] = view["shadow"]
    BY <2>3, <2>4, ViewTypes, ViewSet
  <2>6. \A e \in Ends : view'[e].tail = view[e].tail /\ view'[e].tail2 = view[e].tail2
    BY <2>3, <2>5 DEF Ends
  <2> QED BY <1>1, <2>1, <2>3, <2>5, <2>6, ViewTypes
<1>2. CASE producer # "shadow"
  BY <1>2 DEF Publish, TypeOK, consumer
<1> QED BY <1>1, <1>2

LEMMA PublishedTail ==
  ASSUME TypeOK, Publish(consumer, "tail"), UNCHANGED <<producer, blocking>>
  PROVE  /\ view' \in [Ends -> Controls]
         /\ PutHead' = PutHead /\ PutTail2' = PutTail2
         /\ PutTail' = IF consumer = "shadow" THEN GotTail ELSE PutTail
         /\ GotTail' = GotTail /\ SeenHead' = SeenHead
         /\ view'[consumer] = view[consumer]
<1> USE DEF PutHead, PutTail, PutTail2, GotTail, SeenHead, Mine, Theirs
<1>1. CASE consumer = "shadow"
  <2>1. producer = "master" /\ consumer' = "shadow"
    BY <1>1 DEF consumer, Other, TypeOK, Ends
  <2>2. view["master"] \in Controls /\ view["shadow"].tail \in Nat
    BY ViewTypes
  <2> DEFINE new == [view["master"] EXCEPT !.tail = view["shadow"].tail]
  <2>3. /\ new = [head |-> view["master"].head, tail |-> view["shadow"].tail,
                  tail2 |-> view["master"].tail2]
        /\ new \in Controls
    BY <2>2, ControlsType, ViewTypes
  <2>4. view' = [view EXCEPT !["master"] = new]
    BY <1>1 DEF Publish
  <2> HIDE DEF new
  <2>5. /\ view' \in [Ends -> Controls] /\ view'["master"] = new
        /\ view'["shadow"] = view["shadow"]
    BY <2>3, <2>4, ViewTypes, ViewSet
  <2> QED BY <1>1, <2>1, <2>3, <2>5, ViewTypes
<1>2. CASE consumer # "shadow"
  BY <1>2 DEF Publish, TypeOK, consumer
<1> QED BY <1>1, <1>2
-------------------------------------------------------------------------------
(* The ways the sequence of elements changes. *)

LEMMA ElementParts ==
  ASSUME NEW x \in Element, NEW p \in Phases
  PROVE  /\ x.off \in Nat /\ x.size \in Nat /\ x.phase \in Phases
         /\ [x EXCEPT !.phase = p] \in Element
         /\ [x EXCEPT !.phase = p].off = x.off
         /\ [x EXCEPT !.phase = p].size = x.size
         /\ [x EXCEPT !.phase = p].phase = p
BY DEF Element

(* Elements change, but not their number. *)
LEMMA SameLength ==
  ASSUME TypeOK, NEW t, DOMAIN t = DOMAIN items, t = [i \in DOMAIN t |-> t[i]],
         \A i \in DOMAIN items : t[i] \in Element
  PROVE  t \in Seq(Element) /\ Len(t) = Len(items)
<1>1. Len(items) \in Nat /\ DOMAIN items = 1 .. Len(items)
  BY LenProperties DEF TypeOK
<1>2. t \in [1 .. Len(items) -> Element]
  BY <1>1
<1>3. t \in Seq(Element)
  BY <1>1, <1>2, SeqDef
<1> QED BY <1>1, <1>2, <1>3, LenProperties

LEMMA ItemTypes ==
  ASSUME TypeOK
  PROVE  /\ DOMAIN items = 1 .. Len(items) /\ Len(items) \in Nat
         /\ \A i \in DOMAIN items :
              /\ items[i] \in Element
              /\ items[i].off \in Nat /\ items[i].size \in Nat
              /\ items[i].phase \in Phases
<1>1. DOMAIN items = 1 .. Len(items) /\ Len(items) \in Nat
  BY LenProperties DEF TypeOK
<1>2. \A i \in DOMAIN items : items[i] \in Element
  BY <1>1, ElementOfSeq DEF TypeOK
<1> QED BY <1>1, <1>2, ElementParts DEF Phases

(* The element at tail is taken. *)
LEMMA TakenItems ==
  ASSUME TypeOK, items' = Taken
  PROVE  /\ items' \in Seq(Element) /\ Len(items') = Len(items)
         /\ DOMAIN items' = DOMAIN items
         /\ \A i \in DOMAIN items :
              /\ items'[i].off = items[i].off /\ items'[i].size = items[i].size
              /\ items'[i].phase = IF items[i].off = GotTail THEN "got"
                                   ELSE items[i].phase
<1>1. PICK t : t = items'
  OBVIOUS
<1>2. /\ DOMAIN t = DOMAIN items /\ t = [i \in DOMAIN t |-> t[i]]
      /\ \A i \in DOMAIN items :
           t[i] = IF items[i].off = GotTail THEN [items[i] EXCEPT !.phase = "got"]
                  ELSE items[i]
  BY <1>1, FreshControls DEF Taken
<1>3. \A i \in DOMAIN items :
        /\ t[i] \in Element /\ t[i].off = items[i].off /\ t[i].size = items[i].size
        /\ t[i].phase = IF items[i].off = GotTail THEN "got" ELSE items[i].phase
  <2> TAKE i \in DOMAIN items
  <2>1. PICK x \in Element : x = items[i]
    BY ItemTypes
  <2>2. t[i] = IF x.off = GotTail THEN [x EXCEPT !.phase = "got"] ELSE x
    BY <1>2, <2>1
  <2>3. "got" \in Phases
    BY DEF Phases
  <2>4. CASE x.off = GotTail
    BY <2>1, <2>2, <2>3, <2>4, ElementParts
  <2>5. CASE x.off # GotTail
    BY <2>1, <2>2, <2>5
  <2> QED BY <2>1, <2>4, <2>5
<1>4. t \in Seq(Element) /\ Len(t) = Len(items)
  BY <1>2, <1>3, SameLength
<1> QED BY <1>1, <1>2, <1>3, <1>4

LEMMA OnePhaseChanges ==
  ASSUME TypeOK, NEW k \in DOMAIN items, NEW p \in Phases,
         items' = [items EXCEPT ![k].phase = p]
  PROVE  /\ items' \in Seq(Element) /\ Len(items') = Len(items)
         /\ DOMAIN items' = DOMAIN items
         /\ \A i \in DOMAIN items :
              /\ items'[i].off = items[i].off /\ items'[i].size = items[i].size
              /\ items'[i].phase = IF i = k THEN p ELSE items[i].phase
<1>1. PICK t : t = items'
  OBVIOUS
<1>2. /\ DOMAIN t = DOMAIN items /\ t = [i \in DOMAIN t |-> t[i]]
      /\ \A i \in DOMAIN items :
           t[i] = IF i = k THEN [items[i] EXCEPT !.phase = p] ELSE items[i]
  BY <1>1
<1>3. \A i \in DOMAIN items :
        /\ t[i] \in Element /\ t[i].off = items[i].off /\ t[i].size = items[i].size
        /\ t[i].phase = IF i = k THEN p ELSE items[i].phase
  <2> TAKE i \in DOMAIN items
  <2>1. PICK x \in Element : x = items[i]
    BY ItemTypes
  <2>2. t[i] = IF i = k THEN [x EXCEPT !.phase = p] ELSE x
    BY <1>2, <2>1
  <2> QED BY <2>1, <2>2, ElementParts
<1>4. t \in Seq(Element) /\ Len(t) = Len(items)
  BY <1>2, <1>3, SameLength
<1> QED BY <1>1, <1>2, <1>3, <1>4

LEMMA ElementAdded ==
  ASSUME TypeOK, NEW e \in Element, items' = Append(items, e)
  PROVE  /\ items' \in Seq(Element)
         /\ Len(items) \in Nat /\ DOMAIN items = 1 .. Len(items)
         /\ DOMAIN items' = 1 .. Len(items) + 1 /\ Len(items') = Len(items) + 1
         /\ \A j \in DOMAIN items : items'[j] = items[j]
         /\ items'[Len(items) + 1] = e
BY LenProperties DEF TypeOK
-------------------------------------------------------------------------------
LEMMA TypeInit == Init => TypeOK
<1> SUFFICES ASSUME Init PROVE TypeOK
  OBVIOUS
<1>1. /\ producer \in Ends /\ blocking \in Blockings
      /\ DOMAIN at = Ends /\ at = [e \in Ends |-> at[e]]
  BY DEF Init, ConnectionInit, Ends
<1>2. view \in [Ends -> Controls]
  BY DEF Init, Controls
<1>3. elm \in [Positions -> [size : Nat, status : Statuses]]
  BY DEF Init, Positions, Statuses
<1>4. items \in Seq(Element)
  BY DEF Init
<1>5. /\ put \in [pc : PutPlaces, batch : Nat, own : SUBSET Nat, need : Nat]
      /\ get \in [pc : GetPlaces, batch : Nat, own : SUBSET Nat]
      /\ rbtail \in Nat /\ gets \in Nat
  BY DEF Init, PutPlaces, GetPlaces
<1> QED BY <1>1, <1>2, <1>3, <1>4, <1>5 DEF TypeOK

(* The connection: what its steps do to the place of the shadow. *)
LEMMA ConnectionStep ==
  ASSUME TypeOK,
         \/ Handshake \/ DestroyMaster \/ DestroyShadow \/ Mapped
         \/ \E e \in Ends : ProcessEnds(e)
  PROVE  /\ producer' = producer /\ blocking' = blocking /\ DOMAIN at' = Ends
         /\ at' = [e \in Ends |-> at'[e]]
         /\ at'["shadow"] \notin {"ready", "gone"} => at["shadow"] \notin {"ready", "gone"}
<1>2. "master" \in Ends /\ "shadow" \in Ends
  BY DEF Ends
<1>3. CASE WaitForShadow
  BY <1>2, <1>3 DEF Go, TypeOK, WaitForShadow
<1>4. CASE Accept
  BY <1>2, <1>4 DEF Go, TypeOK, Accept
<1>5. CASE Offer
  BY <1>2, <1>5 DEF Go, TypeOK, Offer, Advance
<1>6. CASE WaitFails
  BY <1>2, <1>6 DEF Go, TypeOK, WaitFails
<1>7. CASE Connect
  BY <1>2, <1>7 DEF Go, TypeOK, Connect
<1>8. CASE Receive
  BY <1>2, <1>8 DEF Go, TypeOK, Receive, Advance
<1>9. CASE CreateFails
  BY <1>2, <1>9 DEF Go, TypeOK, CreateFails
<1>10. CASE MapFails
  BY <1>2, <1>10 DEF Go, TypeOK, MapFails
<1>11. ASSUME NEW e \in Ends, ProcessEnds(e)
       PROVE  /\ producer' = producer /\ blocking' = blocking /\ DOMAIN at' = Ends
              /\ at' = [f \in Ends |-> at'[f]]
              /\ at'["shadow"] \notin {"ready", "gone"} => at["shadow"] \notin {"ready", "gone"}
  BY <1>2, <1>11 DEF Go, ProcessEnds, TypeOK
<1>12. CASE DestroyMaster
  BY <1>2, <1>12 DEF Go, TypeOK, DestroyMaster
<1>13. CASE DestroyShadow
  BY <1>2, <1>13 DEF Go, TypeOK, DestroyShadow
<1>14. CASE Mapped
  BY <1>2, <1>14 DEF Go, TypeOK, Mapped
<1> QED
  BY <1>3, <1>4, <1>5, <1>6, <1>7, <1>8, <1>9, <1>10, <1>11, <1>12, <1>13, <1>14
     DEF Handshake
-------------------------------------------------------------------------------
(* What the steps do to the control variables and the types. *)

LEMMA SameView ==
  ASSUME UNCHANGED <<producer, view>>
  PROVE  /\ consumer' = consumer
         /\ PutHead' = PutHead /\ PutTail' = PutTail /\ PutTail2' = PutTail2
         /\ GotTail' = GotTail /\ SeenHead' = SeenHead
BY DEF consumer, PutHead, PutTail, PutTail2, GotTail, SeenHead, Mine, Theirs

LEMMA MineSet ==
  ASSUME TypeOK, NEW v \in Controls, view' = [view EXCEPT ![producer] = v],
         UNCHANGED <<producer, blocking>>
  PROVE  /\ view' \in [Ends -> Controls]
         /\ PutHead' = v.head /\ PutTail' = v.tail /\ PutTail2' = v.tail2
         /\ GotTail' = GotTail /\ SeenHead' = SeenHead
         /\ view'[consumer] = view[consumer]
<1>1. /\ view' \in [Ends -> Controls] /\ view'[producer] = v
      /\ view'[consumer] = view[consumer]
  BY ViewTypes, ViewSet
<1> QED BY <1>1 DEF consumer, PutHead, PutTail, PutTail2, GotTail, SeenHead, Mine, Theirs

LEMMA TheirsSet ==
  ASSUME TypeOK, NEW v \in Controls, view' = [view EXCEPT ![consumer] = v],
         UNCHANGED <<producer, blocking>>
  PROVE  /\ view' \in [Ends -> Controls]
         /\ PutHead' = PutHead /\ PutTail' = PutTail /\ PutTail2' = PutTail2
         /\ GotTail' = v.tail /\ SeenHead' = v.head
         /\ view'[consumer] = v
<1>1. /\ view' \in [Ends -> Controls] /\ view'[consumer] = v
      /\ view'[producer] = view[producer]
  BY ViewTypes, ViewSet
<1> QED BY <1>1 DEF consumer, PutHead, PutTail, PutTail2, GotTail, SeenHead, Mine, Theirs

(* The combiners. *)
LEMMA PutParts ==
  ASSUME TypeOK, NEW p \in PutPlaces, NEW b \in Nat, NEW o \in SUBSET Nat, NEW n \in Nat,
         \/ put' = [put EXCEPT !.pc = p]
         \/ put' = [put EXCEPT !.pc = p, !.need = n]
         \/ put' = [put EXCEPT !.pc = p, !.batch = b]
         \/ put' = [put EXCEPT !.pc = p, !.batch = b, !.own = o]
  PROVE  /\ put' \in [pc : PutPlaces, batch : Nat, own : SUBSET Nat, need : Nat]
         /\ put'.pc = p
<1>1. put \in [pc : PutPlaces, batch : Nat, own : SUBSET Nat, need : Nat]
  BY DEF TypeOK
<1> QED BY <1>1

LEMMA ReapEnd ==
  ASSUME TypeOK, NEW start \in Nat, NEW stop
  PROVE  Reap(start, stop).end \in Nat
<1>0. PICK from \in Nat : from = start
  OBVIOUS
<1>1. PICK f \in [0 .. Size -> Nat] :
        /\ f[0] = from
        /\ \A k \in 1 .. Size : f[k] = Stepped(f[k - 1], stop)
        /\ Reap(from, stop) = [end |-> f[Size], passed |-> {f[k] : k \in 0 .. Size}]
  BY ReapPath
<1> QED BY <1>0, <1>1, SizeAssumption

LEMMA PutReapEffect ==
  ASSUME TypeOK, PutReap
  PROVE  LET t == IF producer = "shadow" THEN GotTail ELSE PutTail
             r == Reap(PutTail2, t)
         IN  /\ t \in Nat /\ r.end \in Nat
             /\ view' \in [Ends -> Controls] /\ view'[consumer] = view[consumer]
             /\ PutHead' = PutHead /\ PutTail' = t /\ PutTail2' = r.end
             /\ GotTail' = GotTail /\ SeenHead' = SeenHead
             /\ put'.pc \in {"write", "again"}
             /\ put'.pc = "write" =>
                  put.need < Gap([head |-> PutHead, tail |-> t, tail2 |-> r.end])
             /\ put' \in [pc : PutPlaces, batch : Nat, own : SUBSET Nat, need : Nat]
             /\ put'.need = put.need
<1> DEFINE t == IF producer = "shadow" THEN GotTail ELSE PutTail
           v == Refreshed(producer, "tail")
           r == Reap(PutTail2, t)
           new == [head |-> PutHead, tail |-> t, tail2 |-> r.end]
<1>1. t \in Nat /\ PutTail2 \in Nat /\ PutHead \in Nat
  BY ViewTypes
<1>3. r.end \in Nat
  BY <1>1, ReapEnd
<1>4. v = [head |-> PutHead, tail |-> t, tail2 |-> PutTail2]
  BY RefreshedTail
<1>5. new \in Controls
  BY <1>1, <1>3 DEF Controls
<1>6. /\ view' = [view EXCEPT ![producer] = new]
      /\ PutGo(IF Fits(new) THEN "write" ELSE "again")
      /\ UNCHANGED <<connection, elm, items, get, rbtail, gets>>
  <2>1. [v EXCEPT !.tail2 = Reap(v.tail2, v.tail).end] = new
    BY <1>4
  <2> QED BY <2>1, <1>4 DEF PutReap
<1> HIDE DEF new, r, t, v
<1>7. /\ view' \in [Ends -> Controls] /\ view'[consumer] = view[consumer]
      /\ PutHead' = new.head /\ PutTail' = new.tail /\ PutTail2' = new.tail2
      /\ GotTail' = GotTail /\ SeenHead' = SeenHead
  BY <1>5, <1>6, MineSet DEF connection
<1>8. new.head = PutHead /\ new.tail = t /\ new.tail2 = r.end
  BY DEF new
<1>9. put \in [pc : PutPlaces, batch : Nat, own : SUBSET Nat, need : Nat]
  BY DEF TypeOK
<1>10. /\ put' \in [pc : PutPlaces, batch : Nat, own : SUBSET Nat, need : Nat]
       /\ put'.need = put.need /\ put'.pc \in {"write", "again"}
       /\ put'.pc = "write" => Fits(new)
  BY <1>6, <1>9 DEF PutGo, PutPlaces
<1> QED BY <1>1, <1>3, <1>6, <1>7, <1>8, <1>10 DEF Fits, new, r, t

LEMMA PutReapAllEffect ==
  ASSUME TypeOK, PutReapAll
  PROVE  LET r == Reap(PutTail2, PutHead)
             passed == \E q \in r.passed : Ix(q) = Ix(rbtail) /\ Ix(q) # Ix(PutHead)
         IN  /\ r.end \in Nat
             /\ view' \in [Ends -> Controls] /\ view'[consumer] = view[consumer]
             /\ PutHead' = PutHead /\ PutTail' = PutTail /\ PutTail2' = r.end
             /\ GotTail' = GotTail /\ SeenHead' = SeenHead
             /\ put'.pc \in {"cas", "write", "full"}
             /\ put'.pc = "cas" <=> passed
             /\ put'.pc = "write" =>
                  put.need < Gap([head |-> PutHead, tail |-> PutTail, tail2 |-> r.end])
             /\ put' \in [pc : PutPlaces, batch : Nat, own : SUBSET Nat, need : Nat]
             /\ put'.need = put.need
<1> DEFINE r == Reap(PutTail2, PutHead)
           passed == \E q \in r.passed : Ix(q) = Ix(rbtail) /\ Ix(q) # Ix(PutHead)
           new == [head |-> PutHead, tail |-> PutTail, tail2 |-> r.end]
<1>1. PutTail \in Nat /\ PutTail2 \in Nat /\ PutHead \in Nat /\ Mine \in Controls
  BY ViewTypes DEF Mine
<1>3. r.end \in Nat
  BY <1>1, ReapEnd
<1>5. new \in Controls
  BY <1>1, <1>3 DEF Controls
<1>6. /\ view' = [view EXCEPT ![producer] = new]
      /\ PutGo(IF passed THEN "cas" ELSE IF Fits(new) THEN "write" ELSE "full")
      /\ UNCHANGED <<connection, elm, items, get, rbtail, gets>>
  <2>1. [Mine EXCEPT !.tail2 = r.end] = new
    BY <1>1, <1>3, ControlsType DEF PutHead, PutTail
  <2> QED BY <2>1 DEF PutReapAll, PutHead, PutTail2
<1> HIDE DEF new, r, passed
<1>7. /\ view' \in [Ends -> Controls] /\ view'[consumer] = view[consumer]
      /\ PutHead' = new.head /\ PutTail' = new.tail /\ PutTail2' = new.tail2
      /\ GotTail' = GotTail /\ SeenHead' = SeenHead
  BY <1>5, <1>6, MineSet DEF connection
<1>8. new.head = PutHead /\ new.tail = PutTail /\ new.tail2 = r.end
  BY DEF new
<1>9. put \in [pc : PutPlaces, batch : Nat, own : SUBSET Nat, need : Nat]
  BY DEF TypeOK
<1>10. /\ put' \in [pc : PutPlaces, batch : Nat, own : SUBSET Nat, need : Nat]
       /\ put'.need = put.need /\ put'.pc \in {"cas", "write", "full"}
       /\ put'.pc = "cas" <=> passed
       /\ put'.pc = "write" => Fits(new)
  BY <1>6, <1>9 DEF PutGo, PutPlaces
<1> QED BY <1>1, <1>3, <1>6, <1>7, <1>8, <1>10 DEF Fits, new, r, passed

LEMMA PutCasEffect ==
  ASSUME TypeOK, PutCas
  PROVE  LET t == IF Ix(PutTail) = Ix(rbtail) THEN PutTail2 ELSE PutTail
         IN  /\ t \in Nat
             /\ view' \in [Ends -> Controls] /\ view'[consumer] = view[consumer]
             /\ PutHead' = PutHead /\ PutTail' = t /\ PutTail2' = PutTail2
             /\ GotTail' = GotTail /\ SeenHead' = SeenHead
             /\ put'.pc \in {"write", "full"}
             /\ put'.pc = "write" => put.need < Gap(Mine)
             /\ put' \in [pc : PutPlaces, batch : Nat, own : SUBSET Nat, need : Nat]
             /\ put'.need = put.need
<1> DEFINE t == IF Ix(PutTail) = Ix(rbtail) THEN PutTail2 ELSE PutTail
           new == [Mine EXCEPT !.tail = t]
<1>1. t \in Nat /\ Mine \in Controls
  BY ViewTypes DEF Mine
<1>2. view' = [view EXCEPT ![producer] = new]
  BY DEF PutCas, Mine, PutTail, PutTail2
<1> HIDE DEF t
<1>3. /\ new \in Controls
      /\ new = [head |-> Mine.head, tail |-> t, tail2 |-> Mine.tail2]
  BY <1>1, ControlsType
<1>4. new.head = PutHead /\ new.tail = t /\ new.tail2 = PutTail2
  BY <1>3 DEF PutHead, PutTail2
<1> HIDE DEF new
<1>5. /\ view' \in [Ends -> Controls] /\ view'[consumer] = view[consumer]
      /\ PutHead' = new.head /\ PutTail' = new.tail /\ PutTail2' = new.tail2
      /\ GotTail' = GotTail /\ SeenHead' = SeenHead
  BY <1>2, <1>3, MineSet DEF PutCas, connection
<1>6. put \in [pc : PutPlaces, batch : Nat, own : SUBSET Nat, need : Nat]
  BY DEF TypeOK
<1>7. /\ put' \in [pc : PutPlaces, batch : Nat, own : SUBSET Nat, need : Nat]
      /\ put'.need = put.need /\ put'.pc \in {"write", "full"}
      /\ put'.pc = "write" => Fits(Mine)
  BY <1>6 DEF PutCas, PutGo, PutPlaces
<1> QED BY <1>1, <1>4, <1>5, <1>7 DEF Fits, t

LEMMA PutElementEffect ==
  ASSUME TypeOK, PutElement
  PROVE  LET new == [off |-> PutHead, size |-> put.need, phase |-> "reserved"]
         IN  /\ put.need \in Nat /\ new \in Element
             /\ view' \in [Ends -> Controls] /\ view'[consumer] = view[consumer]
             /\ PutHead' = PutHead + put.need
             /\ PutTail' = PutTail /\ PutTail2' = PutTail2
             /\ GotTail' = GotTail /\ SeenHead' = SeenHead
             /\ elm' \in [Positions -> [size : Nat, status : Statuses]]
             /\ elm' = [elm EXCEPT ![Ix(PutHead)] = [size |-> put.need, status |-> "init"]]
             /\ items' = Append(items, new)
             /\ put' \in [pc : PutPlaces, batch : Nat, own : SUBSET Nat, need : Nat]
             /\ put'.pc = "served"
<1> DEFINE h == PutHead + put.need
           new == [Mine EXCEPT !.head = h]
<1>1. /\ put \in [pc : PutPlaces, batch : Nat, own : SUBSET Nat, need : Nat]
      /\ put.need \in Nat /\ PutHead \in Nat
  BY ViewTypes DEF TypeOK
<1>2. h \in Nat /\ Mine \in Controls
  BY <1>1, ViewTypes DEF Mine
<1>3. view' = [view EXCEPT ![producer] = new]
  BY DEF PutElement, Mine, PutHead
<1> HIDE DEF h
<1>4. /\ new \in Controls
      /\ new = [head |-> h, tail |-> Mine.tail, tail2 |-> Mine.tail2]
  BY <1>2, ControlsType
<1>5. new.head = h /\ new.tail = PutTail /\ new.tail2 = PutTail2
  BY <1>4 DEF PutTail, PutTail2
<1> HIDE DEF new
<1>6. /\ view' \in [Ends -> Controls] /\ view'[consumer] = view[consumer]
      /\ PutHead' = new.head /\ PutTail' = new.tail /\ PutTail2' = new.tail2
      /\ GotTail' = GotTail /\ SeenHead' = SeenHead
  BY <1>3, <1>4, MineSet DEF PutElement, connection
<1>7. elm' = [elm EXCEPT ![Ix(PutHead)] = [size |-> put.need, status |-> "init"]]
      /\ items' = Append(items, [off |-> PutHead, size |-> put.need, phase |-> "reserved"])
  BY DEF PutElement, PutHead
<1>8. [off |-> PutHead, size |-> put.need, phase |-> "reserved"] \in Element
  BY <1>1 DEF Element, Phases
<1>9. elm' \in [Positions -> [size : Nat, status : Statuses]]
  BY <1>1, <1>7 DEF TypeOK, Statuses
<1>10. /\ put' \in [pc : PutPlaces, batch : Nat, own : SUBSET Nat, need : Nat]
       /\ put'.pc = "served"
  <2>1. PICK o \in SUBSET Nat, b \in Nat :
          put' = [put EXCEPT !.pc = "served", !.batch = b, !.own = o]
    <3>1. /\ put' = [put EXCEPT !.pc = "served", !.batch = put.batch + 1,
                      !.own = IF put.batch = 0 THEN {PutHead} ELSE put.own]
          /\ put.batch \in Nat /\ put.own \in SUBSET Nat
      BY <1>1 DEF PutElement, PutHead
    <3>2. (IF put.batch = 0 THEN {PutHead} ELSE put.own) \in SUBSET Nat
          /\ put.batch + 1 \in Nat
      BY <1>1, <3>1
    <3> QED BY <3>1, <3>2
  <2>2. "served" \in PutPlaces
    BY DEF PutPlaces
  <2> QED BY <2>1, <2>2, PutParts
<1> QED BY <1>1, <1>5, <1>6, <1>7, <1>8, <1>9, <1>10 DEF h

LEMMA GetReadyEffect ==
  ASSUME TypeOK, GetReady
  PROVE  LET t == GotTail + elm[Ix(GotTail)].size
         IN  /\ t \in Nat /\ elm[Ix(GotTail)].status = "ready"
             /\ view' \in [Ends -> Controls]
             /\ PutHead' = PutHead /\ PutTail' = PutTail /\ PutTail2' = PutTail2
             /\ GotTail' = t /\ SeenHead' = Fresh.head
             /\ view'[consumer].tail2 = view[consumer].tail2
             /\ Ix(Fresh.head) # Ix(GotTail)
             /\ get' \in [pc : GetPlaces, batch : Nat, own : SUBSET Nat]
             /\ get'.pc = "served" /\ get'.batch = get.batch + 1
             /\ get'.own = IF get.batch = 0 THEN {GotTail} ELSE get.own
<1> DEFINE t == GotTail + elm[Ix(GotTail)].size
           new == [Fresh EXCEPT !.tail = t]
<1>1. /\ Fresh \in Controls
      /\ Fresh.tail = GotTail /\ Fresh.tail2 = Theirs.tail2
  BY FreshControls
<1>2. GotTail \in Nat /\ elm[Ix(GotTail)].size \in Nat
  BY ViewTypes, IxType DEF TypeOK
<1>3. t \in Nat
  BY <1>2
<1>4. /\ view' = [view EXCEPT ![consumer] = new]
      /\ elm[Ix(GotTail)].status = "ready" /\ Ix(Fresh.head) # Ix(GotTail)
  BY <1>1 DEF GetReady, After, Empty
<1> HIDE DEF t
<1>5. /\ new \in Controls
      /\ new = [head |-> Fresh.head, tail |-> t, tail2 |-> Fresh.tail2]
  BY <1>1, <1>3, ControlsType
<1>6. new.head = Fresh.head /\ new.tail = t /\ new.tail2 = Theirs.tail2
  BY <1>1, <1>5
<1> HIDE DEF new
<1>7. /\ view' \in [Ends -> Controls] /\ view'[consumer] = new
      /\ PutHead' = PutHead /\ PutTail' = PutTail /\ PutTail2' = PutTail2
      /\ GotTail' = new.tail /\ SeenHead' = new.head
  BY <1>4, <1>5, TheirsSet DEF GetReady, connection
<1>8. get \in [pc : GetPlaces, batch : Nat, own : SUBSET Nat]
  BY DEF TypeOK
<1>9. /\ get' = [pc |-> "served", batch |-> get.batch + 1,
                 own |-> IF get.batch = 0 THEN {GotTail} ELSE get.own]
      /\ {GotTail} \in SUBSET Nat
  BY <1>2 DEF GetReady, GotTail
<1>10. /\ get' \in [pc : GetPlaces, batch : Nat, own : SUBSET Nat]
       /\ get'.pc = "served" /\ get'.batch = get.batch + 1
       /\ get'.own = IF get.batch = 0 THEN {GotTail} ELSE get.own
  BY <1>8, <1>9 DEF GetPlaces
<1> QED BY <1>3, <1>4, <1>6, <1>7, <1>10 DEF t, Theirs

LEMMA GetNothingEffect ==
  ASSUME TypeOK, GetNothing
  PROVE  /\ view' \in [Ends -> Controls]
         /\ PutHead' = PutHead /\ PutTail' = PutTail /\ PutTail2' = PutTail2
         /\ GotTail' = GotTail /\ SeenHead' = Fresh.head
         /\ view'[consumer].tail2 = view[consumer].tail2
<1>1. /\ Fresh \in Controls
      /\ Fresh.tail = GotTail /\ Fresh.tail2 = Theirs.tail2
  BY FreshControls
<1>2. /\ view' \in [Ends -> Controls] /\ view'[consumer] = Fresh
      /\ PutHead' = PutHead /\ PutTail' = PutTail /\ PutTail2' = PutTail2
      /\ GotTail' = Fresh.tail /\ SeenHead' = Fresh.head
  BY <1>1, TheirsSet DEF GetNothing, connection
<1> QED BY <1>1, <1>2 DEF Theirs
-------------------------------------------------------------------------------
(* The steps that neither put nor take, reap nor connect. *)
PutWaits ==
  \/ \E size \in Sizes : PutCall(size) \/ (PutNext(size) /\ UNCHANGED view)
  \/ PutFits \/ PutPeek \/ PutFails \/ PutWake
GetWaits == GetCall \/ GetPeek \/ GetFails \/ GetWake \/ (GetNext /\ UNCHANGED view)
PutPublishes ==
  \/ PutHandOver \/ PutReturn
  \/ \E size \in Sizes : PutNext(size) /\ Publish(producer, "head")
GetPublishes ==
  \/ GetHandOver \/ GetReturn
  \/ GetNext /\ Publish(consumer, "tail")
Connects ==
  \/ (Handshake \/ \E e \in Ends : ProcessEnds(e)) /\ UNCHANGED data
  \/ \E e \in Ends : Destroy(e)
Marks(i) == SetReady(i) \/ SetDone(i)

LEMMA NextCases ==
  ASSUME [Next]_vars
  PROVE  \/ Connects \/ CreateShadow
         \/ PutWaits \/ PutReap \/ PutNote \/ PutReapAll \/ PutCas \/ PutElement \/ PutPublishes
         \/ GetWaits \/ GetReady \/ GetNothing \/ GetPublishes
         \/ \E i \in DOMAIN items : Marks(i)
         \/ UNCHANGED vars
<1>1. ASSUME NEW size \in Sizes, PutNext(size) PROVE PutWaits \/ PutPublishes
  BY <1>1 DEF PutNext, PutWaits, PutPublishes
<1>2. ASSUME GetNext PROVE GetWaits \/ GetPublishes
  BY <1>2 DEF GetNext, GetWaits, GetPublishes
<1>3. PutStep => \/ PutWaits \/ PutReap \/ PutNote \/ PutReapAll \/ PutCas \/ PutElement
                 \/ PutPublishes
  BY DEF PutStep, PutWaits, PutPublishes
<1>4. GetStep => GetWaits \/ GetReady \/ GetNothing \/ GetPublishes
  BY DEF GetStep, GetWaits, GetPublishes
<1>5. ASSUME NEW size \in Sizes, PutCall(size) PROVE PutWaits
  BY <1>5 DEF PutWaits
<1>6. GetCall => GetWaits
  BY DEF GetWaits
<1> QED BY <1>1, <1>2, <1>3, <1>4, <1>5, <1>6 DEF Next, Connects, Marks

LEMMA PutWaitsParts ==
  ASSUME TypeOK, PutWaits
  PROVE  /\ put' \in [pc : PutPlaces, batch : Nat, own : SUBSET Nat, need : Nat]
         /\ put'.pc \in {"idle", "check", "write", "failed", "peek"}
         /\ put'.pc \notin {"idle", "failed"} => put'.need \in Sizes \/ put'.need = put.need
         /\ put'.pc = "write" => put' = [put EXCEPT !.pc = "write"] /\ PutFits
         /\ put.pc # "idle" \/ Usable(producer)
         /\ put.pc \in {"idle", "served", "failed"} => put'.need \in Sizes
         /\ UNCHANGED <<connection, view, elm, items, get, rbtail, gets>>
<1>1. put \in [pc : PutPlaces, batch : Nat, own : SUBSET Nat, need : Nat]
      /\ put.batch + 1 \in Nat
  BY DEF TypeOK
<1>2. \A size \in Sizes : size \in Nat
  BY SizeAssumption
<1>3. ASSUME NEW size \in Sizes, PutCall(size) \/ (PutNext(size) /\ UNCHANGED view)
      PROVE  /\ put' \in [pc : PutPlaces, batch : Nat, own : SUBSET Nat, need : Nat]
             /\ put'.pc = "check" /\ put'.need \in Sizes
             /\ put.pc # "idle" \/ Usable(producer)
             /\ UNCHANGED <<connection, view, elm, items, get, rbtail, gets>>
  BY <1>1, <1>2, <1>3 DEF PutCall, PutNext, PutPlaces
<1>4. ASSUME PutFits \/ PutPeek \/ PutFails \/ PutWake
      PROVE  /\ put' \in [pc : PutPlaces, batch : Nat, own : SUBSET Nat, need : Nat]
             /\ put'.pc \in {"idle", "check", "write", "failed", "peek"}
             /\ put'.need = put.need /\ put.pc \notin {"idle", "served", "failed"}
             /\ put'.pc = "write" => put' = [put EXCEPT !.pc = "write"] /\ PutFits
             /\ UNCHANGED <<connection, view, elm, items, get, rbtail, gets>>
  BY <1>1, <1>4 DEF PutFits, PutPeek, PutFails, PutWake, PutGo, PutPlaces
<1> QED BY <1>3, <1>4 DEF PutWaits

LEMMA GetWaitsParts ==
  ASSUME TypeOK, GetWaits
  PROVE  /\ get' \in [pc : GetPlaces, batch : Nat, own : SUBSET Nat]
         /\ get'.own = get.own
         /\ get.pc # "idle" \/ Usable(consumer)
         /\ gets' \in Nat
         /\ UNCHANGED <<connection, view, elm, items, put, rbtail>>
<1>1. get \in [pc : GetPlaces, batch : Nat, own : SUBSET Nat] /\ get.batch + 1 \in Nat
      /\ gets \in Nat
  BY DEF TypeOK
<1>2. get' \in [pc : GetPlaces, batch : Nat, own : SUBSET Nat] /\ get'.own = get.own
  BY <1>1 DEF GetWaits, GetCall, GetPeek, GetFails, GetWake, GetNext, GetGo, GetPlaces
<1> QED BY <1>1, <1>2 DEF GetWaits, GetCall, GetPeek, GetFails, GetWake, GetNext

LEMMA PublishesParts ==
  ASSUME TypeOK
  PROVE  /\ PutPublishes =>
              /\ Publish(producer, "head") /\ put.pc \in {"full", "served", "failed"}
              /\ put' \in [pc : PutPlaces, batch : Nat, own : SUBSET Nat, need : Nat]
              /\ put'.pc \in {"idle", "check"}
              /\ \/ put'.pc = "idle" \/ put'.need \in Sizes
                 \/ put'.need = put.need /\ put.pc = "full"
              /\ UNCHANGED <<connection, elm, items, get, rbtail, gets>>
         /\ GetPublishes =>
              /\ Publish(consumer, "tail") /\ get.pc # "idle"
              /\ get' \in [pc : GetPlaces, batch : Nat, own : SUBSET Nat]
              /\ \/ get'.batch = 0 /\ get'.own = {}
                 \/ /\ get'.pc = "check" /\ get'.batch = get.batch /\ get'.own = get.own
                    /\ get.batch < Combined[consumer]
              /\ gets' \in Nat
              /\ UNCHANGED <<connection, elm, items, put, rbtail>>
<1>1. put \in [pc : PutPlaces, batch : Nat, own : SUBSET Nat, need : Nat]
  BY DEF TypeOK
<1>2. {} \in SUBSET Nat
  OBVIOUS
<1>3. PutPublishes =>
        /\ put' \in [pc : PutPlaces, batch : Nat, own : SUBSET Nat, need : Nat]
        /\ put'.pc \in {"idle", "check"} /\ put.pc \in {"full", "served", "failed"}
        /\ \/ put'.pc = "idle" \/ put'.need \in Sizes
           \/ put'.need = put.need /\ put.pc = "full"
  <2>1. ASSUME NEW p \in {"idle", "check"},
               put' = [put EXCEPT !.pc = p, !.batch = 0, !.own = {}]
        PROVE  /\ put' \in [pc : PutPlaces, batch : Nat, own : SUBSET Nat, need : Nat]
               /\ put'.pc = p /\ put'.need = put.need
    <3>1. p \in PutPlaces /\ 0 \in Nat
      BY DEF PutPlaces
    <3> QED BY <1>1, <1>2, <2>1, <3>1, PutParts
  <2>2. CASE PutHandOver
    BY <2>1, <2>2 DEF PutHandOver
  <2>3. CASE PutReturn
    BY <2>1, <2>3 DEF PutReturn
  <2>4. ASSUME NEW size \in Sizes, PutNext(size)
        PROVE  /\ put' \in [pc : PutPlaces, batch : Nat, own : SUBSET Nat, need : Nat]
               /\ put'.pc = "check" /\ put'.need \in Sizes
               /\ put.pc \in {"served", "failed"}
    <3>1. size \in Nat
      BY SizesType
    <3> QED BY <1>1, <2>4, <3>1 DEF PutNext, PutPlaces
  <2> QED BY <2>2, <2>3, <2>4 DEF PutPublishes
<1>4. get \in [pc : GetPlaces, batch : Nat, own : SUBSET Nat] /\ gets \in Nat
  BY DEF TypeOK
<1>5. GetHandOver \/ GetReturn =>
        /\ get' \in [pc : GetPlaces, batch : Nat, own : SUBSET Nat]
        /\ get'.batch = 0 /\ get'.own = {} /\ get.pc # "idle" /\ gets' \in Nat
  BY <1>2, <1>4 DEF GetHandOver, GetReturn, GetPlaces
<1>6. GetNext =>
        /\ get' \in [pc : GetPlaces, batch : Nat, own : SUBSET Nat]
        /\ get'.pc = "check" /\ get'.batch = get.batch /\ get'.own = get.own
        /\ get.batch < Combined[consumer] /\ get.pc # "idle" /\ gets' \in Nat
  BY <1>4 DEF GetNext, GetGo, GetPlaces
<1>7. PutPublishes =>
        /\ Publish(producer, "head")
        /\ UNCHANGED <<connection, elm, items, get, rbtail, gets>>
  BY DEF PutPublishes, PutHandOver, PutReturn, PutNext
<1>8. GetPublishes =>
        /\ Publish(consumer, "tail")
        /\ UNCHANGED <<connection, elm, items, put, rbtail>>
  BY DEF GetPublishes, GetHandOver, GetReturn, GetNext
<1> QED BY <1>3, <1>5, <1>6, <1>7, <1>8 DEF GetPublishes

LEMMA MarksParts ==
  ASSUME TypeOK, NEW i \in DOMAIN items, Marks(i)
  PROVE  \E p \in {"ready", "done"} :
           /\ p \in Phases
           /\ p = "ready" => items[i].phase = "reserved"
           /\ p = "done" => items[i].phase = "got" /\ items[i].off \notin get.own
           /\ elm' = [elm EXCEPT ![Ix(items[i].off)].status = p]
           /\ elm' \in [Positions -> [size : Nat, status : Statuses]]
           /\ items' = [items EXCEPT ![i].phase = p]
           /\ UNCHANGED <<connection, view, put, get, rbtail, gets>>
<1>1. Ix(items[i].off) \in Positions
  BY ItemTypes, IxType
<1>2. SetReady(i) \/ SetDone(i)
  BY DEF Marks
<1>3. ASSUME NEW p \in {"ready", "done"}, SetStatus(i, p)
      PROVE  /\ p \in Phases
             /\ elm' \in [Positions -> [size : Nat, status : Statuses]]
  BY <1>1, <1>3 DEF SetStatus, TypeOK, Phases, Statuses
<1> QED BY <1>2, <1>3 DEF SetReady, SetDone, SetStatus

LEMMA ConnectsParts ==
  ASSUME TypeOK, Connects
  PROVE  /\ producer' = producer /\ blocking' = blocking /\ DOMAIN at' = Ends
         /\ at' = [e \in Ends |-> at'[e]]
         /\ at'["shadow"] \notin {"ready", "gone"} => at["shadow"] \notin {"ready", "gone"}
         /\ UNCHANGED data
<1>1. /\ \/ Handshake \/ DestroyMaster \/ DestroyShadow
         \/ \E e \in Ends : ProcessEnds(e)
      /\ UNCHANGED data
  BY DEF Connects, Destroy
<1> QED BY <1>1, ConnectionStep

(* The shadow takes over the master's variables. *)
LEMMA CreateShadowParts ==
  ASSUME TypeOK, CreateShadow
  PROVE  /\ producer' = producer /\ blocking' = blocking /\ DOMAIN at' = Ends
         /\ at' = [e \in Ends |-> at'[e]]
         /\ at["shadow"] = "mapping" /\ at'["shadow"] = "ready"
         /\ view' \in [Ends -> Controls]
         /\ view'["shadow"] = view["master"] /\ view'["master"] = view["master"]
         /\ UNCHANGED <<elm, items, put, get, rbtail, gets>>
<1>1. /\ producer' = producer /\ blocking' = blocking /\ DOMAIN at' = Ends
      /\ at' = [e \in Ends |-> at'[e]]
  BY ConnectionStep DEF CreateShadow
<1>2. at["shadow"] = "mapping" /\ at'["shadow"] = "ready"
  BY DEF CreateShadow, Mapped, Go, TypeOK, Ends
<1>3. "shadow" \in Ends /\ "master" \in Ends /\ view["master"] \in Controls
  BY ViewTypes
<1>4. /\ view' \in [Ends -> Controls]
      /\ view'["shadow"] = view["master"] /\ view'["master"] = view["master"]
  BY <1>3, ViewSet DEF CreateShadow
<1> QED BY <1>1, <1>2, <1>4 DEF CreateShadow

LEMMA TypeStep == TypeOK /\ [Next]_vars => TypeOK'
<1> SUFFICES ASSUME TypeOK, [Next]_vars PROVE TypeOK'
  OBVIOUS
<1>1. CASE Connects
  BY <1>1, ConnectsParts DEF TypeOK, data
<1>2. CASE CreateShadow
  BY <1>2, CreateShadowParts DEF TypeOK
<1>3. CASE PutWaits
  BY <1>3, PutWaitsParts DEF TypeOK, connection
<1>4. CASE PutReap
  <2>2. /\ view' \in [Ends -> Controls]
        /\ put' \in [pc : PutPlaces, batch : Nat, own : SUBSET Nat, need : Nat]
    BY <1>4, PutReapEffect
  <2> QED BY <1>4, <2>2 DEF TypeOK, connection, PutReap
<1>15. CASE PutNote
  <2>1. put \in [pc : PutPlaces, batch : Nat, own : SUBSET Nat, need : Nat]
        /\ Mine.tail \in Nat
    BY ViewTypes DEF TypeOK, PutTail
  <2>2. put' \in [pc : PutPlaces, batch : Nat, own : SUBSET Nat, need : Nat]
        /\ rbtail' \in Nat
    BY <1>15, <2>1 DEF PutNote, PutGo, PutPlaces
  <2> QED BY <1>15, <2>2 DEF TypeOK, connection, PutNote
<1>5. CASE PutReapAll
  <2>1. /\ view' \in [Ends -> Controls]
        /\ put' \in [pc : PutPlaces, batch : Nat, own : SUBSET Nat, need : Nat]
    BY <1>5, PutReapAllEffect
  <2> QED BY <1>5, <2>1 DEF TypeOK, connection, PutReapAll
<1>6. CASE PutCas
  <2>1. /\ view' \in [Ends -> Controls]
        /\ put' \in [pc : PutPlaces, batch : Nat, own : SUBSET Nat, need : Nat]
    BY <1>6, PutCasEffect
  <2> QED BY <1>6, <2>1 DEF TypeOK, connection, PutCas
<1>7. CASE PutElement
  <2>1. /\ view' \in [Ends -> Controls]
        /\ put' \in [pc : PutPlaces, batch : Nat, own : SUBSET Nat, need : Nat]
        /\ elm' \in [Positions -> [size : Nat, status : Statuses]]
    BY <1>7, PutElementEffect
  <2>2. items' \in Seq(Element)
    BY <1>7, PutElementEffect, ElementAdded
  <2> QED BY <1>7, <2>1, <2>2 DEF TypeOK, connection, PutElement
<1>8. CASE PutPublishes
  <2>1. view' \in [Ends -> Controls]
    BY <1>8, PublishesParts, PublishedHead DEF connection
  <2> QED BY <1>8, <2>1, PublishesParts DEF TypeOK, connection
<1>9. CASE GetWaits
  BY <1>9, GetWaitsParts DEF TypeOK, connection
<1>10. CASE GetReady
  <2>1. /\ view' \in [Ends -> Controls]
        /\ get' \in [pc : GetPlaces, batch : Nat, own : SUBSET Nat]
    BY <1>10, GetReadyEffect
  <2>2. items' \in Seq(Element)
    BY <1>10, TakenItems DEF GetReady
  <2> QED BY <1>10, <2>1, <2>2 DEF TypeOK, connection, GetReady
<1>11. CASE GetNothing
  <2>1. view' \in [Ends -> Controls]
    BY <1>11, GetNothingEffect
  <2>2. get \in [pc : GetPlaces, batch : Nat, own : SUBSET Nat]
    BY DEF TypeOK
  <2>3. get' \in [pc : GetPlaces, batch : Nat, own : SUBSET Nat]
    BY <1>11, <2>2 DEF GetNothing, GetGo, GetPlaces
  <2> QED BY <1>11, <2>1, <2>3 DEF TypeOK, connection, GetNothing
<1>12. CASE GetPublishes
  <2>1. view' \in [Ends -> Controls]
    BY <1>12, PublishesParts, PublishedTail DEF connection
  <2> QED BY <1>12, <2>1, PublishesParts DEF TypeOK, connection
<1>13. ASSUME NEW i \in DOMAIN items, Marks(i) PROVE TypeOK'
  <2>1. PICK p \in {"ready", "done"} :
          /\ p \in Phases
          /\ elm' \in [Positions -> [size : Nat, status : Statuses]]
          /\ items' = [items EXCEPT ![i].phase = p]
          /\ UNCHANGED <<connection, view, put, get, rbtail, gets>>
    BY <1>13, MarksParts
  <2>2. items' \in Seq(Element)
    BY <2>1, OnePhaseChanges
  <2> QED BY <2>1, <2>2 DEF TypeOK, connection
<1>14. CASE UNCHANGED vars
  BY <1>14 DEF TypeOK, vars, connection
<1> QED BY <1>1, <1>2, <1>3, <1>4, <1>5, <1>6, <1>7, <1>8, <1>9, <1>10, <1>11, <1>12,
           <1>13, <1>14, <1>15, NextCases

(* Every behaviour keeps the types. *)
THEOREM TypeCorrect == Spec => []TypeOK
BY TypeInit, TypeStep, PTL DEF Spec
-------------------------------------------------------------------------------
(* Where reaps lead.  An element that starts before a boundary ends there  *)
(* or before it.                                                           *)
LEMMA EndsBefore ==
  ASSUME TypeOK, Layout, NEW b \in Nat, Boundary(b),
         NEW i \in DOMAIN items, items[i].off < b
  PROVE  End(i) <= b
<1>1. CASE b = PutHead
  BY <1>1 DEF Layout
<1>2. ASSUME NEW j \in DOMAIN items, items[j].off = b PROVE End(i) <= b
  <2>1. /\ items[j].off \in Nat /\ items[i].off \in Nat
        /\ items[j].size \in Nat /\ items[i].size \in Nat /\ i \in Nat /\ j \in Nat
    BY ItemTypes
  <2>2. ~(j < i)
    BY <1>2, <2>1 DEF Layout, End
  <2> QED BY <1>2, <2>1, <2>2 DEF Layout
<1> QED BY <1>1, <1>2 DEF Boundary

(* From a finished element a reap goes to the next boundary. *)
LEMMA StepOver ==
  ASSUME TypeOK, Layout, Headers, NEW o \in Nat, Boundary(o), o # PutHead,
         PutTail2 <= o, Done(o)
  PROVE  /\ After(o) \in Nat /\ o < After(o) /\ After(o) <= PutHead
         /\ Boundary(After(o))
         /\ \A b \in Nat : Boundary(b) /\ o < b => After(o) <= b
         /\ \A j \in DOMAIN items :
              items[j].off < After(o) => items[j].off < o \/ items[j].phase = "done"
<1> DEFINE n == After(o)
<1>1. PICK i \in DOMAIN items : items[i].off = o
  BY DEF Boundary
<1>2. items[i].size \in Nat /\ items[i].size >= 1 /\ items[i].phase \in Phases
  BY ItemTypes DEF Layout
<1>3. elm[Ix(o)] = [size |-> items[i].size, status |-> StatusOf(items[i].phase)]
  BY <1>1 DEF Headers
<1>4. n = End(i)
  BY <1>1, <1>3 DEF End, After
<1>5. items[i].phase = "done"
  BY <1>2, <1>3 DEF Done, StatusOf, Phases
<1> HIDE DEF n
<1>6. ASSUME NEW b \in Nat, Boundary(b), o < b PROVE n <= b
  BY <1>1, <1>4, <1>6, EndsBefore
<1>7. ASSUME NEW j \in DOMAIN items, items[j].off < n, ~(items[j].off < o)
      PROVE  items[j].phase = "done"
  <2>1. /\ i \in Nat /\ j \in Nat
        /\ items[j].off \in Nat /\ items[j].size \in Nat /\ items[j].size >= 1
    BY ItemTypes DEF Layout
  <2>2. ~(o < items[j].off)
    BY <1>6, <1>7, <2>1, <1>2, <1>4, <1>1 DEF Boundary, End
  <2>3. items[j].off = o
    BY <1>7, <2>1, <2>2
  <2>4. ~(i < j) /\ ~(j < i)
    BY <1>1, <1>2, <2>1, <2>3 DEF Layout, End
  <2>5. i = j
    BY <2>1, <2>4
  <2> QED BY <1>5, <2>5
<1>8. n \in Nat /\ o < n
  BY <1>1, <1>2, <1>4 DEF End
<1>9. n <= PutHead /\ Boundary(n)
  BY <1>4 DEF Layout
<1> QED BY <1>6, <1>7, <1>8, <1>9 DEF n

DoneBefore(o) == \A i \in DOMAIN items : items[i].off < o => items[i].phase = "done"

LEMMA StepInside ==
  ASSUME TypeOK, Layout, Headers, PutHead - PutTail2 < Size,
         NEW stop \in Nat, stop <= PutHead,
         NEW o \in Nat, Boundary(o), PutTail2 <= o, o <= stop, DoneBefore(o)
  PROVE  LET n == Stepped(o, stop) IN
         /\ n \in Nat /\ o <= n /\ Boundary(n) /\ DoneBefore(n)
         /\ \A b \in Nat : Boundary(b) /\ o < b /\ b <= stop => n <= b \/ n = o
         /\ Boundary(stop) => n <= stop
         /\ n = o => o = stop \/ ~Done(o)
<1> DEFINE n == Stepped(o, stop)
<1>0. PutHead \in Nat /\ PutTail2 \in Nat
  BY ViewTypes
<1>1. Ix(o) = Ix(stop) => o = stop
  <2>1. stop < o + Size
    BY <1>0, SizeAssumption
  <2> QED BY <2>1, IxInjective
<1>2. CASE Ix(o) = Ix(stop) \/ ~Done(o)
  <2>1. n = o
    BY <1>2 DEF Stepped
  <2> QED BY <1>1, <1>2, <2>1
<1>3. CASE ~(Ix(o) = Ix(stop) \/ ~Done(o))
  <2>1. n = After(o) /\ Done(o) /\ o # stop
    BY <1>3 DEF Stepped
  <2>2. o < stop /\ o # PutHead
    BY <1>0, <2>1
  <2> HIDE DEF n
  <2>3. /\ n \in Nat /\ o < n /\ Boundary(n)
        /\ \A b \in Nat : Boundary(b) /\ o < b => n <= b
        /\ \A j \in DOMAIN items :
              items[j].off < n => items[j].off < o \/ items[j].phase = "done"
    BY <2>1, <2>2, StepOver
  <2>4. DoneBefore(n)
    BY <2>3 DEF DoneBefore
  <2>5. n # o
    BY <2>3
  <2> QED BY <2>2, <2>3, <2>4, <2>5 DEF n
<1> QED BY <1>2, <1>3

(* A reap passes only what is done, meets every boundary it passes, and    *)
(* stays behind the place it is to stop at, if that is a boundary.         *)
LEMMA ReapInside ==
  ASSUME TypeOK, Layout, Headers, PutHead - PutTail2 < Size,
         Boundary(PutTail2), DoneBefore(PutTail2),
         NEW stop \in Nat, Boundary(stop), PutTail2 <= stop, stop <= PutHead
  PROVE  LET r == Reap(PutTail2, stop) IN
         /\ r.end \in Nat /\ PutTail2 <= r.end /\ r.end <= stop
         /\ Boundary(r.end) /\ DoneBefore(r.end)
         /\ \A q \in r.passed : q \in Nat /\ PutTail2 <= q /\ q <= r.end
         /\ \A b \in Nat : Boundary(b) /\ PutTail2 <= b /\ b <= stop =>
              r.end <= b \/ b \in r.passed
<1>0. PutHead \in Nat /\ PutTail2 \in Nat
  BY ViewTypes
<1>1. PICK from \in Nat : from = PutTail2
  BY <1>0
<1>2. PICK f \in [0 .. Size -> Nat] :
        /\ f[0] = from
        /\ \A k \in 1 .. Size : f[k] = Stepped(f[k - 1], stop)
        /\ Reap(from, stop) = [end |-> f[Size], passed |-> {f[k] : k \in 0 .. Size}]
  BY ReapPath
<1> DEFINE Good(k) == /\ f[k] \in Nat /\ from <= f[k] /\ f[k] <= stop
                      /\ Boundary(f[k]) /\ DoneBefore(f[k])
                      /\ \A j \in 0 .. k : f[j] <= f[k]
                      /\ \A b \in Nat : Boundary(b) /\ from <= b /\ b <= stop =>
                           f[k] <= b \/ \E j \in 0 .. k : f[j] = b
           S == {k \in Nat : k \in 0 .. Size => Good(k)}
<1>3. 0 \in S
  BY <1>1, <1>2
<1>4. ASSUME NEW k \in Nat, k \in S PROVE k + 1 \in S
  <2> SUFFICES ASSUME k + 1 \in 0 .. Size PROVE Good(k + 1)
    OBVIOUS
  <2>1. k \in 0 .. Size /\ k + 1 \in 1 .. Size /\ (k + 1) - 1 = k
    BY SizeAssumption
  <2>2. Good(k) /\ f[k + 1] = Stepped(f[k], stop)
    BY <1>2, <1>4, <2>1
  <2>3. PICK o \in Nat : o = f[k]
    BY <2>2
  <2>4. /\ Boundary(o) /\ PutTail2 <= o /\ o <= stop /\ DoneBefore(o)
    BY <1>1, <2>2, <2>3
  <2>5. PICK n : n = f[k + 1]
    OBVIOUS
  <2>6. n = Stepped(o, stop)
    BY <2>2, <2>3, <2>5
  <2>7. /\ n \in Nat /\ o <= n /\ Boundary(n) /\ DoneBefore(n)
        /\ \A b \in Nat : Boundary(b) /\ o < b /\ b <= stop => n <= b \/ n = o
        /\ n <= stop
    BY <2>4, <2>6, StepInside
  <2>8. \A j \in 0 .. k + 1 : f[j] <= n
    <3> TAKE j \in 0 .. k + 1
    <3>1. CASE j = k + 1
      BY <2>5, <2>7, <3>1
    <3>2. CASE j \in 0 .. k
      <4>1. f[j] <= o
        BY <2>2, <2>3, <3>2
      <4>2. j \in 0 .. Size
        BY <2>1, <3>2, SizeAssumption
      <4>3. f[j] \in Nat
        BY <1>2, <4>2
      <4> QED BY <2>3, <2>5, <2>7, <4>1, <4>3
    <3> QED BY <3>1, <3>2
  <2>9. ASSUME NEW b \in Nat, Boundary(b), from <= b, b <= stop
        PROVE  n <= b \/ \E j \in 0 .. k + 1 : f[j] = b
    <3>1. o <= b \/ \E j \in 0 .. k : f[j] = b
      BY <2>2, <2>3, <2>9
    <3>2. CASE o < b
      BY <2>7, <2>9, <3>2
    <3>3. CASE o = b
      <4>1. k \in 0 .. k + 1 /\ f[k] = b
        BY <2>3, <3>3
      <4> QED BY <4>1
    <3>4. CASE \E j \in 0 .. k : f[j] = b
      BY <3>4
    <3> QED BY <3>1, <3>2, <3>3, <3>4
  <2> QED BY <1>1, <2>4, <2>5, <2>7, <2>8, <2>9
<1> HIDE DEF S
<1>5. Size \in S
  BY <1>3, <1>4, SetInduction, SizeAssumption
<1>6. Good(Size)
  BY <1>5, SizeAssumption DEF S
<1>7. PICK r : r = Reap(PutTail2, stop)
  OBVIOUS
<1>8. r.end = f[Size] /\ r.passed = {f[k] : k \in 0 .. Size}
  BY <1>1, <1>2, <1>7
<1>9. \A k \in 0 .. Size : from <= f[k]
  <2> SUFFICES ASSUME NEW k \in 0 .. Size PROVE from <= f[k]
    OBVIOUS
  <2>0. Nat \subseteq S
    BY <1>3, <1>4, SetInduction
  <2>1. k \in Nat
    BY SizeAssumption
  <2>2. k \in S
    BY <2>0, <2>1
  <2> QED BY <2>2 DEF S
<1>10. \A q \in r.passed : q \in Nat /\ PutTail2 <= q /\ q <= r.end
  BY <1>1, <1>2, <1>6, <1>8, <1>9
<1>11. \A b \in Nat : Boundary(b) /\ PutTail2 <= b /\ b <= stop =>
         r.end <= b \/ b \in r.passed
  BY <1>1, <1>6, <1>8
<1>12. r.end \in Nat /\ PutTail2 <= r.end /\ r.end <= stop /\ Boundary(r.end) /\ DoneBefore(r.end)
  BY <1>1, <1>6, <1>8
<1> QED BY <1>7, <1>10, <1>11, <1>12
-------------------------------------------------------------------------------
(* What the parts of the invariant need of a step. *)

LEMMA Order ==
  ASSUME IInv
  PROVE  /\ TypeOK /\ Layout /\ Headers
         /\ PutHead \in Nat /\ PutTail \in Nat /\ PutTail2 \in Nat
         /\ GotTail \in Nat /\ SeenHead \in Nat
         /\ PutTail2 <= GotTail /\ PutTail <= GotTail
         /\ GotTail <= SeenHead /\ SeenHead <= PutHead
         /\ PutHead < PutTail2 + Size /\ PutHead - PutTail2 < Size
         /\ Boundary(PutTail) /\ Boundary(PutTail2)
         /\ Boundary(GotTail) /\ Boundary(SeenHead) /\ Boundary(PutHead)
         /\ DoneBefore(PutTail2)
         /\ \A i \in DOMAIN items :
              items[i].off < GotTail <=> items[i].phase \in {"got", "done"}
<1>1. TypeOK /\ Layout /\ Headers /\ Views
  BY DEF IInv
<1>2. /\ PutHead \in Nat /\ PutTail \in Nat /\ PutTail2 \in Nat
      /\ GotTail \in Nat /\ SeenHead \in Nat
  BY <1>1, ViewTypes
<1>3. PutHead - PutTail2 < Size
  BY <1>1 DEF Views
<1>4. PutHead < PutTail2 + Size
  BY <1>2, <1>3, SizeAssumption
<1> QED BY <1>1, <1>2, <1>3, <1>4 DEF Views, Boundary, DoneBefore

(* What has been reaped has been taken. *)
LEMMA TakenBefore ==
  ASSUME IInv, NEW o \in Nat, Boundary(o), DoneBefore(o), o <= PutHead
  PROVE  o <= GotTail
<1>1. SUFFICES ASSUME GotTail < o PROVE FALSE
  BY Order
<1>2. PICK i \in DOMAIN items : items[i].off = GotTail
  BY <1>1, Order DEF Boundary
<1>3. items[i].phase = "done"
  BY <1>1, <1>2 DEF DoneBefore
<1> QED BY <1>2, <1>3, Order

(* Nothing but control variables other than head moves. *)
LEMMA ViewsStep ==
  ASSUME IInv, UNCHANGED <<producer, items, elm, PutHead, GotTail>>,
         PutTail' \in Nat, PutTail2' \in Nat,
         PutTail2 <= PutTail2', PutTail2' <= PutHead,
         Boundary(PutTail'), Boundary(PutTail2'), DoneBefore(PutTail2'),
         PutTail' <= GotTail, SeenHead' = SeenHead \/ SeenHead' = PutHead,
         put'.pc # "cas" \/ consumer = "shadow" => PutTail2' <= PutTail'
  PROVE  Layout' /\ Views' /\ Headers'
<1>0. consumer' = consumer
  BY DEF consumer
<1>1. PutTail2' <= GotTail
  BY TakenBefore
<1>2. Layout'
  <2>1. items = <<>> => PutTail2' = PutHead
    BY DEF Boundary
  <2> QED BY <2>1 DEF IInv, Layout, Boundary, End
<1>3. SeenHead' \in Nat /\ GotTail <= SeenHead' /\ SeenHead' <= PutHead /\ Boundary(SeenHead')
  BY Order
<1>4. PutHead - PutTail2' < Size
  BY Order, SizeAssumption
<1>5. Views'
  <2>1. /\ Boundary(PutTail)' /\ Boundary(PutTail2)'
        /\ Boundary(GotTail)' /\ Boundary(SeenHead)'
    BY <1>3, Order DEF Boundary
  <2>2. \A i \in DOMAIN items :
          /\ items[i].off < PutTail2' => items[i].phase = "done"
          /\ items[i].off < GotTail <=> items[i].phase \in {"got", "done"}
    BY Order DEF DoneBefore
  <2>3. put'.pc # "cas" \/ consumer' = "shadow" => PutTail2' <= PutTail'
    BY <1>0
  <2> QED BY <1>1, <1>3, <1>4, <2>1, <2>2, <2>3 DEF Views
<1>6. Headers'
  <2>1. \A i \in DOMAIN items : items[i].off >= PutTail2' => items[i].off >= PutTail2
    BY Order, ItemTypes
  <2> QED BY <2>1 DEF IInv, Headers
<1> QED BY <1>2, <1>5, <1>6

(* Only views of the other end's variables change. *)
LEMMA SeenStep ==
  ASSUME IInv, UNCHANGED <<producer, items, elm, PutHead, PutTail2, GotTail>>,
         PutTail' = PutTail \/ PutTail' = GotTail,
         SeenHead' = SeenHead \/ SeenHead' = PutHead,
         put'.pc = "cas" <=> put.pc = "cas"
  PROVE  Layout' /\ Views' /\ Headers'
<1>1. /\ PutTail' \in Nat /\ Boundary(PutTail') /\ PutTail' <= GotTail
      /\ PutTail <= PutTail'
  BY Order
<1>2. put'.pc # "cas" \/ consumer = "shadow" => PutTail2 <= PutTail'
  BY <1>1, Order DEF IInv, Views
<1> QED BY <1>1, <1>2, Order, ViewsStep

LEMMA PuttingFrame ==
  ASSUME IInv, UNCHANGED <<producer, put, rbtail, PutHead, PutTail2>>,
         \A b : Boundary(b) => Boundary(b)',
         PutTail' \in Nat, PutTail <= PutTail', producer = "shadow" => PutTail' = PutTail
  PROVE  Putting'
<1>1. rbtail \in Nat
  BY DEF IInv, TypeOK
<1>2. /\ put.pc \notin {"idle", "served", "failed"} => put.need \in Sizes
      /\ put.pc = "write" => (PutHead + put.need) - PutTail2 < Size
  BY DEF IInv, Putting
<1>3. put.pc \in {"reap_all", "cas"} =>
       /\ Boundary(rbtail) /\ rbtail <= PutTail /\ PutHead - rbtail < Size
       /\ producer = "shadow" => rbtail = PutTail
       /\ put.pc = "reap_all" => PutTail2 <= rbtail
       /\ put.pc = "cas" => rbtail <= PutTail2
  BY DEF IInv, Putting
<1>4. put.pc \in {"reap_all", "cas"} => Boundary(rbtail)' /\ rbtail <= PutTail'
  BY <1>1, <1>3, Order DEF Boundary
<1> QED BY <1>2, <1>3, <1>4 DEF Putting

LEMMA SameBoundaries ==
  ASSUME UNCHANGED <<items, PutHead>>
  PROVE  \A b : Boundary(b) => Boundary(b)'
BY DEF Boundary

LEMMA BatchesFrame ==
  ASSUME IInv, UNCHANGED <<producer, blocking, get, GotTail>>,
         consumer = "shadow" => PutTail' = PutTail,
         \A i \in DOMAIN items : items[i].phase = "got" /\ get.own = {items[i].off} =>
           i \in DOMAIN items' /\ items'[i].off = items[i].off /\ items'[i].phase = "got"
  PROVE  Batches'
<1>1. consumer' = consumer
  BY DEF consumer
<1>2. consumer = "shadow" /\ get.own # {} =>
        \E i \in DOMAIN items' : /\ get.own = {items'[i].off}
                                 /\ PutTail' >= items'[i].off
                                 /\ items'[i].phase = "got"
  BY DEF IInv, Batches
<1> QED BY <1>1, <1>2 DEF IInv, Batches

LEMMA UntouchedFrame ==
  ASSUME IInv, TypeOK',
         UNCHANGED <<producer, GotTail>>,
         at'["shadow"] \notin {"ready", "gone"} => at["shadow"] \notin {"ready", "gone"},
         PutTail' <= GotTail, PutTail2' <= GotTail,
         view'[consumer].tail2 = view[consumer].tail2,
         PutHead' = PutHead \/ put.pc # "idle",
         SeenHead' = SeenHead \/ SeenHead' = PutHead,
         put'.pc = "idle" \/ put.pc # "idle" \/ Usable(producer),
         get'.pc = "idle" \/ get.pc # "idle" \/ Usable(consumer)
  PROVE  Untouched'
<1> SUFFICES ASSUME at'["shadow"] \notin {"ready", "gone"}
             PROVE  /\ \A e \in Ends : view'[e].tail = 0 /\ view'[e].tail2 = 0
                    /\ producer = "shadow" =>
                         put'.pc = "idle" /\ PutHead' = 0 /\ SeenHead' = 0
                    /\ consumer = "shadow" => get'.pc = "idle"
  BY DEF Untouched, consumer
<1>1. /\ \A e \in Ends : view[e].tail = 0 /\ view[e].tail2 = 0
      /\ producer = "shadow" => put.pc = "idle" /\ PutHead = 0 /\ SeenHead = 0
      /\ consumer = "shadow" => get.pc = "idle"
      /\ ~Usable("shadow")
  BY DEF IInv, Untouched, Usable
<1>2. GotTail = 0 /\ view[consumer].tail2 = 0
  BY <1>1, Order, ViewTypes DEF GotTail, Theirs
<1>3. PutTail' \in Nat /\ PutTail2' \in Nat /\ consumer' = consumer
  <2>1. view' \in [Ends -> Controls] /\ producer \in Ends
    BY Order, ViewTypes DEF TypeOK
  <2>2. view'[producer].tail \in Nat /\ view'[producer].tail2 \in Nat
    BY <2>1 DEF Controls
  <2> QED BY <2>2 DEF PutTail, PutTail2, Mine, consumer
<1>4. PutTail' = 0 /\ PutTail2' = 0 /\ GotTail' = 0
  BY <1>2, <1>3
<1>5. \A e \in Ends : e = producer \/ e = consumer
  <2>1. producer = "master" \/ producer = "shadow"
    BY Order, ViewTypes DEF Ends
  <2> QED BY <2>1 DEF consumer, Other, Ends
<1>6. \A e \in Ends : view'[e].tail = 0 /\ view'[e].tail2 = 0
  BY <1>2, <1>3, <1>4, <1>5 DEF PutTail, PutTail2, GotTail, Mine, Theirs
<1>7. producer = "shadow" => put'.pc = "idle" /\ PutHead' = 0 /\ SeenHead' = 0
  BY <1>1
<1>8. consumer = "shadow" => get'.pc = "idle"
  BY <1>1
<1> QED BY <1>6, <1>7, <1>8

(* There is room for what fits. *)
LEMMA RoomLeft ==
  ASSUME NEW v \in Controls, v.tail2 <= v.head, v.head - v.tail2 < Size,
         NEW n \in Nat, n < Gap(v)
  PROVE  (v.head + n) - v.tail2 < Size
<1>1. v.head \in Nat /\ v.tail2 \in Nat
  BY DEF Controls
<1>2. Gap(v) = Size - (v.head - v.tail2)
  BY GapIsRoom
<1> QED BY <1>1, <1>2, SizeAssumption
-------------------------------------------------------------------------------
(* The invariant holds initially and through the steps of put. *)

LEMMA InitInvariant == Init => IInv
<1> SUFFICES ASSUME Init PROVE IInv
  OBVIOUS
<1>1. TypeOK
  BY TypeInit
<1>2. items = <<>> /\ DOMAIN items = {} /\ producer \in Ends
  BY DEF Init, ConnectionInit
<1>3. \A e \in Ends : view[e].head = 0 /\ view[e].tail = 0 /\ view[e].tail2 = 0
  BY DEF Init
<1>4. PutHead = 0 /\ PutTail = 0 /\ PutTail2 = 0 /\ GotTail = 0 /\ SeenHead = 0
  BY <1>1, <1>3, ViewTypes
     DEF PutHead, PutTail, PutTail2, GotTail, SeenHead, Mine, Theirs
<1>5. Layout
  BY <1>2, <1>4 DEF Layout
<1>6. Views
  BY <1>2, <1>4, SizeAssumption DEF Views, Boundary
<1>7. Headers
  BY <1>2 DEF Headers
<1>8. Putting /\ Batches
  BY <1>4 DEF Init, Putting, Batches
<1>9. Untouched
  BY <1>3, <1>4 DEF Untouched, Init
<1> QED BY <1>1, <1>5, <1>6, <1>7, <1>8, <1>9 DEF IInv

LEMMA ConnectsStep ==
  ASSUME IInv, TypeOK', Connects
  PROVE  IInv'
<1>1. /\ producer' = producer /\ blocking' = blocking
      /\ at'["shadow"] \notin {"ready", "gone"} => at["shadow"] \notin {"ready", "gone"}
      /\ UNCHANGED data
  BY ConnectsParts, Order
<1>2. /\ PutHead' = PutHead /\ PutTail' = PutTail /\ PutTail2' = PutTail2
      /\ GotTail' = GotTail /\ SeenHead' = SeenHead
  BY <1>1, SameView DEF data
<1>3. Layout' /\ Views' /\ Headers'
  BY <1>1, <1>2, SeenStep DEF data
<1>4. Putting'
  BY <1>1, <1>2, PuttingFrame, SameBoundaries, Order DEF data
<1>5. Batches'
  BY <1>1, <1>2, BatchesFrame DEF data
<1>6. Untouched'
  BY <1>1, <1>2, UntouchedFrame, Order DEF data
<1> QED BY <1>3, <1>4, <1>5, <1>6 DEF IInv

LEMMA CreateShadowEffect ==
  ASSUME IInv, CreateShadow
  PROVE  /\ UNCHANGED <<producer, blocking, elm, items, put, get, rbtail, gets>>
         /\ PutHead' = PutHead /\ PutTail' = PutTail /\ PutTail2' = PutTail2
         /\ GotTail' = GotTail
         /\ SeenHead' = SeenHead \/ SeenHead' = PutHead
<1>1. /\ producer' = producer /\ blocking' = blocking /\ at["shadow"] = "mapping"
      /\ view'["shadow"] = view["master"] /\ view'["master"] = view["master"]
      /\ UNCHANGED <<elm, items, put, get, rbtail, gets>>
  BY Order, CreateShadowParts
<1>2. /\ \A e \in Ends : view[e].tail = 0 /\ view[e].tail2 = 0
      /\ producer = "shadow" => PutHead = 0 /\ SeenHead = 0
  BY <1>1 DEF IInv, Untouched
<1>3. /\ view["master"].tail = 0 /\ view["master"].tail2 = 0
      /\ view["shadow"].tail = 0 /\ view["shadow"].tail2 = 0
  BY <1>2 DEF Ends
<1>4. consumer' = consumer
  BY <1>1 DEF consumer
<1>5. CASE producer = "master"
  <2>1. consumer = "shadow"
    BY <1>5 DEF consumer, Other
  <2> QED BY <1>1, <1>3, <1>4, <1>5, <2>1
          DEF PutHead, PutTail, PutTail2, GotTail, SeenHead, Mine, Theirs
<1>6. CASE producer = "shadow"
  <2>1. consumer = "master"
    BY <1>6 DEF consumer, Other
  <2> QED BY <1>1, <1>2, <1>3, <1>4, <1>6, <2>1
          DEF PutHead, PutTail, PutTail2, GotTail, SeenHead, Mine, Theirs
<1> QED BY <1>1, <1>5, <1>6, Order, ViewTypes DEF Ends

LEMMA CreateShadowStep ==
  ASSUME IInv, TypeOK', CreateShadow
  PROVE  IInv'
<1>1. /\ UNCHANGED <<producer, blocking, elm, items, put, get, rbtail, gets>>
      /\ PutHead' = PutHead /\ PutTail' = PutTail /\ PutTail2' = PutTail2
      /\ GotTail' = GotTail
      /\ SeenHead' = SeenHead \/ SeenHead' = PutHead
  BY CreateShadowEffect
<1>3. Layout' /\ Views' /\ Headers'
  BY <1>1, SeenStep
<1>4. Putting'
  BY <1>1, PuttingFrame, SameBoundaries, Order
<1>5. Batches'
  BY <1>1, BatchesFrame
<1>6. Untouched'
  BY Order, CreateShadowParts DEF Untouched
<1> QED BY <1>3, <1>4, <1>5, <1>6 DEF IInv

LEMMA PutWaitsStep ==
  ASSUME IInv, TypeOK', PutWaits
  PROVE  IInv'
<1>1. /\ put'.pc \in {"idle", "check", "write", "failed", "peek"}
      /\ put'.pc \notin {"idle", "failed"} => put'.need \in Sizes \/ put'.need = put.need
      /\ put'.pc = "write" => put' = [put EXCEPT !.pc = "write"] /\ PutFits
      /\ put.pc # "idle" \/ Usable(producer)
      /\ put.pc \in {"idle", "served", "failed"} => put'.need \in Sizes
      /\ UNCHANGED <<connection, view, elm, items, get, rbtail, gets>>
  BY PutWaitsParts, Order
<1>2. /\ PutHead' = PutHead /\ PutTail' = PutTail /\ PutTail2' = PutTail2
      /\ GotTail' = GotTail /\ SeenHead' = SeenHead /\ UNCHANGED <<producer, blocking>>
  BY <1>1, SameView DEF connection
<1>3. Layout' /\ Views' /\ Headers'
  <2>2. put.pc # "cas"
    BY DEF PutWaits, PutCall, PutNext, PutFits, PutPeek, PutFails, PutWake
  <2> QED BY <1>1, <1>2, <2>2, SeenStep
<1>4. Putting'
  <2>1. put.pc \notin {"idle", "served", "failed"} => put.need \in Sizes
    BY DEF IInv, Putting
  <2>2. put'.pc \notin {"idle", "served", "failed"} => put'.need \in Sizes
    BY <1>1, <2>1
  <2>3. ASSUME put'.pc = "write" PROVE (PutHead + put'.need) - PutTail2 < Size
    <3>1. put' = [put EXCEPT !.pc = "write"] /\ PutFits
      BY <1>1, <2>3
    <3>2. put \in [pc : PutPlaces, batch : Nat, own : SUBSET Nat, need : Nat]
      BY Order DEF TypeOK
    <3>3. put'.need = put.need /\ put.need \in Nat /\ put.need < Gap(Mine)
      BY <3>1, <3>2 DEF PutFits, Fits
    <3>4. PICK v \in Controls : v = Mine
      BY Order, ViewTypes DEF Mine
    <3>5. v.head = PutHead /\ v.tail2 = PutTail2
      BY <3>4 DEF PutHead, PutTail2
    <3>6. v.tail2 <= v.head /\ v.head - v.tail2 < Size
      BY <3>5, Order
    <3>7. (v.head + put.need) - v.tail2 < Size
      BY <3>3, <3>4, <3>6, RoomLeft
    <3> QED BY <3>3, <3>5, <3>7
  <2> QED BY <1>1, <1>2, <2>2, <2>3 DEF Putting
<1>5. Batches'
  BY <1>1, <1>2, BatchesFrame
<1>6. Untouched'
  <2>1. at' = at
    BY <1>1 DEF connection
  <2> QED BY <1>1, <1>2, <2>1, UntouchedFrame, Order
<1> QED BY <1>3, <1>4, <1>5, <1>6 DEF IInv

(* The first of the two reaps: up to tail. *)
LEMMA PutReapStep ==
  ASSUME IInv, TypeOK', PutReap
  PROVE  IInv'
<1>1. PICK t \in Nat : t = IF producer = "shadow" THEN GotTail ELSE PutTail
  BY Order
<1>2. PICK r : r = Reap(PutTail2, t)
  OBVIOUS
<1>3. /\ view'[consumer] = view[consumer]
      /\ PutHead' = PutHead /\ PutTail' = t /\ PutTail2' = r.end
      /\ GotTail' = GotTail /\ SeenHead' = SeenHead
      /\ put'.pc \in {"write", "again"} /\ put'.need = put.need
      /\ put'.pc = "write" =>
           put.need < Gap([head |-> PutHead, tail |-> t, tail2 |-> r.end])
  BY <1>1, <1>2, PutReapEffect, Order
<1>4. put.pc = "check" /\ UNCHANGED <<connection, elm, items, get, rbtail, gets>>
      /\ UNCHANGED <<producer, blocking>> /\ at' = at
  BY DEF PutReap, connection
<1>5. PutTail2 <= PutTail
  BY <1>4 DEF IInv, Views
<1>6. Boundary(t) /\ PutTail2 <= t /\ t <= PutHead /\ t <= GotTail
  BY <1>1, <1>5, Order
<1>7. /\ r.end \in Nat /\ PutTail2 <= r.end /\ r.end <= t
      /\ Boundary(r.end) /\ DoneBefore(r.end)
  BY <1>2, <1>6, Order, ReapInside
<1>8. Layout' /\ Views' /\ Headers'
  <2>1. r.end <= PutHead
    BY <1>6, <1>7, Order
  <2> QED BY <1>3, <1>4, <1>6, <1>7, <2>1, ViewsStep
<1>9. Putting'
  <2>0. put.need \in Sizes
    BY <1>4 DEF IInv, Putting
  <2>1. put.need \in Sizes /\ put.need \in Nat
    BY <2>0, SizesType
  <2>2. ASSUME put'.pc = "write" PROVE (PutHead + put.need) - r.end < Size
    <3>1. PICK v \in Controls : v = [head |-> PutHead, tail |-> t, tail2 |-> r.end]
      BY <1>7, Order DEF Controls
    <3>2. v.head = PutHead /\ v.tail2 = r.end
      BY <3>1
    <3>3. v.tail2 <= v.head /\ v.head - v.tail2 < Size
      BY <1>6, <1>7, <3>2, Order, SizeAssumption
    <3>4. (v.head + put.need) - v.tail2 < Size
      BY <1>3, <2>1, <2>2, <3>1, <3>3, RoomLeft
    <3> QED BY <3>2, <3>4
  <2>4. (put'.pc = "write") => (PutHead' + put'.need) - PutTail2' < Size
    BY <1>3, <2>2
  <2> QED BY <1>3, <2>1, <2>4 DEF Putting
<1>10. Batches'
  <2>1. consumer = "shadow" => PutTail' = PutTail
    <3>1. producer = "shadow" => consumer # "shadow"
      BY DEF consumer, Other
    <3> QED BY <1>1, <1>3, <3>1
  <2> QED BY <1>3, <1>4, <2>1, BatchesFrame
<1>11. Untouched'
  <2>1. PutTail' <= GotTail /\ PutTail2' <= GotTail
    BY <1>3, <1>6, <1>7, Order
  <2> QED BY <1>3, <1>4, <2>1, UntouchedFrame, Order
<1> QED BY <1>8, <1>9, <1>10, <1>11 DEF IInv

(* Where tail is when the second reap begins. *)
LEMMA PutNoteStep ==
  ASSUME IInv, TypeOK', PutNote
  PROVE  IInv'
<1>1. /\ put.pc = "again" /\ rbtail' = PutTail /\ put' = [put EXCEPT !.pc = "reap_all"]
      /\ UNCHANGED <<connection, view, elm, items, get, gets>>
      /\ UNCHANGED <<producer, blocking>> /\ at' = at
  BY DEF PutNote, PutGo, PutTail, connection
<1>2. /\ PutHead' = PutHead /\ PutTail' = PutTail /\ PutTail2' = PutTail2
      /\ GotTail' = GotTail /\ SeenHead' = SeenHead
  BY <1>1, SameView
<1>3. put \in [pc : PutPlaces, batch : Nat, own : SUBSET Nat, need : Nat]
  BY Order DEF TypeOK
<1>4. put'.pc = "reap_all" /\ put'.need = put.need
  BY <1>1, <1>3
<1>5. put.need \in Sizes /\ PutTail2 <= PutTail
  BY <1>1 DEF IInv, Putting, Views
<1>6. Layout' /\ Views' /\ Headers'
  BY <1>1, <1>2, <1>4, SeenStep
<1>7. Putting'
  <2>1. PutHead - PutTail < Size /\ PutTail <= PutTail
    BY <1>5, Order, SizeAssumption
  <2>2. Boundary(rbtail)'
    BY <1>1, <1>2, Order DEF Boundary
  <2> QED BY <1>1, <1>2, <1>4, <1>5, <2>1, <2>2 DEF Putting
<1>8. Batches'
  BY <1>1, <1>2, BatchesFrame
<1>9. Untouched'
  BY <1>1, <1>2, UntouchedFrame, Order
<1> QED BY <1>6, <1>7, <1>8, <1>9 DEF IInv

(* The second: up to head.  If it passes where tail was, tail follows.     *)
LEMMA PutReapAllStep ==
  ASSUME IInv, TypeOK', PutReapAll
  PROVE  IInv'
<1>1. PICK r : r = Reap(PutTail2, PutHead)
  OBVIOUS
<1>2. put.pc = "reap_all" /\ UNCHANGED <<connection, elm, items, get, rbtail, gets>>
      /\ UNCHANGED <<producer, blocking>> /\ at' = at
  BY DEF PutReapAll, connection
<1>3. /\ view'[consumer] = view[consumer]
      /\ PutHead' = PutHead /\ PutTail' = PutTail /\ PutTail2' = r.end
      /\ GotTail' = GotTail /\ SeenHead' = SeenHead
      /\ put'.pc \in {"cas", "write", "full"} /\ put'.need = put.need
      /\ put'.pc = "cas" <=> \E q \in r.passed : Ix(q) = Ix(rbtail) /\ Ix(q) # Ix(PutHead)
      /\ put'.pc = "write" =>
           put.need < Gap([head |-> PutHead, tail |-> PutTail, tail2 |-> r.end])
  BY <1>1, PutReapAllEffect, Order
<1>4. /\ Boundary(rbtail) /\ rbtail <= PutTail /\ PutHead - rbtail < Size
      /\ producer = "shadow" => rbtail = PutTail
      /\ PutTail2 <= rbtail /\ rbtail \in Nat /\ put.need \in Sizes
  BY <1>2, Order DEF IInv, Putting, TypeOK
<1>5. /\ r.end \in Nat /\ PutTail2 <= r.end /\ r.end <= PutHead
      /\ Boundary(r.end) /\ DoneBefore(r.end)
      /\ \A q \in r.passed : q \in Nat /\ PutTail2 <= q /\ q <= r.end
      /\ \A b \in Nat : Boundary(b) /\ PutTail2 <= b /\ b <= PutHead =>
           r.end <= b \/ b \in r.passed
  <2>1. PutTail2 <= PutHead
    BY Order
  <2> QED BY <1>1, <2>1, Order, ReapInside
<1>6. r.end <= GotTail
  BY <1>5, TakenBefore
<1>7. put'.pc = "cas" => rbtail <= r.end
  <2> SUFFICES ASSUME NEW q \in r.passed, Ix(q) = Ix(rbtail) PROVE rbtail <= r.end
    BY <1>3
  <2>1. q \in Nat /\ PutTail2 <= q /\ q <= r.end /\ q <= PutHead
    BY <1>5, Order
  <2>2. q < rbtail + Size /\ rbtail < q + Size
    BY <2>1, <1>4, Order, SizeAssumption
  <2>3. q = rbtail
    <3>1. CASE q <= rbtail
      BY <1>4, <2>1, <2>2, <3>1, IxInjective
    <3>2. CASE rbtail <= q
      BY <1>4, <2>1, <2>2, <3>2, IxInjective
    <3> QED BY <1>4, <2>1, <3>1, <3>2
  <2> QED BY <2>1, <2>3
<1>8. put'.pc # "cas" => r.end <= rbtail
  <2> SUFFICES ASSUME rbtail \in r.passed, ~(r.end <= rbtail), put'.pc # "cas" PROVE FALSE
    BY <1>4, <1>5, Order
  <2>1. Ix(rbtail) = Ix(PutHead)
    BY <1>3
  <2>2. PutHead < rbtail + Size /\ rbtail <= PutHead
    BY <1>4, Order, SizeAssumption
  <2>3. rbtail = PutHead
    BY <1>4, <2>1, <2>2, Order, IxInjective
  <2> QED BY <1>5, <2>3
<1>9. consumer = "shadow" => r.end <= PutTail
  <2> SUFFICES ASSUME consumer = "shadow", PutTail < r.end PROVE FALSE
    BY <1>5, Order
  <2>1. CASE get.own = {}
    <3>1. PutTail = GotTail
      BY <2>1 DEF IInv, Batches
    <3> QED BY <1>5, <1>6, <3>1, Order
  <2>2. CASE get.own # {}
    <3>1. PICK i \in DOMAIN items : PutTail >= items[i].off /\ items[i].phase = "got"
      BY <2>2 DEF IInv, Batches
    <3>2. items[i].off < r.end
      BY <1>5, <3>1, Order, ItemTypes
    <3> QED BY <1>5, <3>1, <3>2 DEF DoneBefore
  <2> QED BY <2>1, <2>2
<1>10. put'.pc # "cas" \/ consumer = "shadow" => r.end <= PutTail
  BY <1>4, <1>5, <1>8, <1>9, Order
<1>11. Layout' /\ Views' /\ Headers'
  BY <1>2, <1>3, <1>5, <1>10, Order, ViewsStep
<1>12. Putting'
  <2>1. put.need \in Nat
    BY <1>4, SizesType
  <2>2. ASSUME put'.pc = "write" PROVE (PutHead + put.need) - r.end < Size
    <3>1. PICK v \in Controls : v = [head |-> PutHead, tail |-> PutTail, tail2 |-> r.end]
      BY <1>5, Order DEF Controls
    <3>2. v.head = PutHead /\ v.tail2 = r.end
      BY <3>1
    <3>3. v.tail2 <= v.head /\ v.head - v.tail2 < Size
      BY <1>5, <3>2, Order, SizeAssumption
    <3>4. (v.head + put.need) - v.tail2 < Size
      BY <1>3, <2>1, <2>2, <3>1, <3>3, RoomLeft
    <3> QED BY <3>2, <3>4
  <2>4. (put'.pc = "write") => (PutHead' + put'.need) - PutTail2' < Size
    BY <1>3, <2>2
  <2>5. put'.pc = "cas" => rbtail' <= PutTail2'
    BY <1>2, <1>3, <1>7
  <2>6. /\ Boundary(rbtail)' /\ rbtail' <= PutTail' /\ PutHead' - rbtail' < Size
        /\ producer' = "shadow" => rbtail' = PutTail'
    BY <1>2, <1>3, <1>4 DEF Boundary
  <2> QED BY <1>3, <1>4, <2>4, <2>5, <2>6 DEF Putting
<1>13. Batches'
  BY <1>2, <1>3, BatchesFrame
<1>14. Untouched'
  BY <1>2, <1>3, <1>6, UntouchedFrame, Order
<1> QED BY <1>11, <1>12, <1>13, <1>14 DEF IInv

LEMMA PutCasStep ==
  ASSUME IInv, TypeOK', PutCas
  PROVE  IInv'
<1>1. put.pc = "cas" /\ UNCHANGED <<connection, elm, items, get, rbtail, gets>>
      /\ UNCHANGED <<producer, blocking>> /\ at' = at
  BY DEF PutCas, connection
<1>2. PICK t \in Nat : t = IF Ix(PutTail) = Ix(rbtail) THEN PutTail2 ELSE PutTail
  BY Order
<1>3. /\ view'[consumer] = view[consumer]
      /\ PutHead' = PutHead /\ PutTail' = t /\ PutTail2' = PutTail2
      /\ GotTail' = GotTail /\ SeenHead' = SeenHead
      /\ put'.pc \in {"write", "full"} /\ put'.need = put.need
      /\ put'.pc = "write" => put.need < Gap(Mine)
  BY <1>2, PutCasEffect, Order
<1>4. /\ Boundary(rbtail) /\ rbtail <= PutTail /\ PutHead - rbtail < Size
      /\ producer = "shadow" => rbtail = PutTail
      /\ rbtail <= PutTail2 /\ rbtail \in Nat /\ put.need \in Sizes
  BY <1>1, Order DEF IInv, Putting, TypeOK
<1>6. consumer = "shadow" => PutTail2 <= PutTail /\ t = PutTail
  <2> SUFFICES ASSUME consumer = "shadow" PROVE PutTail2 <= PutTail /\ t = PutTail
    OBVIOUS
  <2>1. PutTail2 <= PutTail
    BY DEF IInv, Views
  <2>2. ASSUME Ix(PutTail) = Ix(rbtail) PROVE PutTail2 = PutTail
    <3>1. PutTail < rbtail + Size
      BY <1>4, Order, SizeAssumption
    <3>2. PutTail = rbtail
      BY <1>4, <2>2, <3>1, Order, IxInjective
    <3> QED BY <1>4, <2>1, <3>2, Order
  <2> QED BY <1>2, <2>1, <2>2
<1>7. PutTail2 <= t /\ Boundary(t) /\ t <= GotTail
  <2>1. producer = "shadow" \/ consumer = "shadow"
    BY Order, ViewTypes DEF Ends
  <2> QED BY <1>2, <1>4, <1>6, <2>1, Order
<1>8. Layout' /\ Views' /\ Headers'
  BY <1>1, <1>3, <1>7, Order, ViewsStep
<1>9. Putting'
  <2>1. put.need \in Nat
    BY <1>4, SizesType
  <2>2. ASSUME put'.pc = "write" PROVE (PutHead + put.need) - PutTail2 < Size
    <3>1. PICK v \in Controls : v = Mine
      BY Order, ViewTypes DEF Mine
    <3>2. v.head = PutHead /\ v.tail2 = PutTail2
      BY <3>1 DEF PutHead, PutTail2
    <3>3. v.tail2 <= v.head /\ v.head - v.tail2 < Size
      BY <3>2, Order
    <3>4. (v.head + put.need) - v.tail2 < Size
      BY <1>3, <2>1, <2>2, <3>1, <3>3, RoomLeft
    <3> QED BY <3>2, <3>4
  <2> QED BY <1>3, <1>4, <2>2 DEF Putting
<1>10. Batches'
  <2>1. consumer = "shadow" => PutTail' = PutTail
    BY <1>3, <1>6
  <2> QED BY <1>1, <1>3, <2>1, BatchesFrame
<1>11. Untouched'
  <2>1. PutTail' <= GotTail /\ PutTail2' <= GotTail
    BY <1>3, <1>7, Order
  <2> QED BY <1>1, <1>3, <2>1, UntouchedFrame, Order
<1> QED BY <1>8, <1>9, <1>10, <1>11 DEF IInv

LEMMA PutPublishesStep ==
  ASSUME IInv, TypeOK', PutPublishes
  PROVE  IInv'
<1>1. /\ Publish(producer, "head") /\ put.pc \in {"full", "served", "failed"}
      /\ put'.pc \in {"idle", "check"}
      /\ \/ put'.pc = "idle" \/ put'.need \in Sizes
         \/ put'.need = put.need /\ put.pc = "full"
      /\ UNCHANGED <<connection, elm, items, get, rbtail, gets>>
      /\ UNCHANGED <<producer, blocking>> /\ at' = at
  BY PublishesParts, Order DEF connection
<1>2. /\ PutHead' = PutHead /\ PutTail' = PutTail /\ PutTail2' = PutTail2
      /\ GotTail' = GotTail
      /\ SeenHead' = IF producer = "shadow" THEN PutHead ELSE SeenHead
      /\ \A e \in Ends : view'[e].tail = view[e].tail /\ view'[e].tail2 = view[e].tail2
  BY <1>1, PublishedHead, Order
<1>3. SeenHead' = SeenHead \/ SeenHead' = PutHead
  BY <1>2
<1>5. Layout' /\ Views' /\ Headers'
  BY <1>1, <1>2, <1>3, SeenStep
<1>6. Putting'
  <2>1. put'.pc = "check" => put'.need \in Sizes
    BY <1>1 DEF IInv, Putting
  <2> QED BY <1>1, <2>1 DEF Putting
<1>7. Batches'
  BY <1>1, <1>2, BatchesFrame
<1>8. Untouched'
  <2>1. view'[consumer].tail2 = view[consumer].tail2
    BY <1>2, Order, ViewTypes
  <2> QED BY <1>1, <1>2, <1>3, <2>1, UntouchedFrame, Order
<1> QED BY <1>5, <1>6, <1>7, <1>8 DEF IInv

LEMMA BelowHead ==
  ASSUME IInv, NEW i \in DOMAIN items
  PROVE  /\ items[i].off \in Nat /\ items[i].size \in Nat /\ items[i].size >= 1
         /\ items[i].phase \in Phases
         /\ items[i].off < PutHead /\ End(i) \in Nat /\ items[i].off < End(i)
         /\ End(i) <= PutHead /\ i \in Nat
<1>1. /\ items[i].off \in Nat /\ items[i].size \in Nat /\ i \in Nat
      /\ items[i].phase \in Phases
  BY Order, ItemTypes
<1>2. items[i].size >= 1 /\ End(i) <= PutHead /\ PutHead \in Nat
  BY Order DEF Layout
<1> QED BY <1>1, <1>2 DEF End

(* Elements that are not reclaimed do not share the place of their header. *)
LEMMA PlacesDiffer ==
  ASSUME IInv, NEW i \in DOMAIN items, NEW j \in DOMAIN items, i # j,
         items[i].off >= PutTail2, items[j].off >= PutTail2
  PROVE  Ix(items[i].off) # Ix(items[j].off)
<1>1. ASSUME NEW k \in DOMAIN items, NEW l \in DOMAIN items, k < l,
             items[k].off >= PutTail2
      PROVE  Ix(items[k].off) # Ix(items[l].off)
  <2>1. End(k) <= items[l].off
    BY <1>1, Order DEF Layout
  <2>2. items[k].off < items[l].off /\ items[l].off < items[k].off + Size
    BY <1>1, <2>1, BelowHead, Order, SizeAssumption
  <2> QED BY <2>2, BelowHead, IxInjective
<1>2. i < j \/ j < i
  BY BelowHead
<1> QED BY <1>1, <1>2

LEMMA PutElementStep ==
  ASSUME IInv, TypeOK', PutElement
  PROVE  IInv'
<1>1. PICK new \in Element : new = [off |-> PutHead, size |-> put.need, phase |-> "reserved"]
  BY PutElementEffect, Order
<1>2. /\ put.need \in Nat /\ view'[consumer] = view[consumer]
      /\ PutHead' = PutHead + put.need
      /\ PutTail' = PutTail /\ PutTail2' = PutTail2
      /\ GotTail' = GotTail /\ SeenHead' = SeenHead
      /\ elm' = [elm EXCEPT ![Ix(PutHead)] = [size |-> put.need, status |-> "init"]]
      /\ items' = Append(items, new) /\ put'.pc = "served"
  BY <1>1, PutElementEffect, Order
<1>3. /\ put.pc = "write" /\ UNCHANGED <<connection, get, rbtail, gets>>
      /\ UNCHANGED <<producer, blocking>> /\ at' = at /\ consumer' = consumer
  BY DEF PutElement, connection, consumer
<1>4. put.need >= 1 /\ (PutHead + put.need) - PutTail2 < Size
  BY <1>3, SizesType DEF IInv, Putting
<1>5. /\ Len(items) \in Nat /\ DOMAIN items = 1 .. Len(items)
      /\ DOMAIN items' = 1 .. Len(items) + 1 /\ Len(items') = Len(items) + 1
      /\ \A j \in DOMAIN items : items'[j] = items[j]
      /\ items'[Len(items) + 1] = new
  BY <1>2, Order, ElementAdded
<1>6. PICK n \in Nat : n = Len(items) + 1
  BY <1>5
<1>7. /\ n \in DOMAIN items' /\ items'[n] = new
      /\ \A j \in DOMAIN items' : j = n \/ j \in DOMAIN items
      /\ \A j \in DOMAIN items : j \in DOMAIN items' /\ j < n /\ items'[j] = items[j]
  BY <1>5, <1>6
<1>8. new.off = PutHead /\ new.size = put.need /\ new.phase = "reserved"
  BY <1>1
<1>9. \A b : Boundary(b) => Boundary(b)'
  BY <1>7, <1>8 DEF Boundary
<1>10. \A j \in DOMAIN items : End(j)' = End(j) /\ End(j) <= PutHead
  BY <1>7, Order DEF End, Layout
<1>11. End(n)' = PutHead'
  BY <1>2, <1>7, <1>8 DEF End
<1>12. Layout'
  <2>1. ASSUME NEW i \in DOMAIN items', NEW j \in DOMAIN items', i < j
        PROVE  End(i)' <= items'[j].off
    <3>1. i # n
      <4>1. n \in Nat /\ \A k \in DOMAIN items' : k <= n
        BY <1>5, <1>6
      <4> QED BY <2>1, <4>1, <1>5
    <3>2. i \in DOMAIN items
      BY <1>7, <3>1
    <3>3. CASE j = n
      BY <1>7, <1>8, <1>10, <3>2, <3>3
    <3>4. CASE j \in DOMAIN items
      BY <1>7, <1>10, <2>1, <3>2, <3>4, Order DEF Layout
    <3> QED BY <1>7, <3>3, <3>4
  <2>2. ASSUME NEW i \in DOMAIN items'
        PROVE  items'[i].size >= 1 /\ End(i)' <= PutHead' /\ Boundary(End(i))'
    <3>1. CASE i = n
      <4>1. PutHead' \in Nat
        BY <1>2, Order
      <4> QED BY <1>4, <1>7, <1>8, <1>11, <3>1, <4>1 DEF Boundary
    <3>2. CASE i \in DOMAIN items
      <4>1. items[i].size >= 1 /\ End(i) <= PutHead /\ Boundary(End(i)) /\ End(i) \in Nat
        BY <3>2, Order, BelowHead DEF Layout
      <4>2. Boundary(End(i))'
        BY <1>9, <1>10, <3>2, <4>1 DEF Boundary
      <4> QED BY <1>2, <1>7, <1>10, <3>2, <4>1, <4>2, Order, SMTT(30)
    <3> QED BY <1>7, <3>1, <3>2
  <2>3. items' # <<>> /\ PutHead' = End(Len(items))'
    <3>1. items' # <<>>
      BY <1>7
    <3>2. Len(items') = n
      BY <1>5, <1>6
    <3> QED BY <1>11, <3>1, <3>2 DEF End
  <2> QED BY <2>1, <2>2, <2>3 DEF Layout
<1>13. Views'
  <2>1. ASSUME NEW i \in DOMAIN items'
        PROVE  /\ items'[i].off < PutTail2 => items'[i].phase = "done"
               /\ items'[i].off < GotTail <=> items'[i].phase \in {"got", "done"}
    <3>1. CASE i = n
      BY <1>7, <1>8, <3>1, Order
    <3>2. CASE i \in DOMAIN items
      BY <1>7, <3>2, Order DEF DoneBefore
    <3> QED BY <1>7, <3>1, <3>2
  <2>2. /\ Boundary(PutTail)' /\ Boundary(PutTail2)'
        /\ Boundary(GotTail)' /\ Boundary(SeenHead)'
    <3>1. \A b \in {PutTail, PutTail2, GotTail, SeenHead} : Boundary(b)'
      BY <1>9, Order
    <3> QED BY <1>2, <3>1 DEF Boundary
  <2>3. put'.pc # "cas" \/ consumer = "shadow" => PutTail2 <= PutTail
    BY <1>3 DEF IInv, Views
  <2>4. SeenHead <= PutHead + put.need
    BY <1>2, Order
  <2> QED BY <1>2, <1>3, <1>4, <2>1, <2>2, <2>3, <2>4, Order DEF Views
<1>14. Headers'
  <2> SUFFICES ASSUME NEW i \in DOMAIN items', items'[i].off >= PutTail2
               PROVE  elm'[Ix(items'[i].off)] =
                        [size |-> items'[i].size, status |-> StatusOf(items'[i].phase)]
    BY <1>2 DEF Headers, Ix
  <2>1. DOMAIN elm = Positions /\ Ix(PutHead) \in Positions
    BY Order, IxType DEF TypeOK
  <2>2. CASE i = n
    BY <1>2, <1>7, <1>8, <2>1, <2>2 DEF StatusOf
  <2>3. CASE i \in DOMAIN items
    <3>1. items'[i] = items[i] /\ items[i].off \in Nat /\ items[i].off < PutHead
      BY <1>7, <2>3, BelowHead
    <3>2. PutHead < items[i].off + Size
      BY <3>1, Order, SizeAssumption
    <3>3. Ix(items[i].off) # Ix(PutHead)
      BY <3>1, <3>2, IxInjective, Order
    <3>4. elm'[Ix(items[i].off)] = elm[Ix(items[i].off)]
      BY <1>2, <2>1, <3>1, <3>3, IxType
    <3> QED BY <2>3, <3>1, <3>4, Order DEF Headers
  <2> QED BY <1>7, <2>2, <2>3
<1>15. Putting'
  BY <1>2 DEF Putting
<1>16. Batches'
  BY <1>2, <1>3, <1>7, BatchesFrame
<1>17. Untouched'
  BY <1>2, <1>3, UntouchedFrame, Order
<1> QED BY <1>12, <1>13, <1>14, <1>15, <1>16, <1>17 DEF IInv
-------------------------------------------------------------------------------
(* The steps of get. *)

LEMMA NotBlocking ==
  ASSUME IInv, Orderly, ~blocking
  PROVE  Combined["shadow"] = 1
<1>1. blocking \in Blockings
  BY DEF IInv, TypeOK
<1>2. Blockings # {TRUE}
  BY <1>1, BlockingsAssumption, Zenon
<1> QED BY <1>2, Zenon DEF Orderly

LEMMA BatchesOfGet ==
  ASSUME IInv, UNCHANGED <<producer, blocking, items, GotTail>>,
         consumer = "shadow" => PutTail' = PutTail,
         get'.own = get.own,
         get'.pc = "idle" => get'.batch = 0,
         get'.batch = get.batch \/ get.batch = 0 \/ ~blocking,
         get'.batch = 0 => get.batch = 0,
         consumer = "shadow" /\ ~blocking => get'.batch = 0 \/ get'.pc \in {"served", "failed"},
         blocking => get'.batch = get.batch
  PROVE  Batches'
<1>1. consumer' = consumer
  BY DEF consumer
<1> QED BY <1>1 DEF IInv, Batches

LEMMA GetWaitsStep ==
  ASSUME IInv, TypeOK', GetWaits, Orderly
  PROVE  IInv'
<1>1. /\ get'.own = get.own
      /\ get.pc # "idle" \/ Usable(consumer)
      /\ UNCHANGED <<connection, view, elm, items, put, rbtail>>
  BY GetWaitsParts, Order
<1>2. /\ PutHead' = PutHead /\ PutTail' = PutTail /\ PutTail2' = PutTail2
      /\ GotTail' = GotTail /\ SeenHead' = SeenHead /\ UNCHANGED <<producer, blocking>>
  BY <1>1, SameView DEF connection
<1>3. Layout' /\ Views' /\ Headers'
  BY <1>1, <1>2, SeenStep
<1>4. Putting'
  BY <1>1, <1>2, PuttingFrame, SameBoundaries, Order
<1>5. Batches'
  <2>1. get \in [pc : GetPlaces, batch : Nat, own : SUBSET Nat]
    BY Order DEF TypeOK
  <2>2. /\ get.pc = "idle" => get.batch = 0
        /\ consumer = "shadow" /\ ~blocking =>
             get.batch = 0 \/ get.pc \in {"served", "failed"}
    BY DEF IInv, Batches
  <2>3. CASE GetCall
    <3>1. get'.pc = "check" /\ get'.batch = get.batch /\ get.batch = 0
      BY <2>1, <2>2, <2>3 DEF GetCall, GetGo
    <3> QED BY <1>1, <1>2, <3>1, BatchesOfGet
  <2>4. CASE GetPeek
    <3>1. get'.batch = get.batch /\ get.batch = 0
      BY <2>1, <2>4 DEF GetPeek, GetGo
    <3> QED BY <1>1, <1>2, <3>1, BatchesOfGet
  <2>5. CASE GetFails
    <3>1. ~blocking /\ get'.pc = "failed" /\ get'.batch = get.batch + 1 /\ get.batch \in Nat
      BY <2>1, <2>5 DEF GetFails
    <3>2. get'.batch # 0
      BY <3>1
    <3> QED BY <1>1, <1>2, <3>1, <3>2, BatchesOfGet
  <2>6. CASE GetWake
    <3>1. get.pc = "peek" /\ get'.pc = "check" /\ get'.batch = get.batch
      BY <2>1, <2>6 DEF GetWake, GetGo
    <3> QED BY <1>1, <1>2, <2>2, <3>1, BatchesOfGet
  <2>7. CASE GetNext
    <3>1. /\ get'.pc = "check" /\ get'.batch = get.batch /\ get.batch \in Nat
          /\ get.batch < Combined[consumer]
      BY <2>1, <2>7 DEF GetNext, GetGo
    <3>2. consumer = "shadow" /\ ~blocking => get.batch = 0
      BY <3>1, NotBlocking
    <3> QED BY <1>1, <1>2, <3>1, <3>2, BatchesOfGet
  <2> QED BY <2>3, <2>4, <2>5, <2>6, <2>7 DEF GetWaits
<1>6. Untouched'
  <2>1. at' = at
    BY <1>1 DEF connection
  <2> QED BY <1>1, <1>2, <2>1, UntouchedFrame, Order
<1> QED BY <1>3, <1>4, <1>5, <1>6 DEF IInv

LEMMA GetNothingStep ==
  ASSUME IInv, TypeOK', GetNothing
  PROVE  IInv'
<1>1. /\ PutHead' = PutHead /\ PutTail' = PutTail /\ PutTail2' = PutTail2
      /\ GotTail' = GotTail /\ SeenHead' = Fresh.head
      /\ view'[consumer].tail2 = view[consumer].tail2
  BY GetNothingEffect, Order
<1>2. Fresh.head = SeenHead \/ Fresh.head = PutHead
  BY FreshControls, Order
<1>3. get.pc = "check" /\ UNCHANGED <<connection, elm, items, put, rbtail, gets>>
      /\ UNCHANGED <<producer, blocking>> /\ at' = at
  BY DEF GetNothing, connection
<1>4. SeenHead' = SeenHead \/ SeenHead' = PutHead
  BY <1>1, <1>2
<1>5. Layout' /\ Views' /\ Headers'
  BY <1>1, <1>3, <1>4, SeenStep
<1>6. Putting'
  BY <1>1, <1>3, PuttingFrame, SameBoundaries, Order
<1>7. Batches'
  <2>1. get \in [pc : GetPlaces, batch : Nat, own : SUBSET Nat]
    BY Order DEF TypeOK
  <2>2. /\ get'.pc \in {"empty", "unready"} /\ get'.batch = get.batch
        /\ get'.own = get.own
    BY <2>1 DEF GetNothing, GetGo
  <2>3. consumer = "shadow" /\ ~blocking => get.batch = 0
    BY <1>3 DEF IInv, Batches
  <2> QED BY <1>1, <1>3, <2>2, <2>3, BatchesOfGet
<1>8. Untouched'
  BY <1>1, <1>3, <1>4, UntouchedFrame, Order
<1> QED BY <1>5, <1>6, <1>7, <1>8 DEF IInv

LEMMA GetPublishesStep ==
  ASSUME IInv, TypeOK', GetPublishes, Orderly
  PROVE  IInv'
<1>1. /\ Publish(consumer, "tail") /\ get.pc # "idle"
      /\ \/ get'.batch = 0 /\ get'.own = {}
         \/ /\ get'.pc = "check" /\ get'.batch = get.batch /\ get'.own = get.own
            /\ get.batch < Combined[consumer]
      /\ UNCHANGED <<connection, elm, items, put, rbtail>>
      /\ UNCHANGED <<producer, blocking>> /\ at' = at /\ consumer' = consumer
  BY PublishesParts, Order DEF connection, consumer
<1>2. /\ PutHead' = PutHead /\ PutTail2' = PutTail2
      /\ PutTail' = IF consumer = "shadow" THEN GotTail ELSE PutTail
      /\ GotTail' = GotTail /\ SeenHead' = SeenHead
      /\ view'[consumer] = view[consumer]
  BY <1>1, PublishedTail, Order
<1>3. Layout' /\ Views' /\ Headers'
  BY <1>1, <1>2, SeenStep
<1>4. Putting'
  <2>1. producer = "shadow" => consumer # "shadow"
    BY DEF consumer, Other
  <2>2. /\ PutTail' \in Nat /\ PutTail <= PutTail'
        /\ producer = "shadow" => PutTail' = PutTail
    BY <1>2, <2>1, Order
  <2> QED BY <1>1, <1>2, <2>2, PuttingFrame, SameBoundaries
<1>5. Batches'
  <2>1. CASE get'.batch = 0 /\ get'.own = {}
    BY <1>1, <1>2, <2>1 DEF Batches
  <2>2. CASE /\ get'.pc = "check" /\ get'.batch = get.batch /\ get'.own = get.own
             /\ get.batch < Combined[consumer]
    <3>1. get.batch \in Nat
      BY Order DEF TypeOK
    <3>2. consumer = "shadow" /\ ~blocking => get.batch = 0
      BY <2>2, <3>1, NotBlocking
    <3>3. /\ get.batch = 0 => get.own = {}
          /\ consumer = "shadow" =>
               /\ get.own # {} => \E i \in DOMAIN items : /\ get.own = {items[i].off}
                                                          /\ items[i].phase = "got"
               /\ blocking => get.batch = 0 \/ get.own # {}
      BY DEF IInv, Batches
    <3>4. ASSUME consumer = "shadow", NEW i \in DOMAIN items, items[i].phase = "got"
          PROVE  PutTail' >= items[i].off
      <4>1. items[i].off < GotTail /\ items[i].off \in Nat
        BY <3>4, Order, ItemTypes
      <4> QED BY <1>2, <3>4, <4>1, Order
    <3>5. consumer = "shadow" /\ get.own # {} =>
            \E i \in DOMAIN items : /\ get.own = {items[i].off}
                                    /\ PutTail' >= items[i].off
                                    /\ items[i].phase = "got"
      BY <3>3, <3>4
    <3>6. consumer = "shadow" => PutTail' = GotTail'
      BY <1>2
    <3> QED BY <1>1, <2>2, <3>2, <3>3, <3>5, <3>6 DEF Batches
  <2> QED BY <1>1, <2>1, <2>2
<1>6. Untouched'
  <2>1. PutTail' <= GotTail
    BY <1>2, Order
  <2> QED BY <1>1, <1>2, <2>1, UntouchedFrame, Order
<1> QED BY <1>3, <1>4, <1>5, <1>6 DEF IInv

(* What a get takes is the oldest element that has not been taken.         *)
LEMMA GetReadyTakes ==
  ASSUME IInv, GetReady
  PROVE  \E k \in DOMAIN items :
           /\ items[k].off = GotTail /\ items[k].phase = "ready"
           /\ GotTail' = End(k) /\ End(k) <= Fresh.head
           /\ GotTail < PutHead
           /\ \A i \in DOMAIN items : items[i].off = GotTail => items[i].phase = "ready"
<1>1. /\ elm[Ix(GotTail)].status = "ready" /\ Ix(Fresh.head) # Ix(GotTail)
      /\ GotTail' = GotTail + elm[Ix(GotTail)].size
  BY GetReadyEffect, Order
<1>2. PICK h : h = Fresh.head
  OBVIOUS
<1>3. h \in Nat /\ Boundary(h) /\ GotTail <= h /\ h <= PutHead
  BY <1>2, FreshControls, Order
<1>4. GotTail # h
  BY <1>1, <1>2
<1>5. GotTail < h /\ GotTail < PutHead
  BY <1>3, <1>4, Order
<1>6. PICK k \in DOMAIN items : items[k].off = GotTail
  BY <1>5, Order DEF Boundary
<1>7. \A i \in DOMAIN items : items[i].off = GotTail =>
        /\ items[i].phase = "ready" /\ elm[Ix(GotTail)].size = items[i].size
  <2> TAKE i \in DOMAIN items
  <2> HAVE items[i].off = GotTail
  <2>1. elm[Ix(GotTail)] = [size |-> items[i].size, status |-> StatusOf(items[i].phase)]
    BY Order DEF Headers
  <2>2. StatusOf(items[i].phase) = "ready" /\ elm[Ix(GotTail)].size = items[i].size
    BY <1>1, <2>1
  <2>3. items[i].phase \notin {"got", "done"} /\ items[i].phase \in Phases
    BY Order, BelowHead
  <2>4. items[i].phase = "ready"
    BY <2>2, <2>3 DEF StatusOf, Phases
  <2> QED BY <2>2, <2>4
<1>8. GotTail' = End(k)
  BY <1>1, <1>6, <1>7 DEF End
<1>9. End(k) <= h
  BY <1>3, <1>5, <1>6, EndsBefore, Order
<1> QED BY <1>2, <1>5, <1>6, <1>7, <1>8, <1>9

LEMMA GetReadyStep ==
  ASSUME IInv, TypeOK', GetReady
  PROVE  IInv'
<1>1. /\ PutHead' = PutHead /\ PutTail' = PutTail /\ PutTail2' = PutTail2
      /\ SeenHead' = Fresh.head
      /\ get'.pc = "served" /\ get'.batch = get.batch + 1
      /\ get'.own = IF get.batch = 0 THEN {GotTail} ELSE get.own
  BY GetReadyEffect, Order
<1>2. get.pc = "check" /\ items' = Taken /\ UNCHANGED <<connection, elm, put, rbtail, gets>>
      /\ UNCHANGED <<producer, blocking>> /\ at' = at /\ consumer' = consumer
  BY DEF GetReady, connection, consumer
<1>3. PICK k \in DOMAIN items :
        /\ items[k].off = GotTail /\ items[k].phase = "ready"
        /\ GotTail' = End(k) /\ End(k) <= Fresh.head
        /\ GotTail < PutHead
        /\ \A i \in DOMAIN items : items[i].off = GotTail => items[i].phase = "ready"
  BY GetReadyTakes
<1>4. /\ DOMAIN items' = DOMAIN items /\ Len(items') = Len(items)
      /\ items' \in Seq(Element)
      /\ \A i \in DOMAIN items :
           /\ items'[i].off = items[i].off /\ items'[i].size = items[i].size
           /\ items'[i].phase = IF items[i].off = GotTail THEN "got" ELSE items[i].phase
  BY <1>2, Order, TakenItems
<1>5. \A b : Boundary(b) => Boundary(b)'
  BY <1>1, <1>4 DEF Boundary
<1>6. \A i \in DOMAIN items : End(i)' = End(i)
  BY <1>4 DEF End
<1>7. PICK h \in Nat : h = Fresh.head /\ Boundary(h) /\ h <= PutHead
  BY FreshControls, Order
<1>8. Layout'
  <2>1. \A i, j \in DOMAIN items' : i < j => End(i)' <= items'[j].off
    BY <1>4, <1>6, Order DEF Layout
  <2>2. \A i \in DOMAIN items' :
          items'[i].size >= 1 /\ End(i)' <= PutHead' /\ Boundary(End(i))'
    <3> TAKE i \in DOMAIN items'
    <3>1. items[i].size >= 1 /\ End(i) <= PutHead /\ Boundary(End(i))
      BY <1>4, Order DEF Layout
    <3>2. Boundary(End(i))'
      BY <1>4, <1>5, <1>6, <3>1 DEF Boundary
    <3> QED BY <1>1, <1>4, <1>6, <3>1, <3>2
  <2>3. items # <<>>
    OBVIOUS
  <2>4. items' # <<>>
    BY <1>4
  <2>5. PutHead' = End(Len(items))'
    <3>1. PutHead = End(Len(items)) /\ Len(items) \in DOMAIN items
      BY <2>3, Order, ItemTypes DEF Layout
    <3> QED BY <1>1, <1>4, <3>1 DEF End
  <2> QED BY <2>1, <2>2, <2>4, <2>5 DEF Layout
<1>9. \A i \in DOMAIN items :
        items[i].off < End(k) <=> items[i].off < GotTail \/ items[i].off = GotTail
  <2> TAKE i \in DOMAIN items
  <2>1. /\ items[i].off \in Nat /\ End(k) \in Nat /\ GotTail \in Nat /\ GotTail < End(k)
        /\ items[i].off < PutHead
    BY <1>3, BelowHead, Order
  <2>2. GotTail < items[i].off => End(k) <= items[i].off
    BY <1>3, <2>1, EndsBefore, Order DEF Boundary
  <2> QED BY <2>1, <2>2
<1>10. Views'
  <2>1. ASSUME NEW i \in DOMAIN items'
        PROVE  /\ items'[i].off < PutTail2' => items'[i].phase = "done"
               /\ items'[i].off < GotTail' <=> items'[i].phase \in {"got", "done"}
    <3>1. /\ items[i].off < PutTail2 => items[i].phase = "done"
          /\ items[i].off < GotTail <=> items[i].phase \in {"got", "done"}
          /\ items[i].off \in Nat /\ i \in DOMAIN items
      BY <1>4, BelowHead, Order DEF DoneBefore
    <3>2. items[i].off < PutTail2 => items[i].off # GotTail
      BY <3>1, Order
    <3>3. items[i].off < PutTail2 => items'[i].phase = "done"
      BY <1>4, <3>1, <3>2
    <3>4. items'[i].off < GotTail' <=> items'[i].phase \in {"got", "done"}
      BY <1>3, <1>4, <1>9, <3>1
    <3> QED BY <1>1, <1>4, <3>3, <3>4
  <2>2. /\ Boundary(PutTail)' /\ Boundary(PutTail2)'
        /\ Boundary(GotTail)' /\ Boundary(SeenHead)'
    <3>1. \A b \in {PutTail, PutTail2, End(k), h} : Boundary(b)'
      <4>1. Boundary(End(k))
        BY Order DEF Layout
      <4> QED BY <1>5, <1>7, <4>1, Order
    <3> QED BY <1>1, <1>3, <1>7, <3>1 DEF Boundary
  <2>3. put.pc # "cas" \/ consumer = "shadow" => PutTail2 <= PutTail
    BY DEF IInv, Views
  <2>4. /\ GotTail' \in Nat /\ GotTail <= GotTail' /\ GotTail' <= SeenHead'
        /\ PutTail2 <= GotTail' /\ PutTail <= GotTail' /\ SeenHead' <= PutHead
    BY <1>1, <1>3, <1>7, BelowHead, Order
  <2> QED BY <1>1, <1>2, <2>1, <2>2, <2>3, <2>4, Order DEF Views
<1>11. Headers'
  <2> SUFFICES ASSUME NEW i \in DOMAIN items', items'[i].off >= PutTail2'
               PROVE  elm'[Ix(items'[i].off)] =
                        [size |-> items'[i].size, status |-> StatusOf(items'[i].phase)]
    BY DEF Headers, Ix
  <2>1. elm[Ix(items[i].off)] =
          [size |-> items[i].size, status |-> StatusOf(items[i].phase)]
    BY <1>1, <1>4, Order DEF Headers
  <2>2. StatusOf(items'[i].phase) = StatusOf(items[i].phase)
    <3>1. CASE items[i].off = GotTail
      <4>1. items[i].phase = "ready" /\ items'[i].phase = "got"
        BY <1>3, <1>4, <3>1
      <4> QED BY <4>1 DEF StatusOf
    <3>2. CASE items[i].off # GotTail
      BY <1>4, <3>2
    <3> QED BY <3>1, <3>2
  <2> QED BY <1>2, <1>4, <2>1, <2>2
<1>12. Putting'
  BY <1>1, <1>2, <1>5, PuttingFrame, Order
<1>13. get \in [pc : GetPlaces, batch : Nat, own : SUBSET Nat]
  BY Order DEF TypeOK
<1>14. Batches'
  <2>1. get'.batch # 0 /\ get'.pc = "served"
    BY <1>1, <1>13
  <2>2. get'.batch = 0 => get'.own = {}
    BY <2>1
  <2> SUFFICES ASSUME consumer = "shadow"
               PROVE  /\ get'.own # {}
                      /\ \E i \in DOMAIN items' : /\ get'.own = {items'[i].off}
                                                  /\ PutTail' >= items'[i].off
                                                  /\ items'[i].phase = "got"
    BY <1>2, <2>1 DEF Batches
  <2>3. CASE get.batch = 0
    <3>1. PutTail = GotTail
      BY <2>3 DEF IInv, Batches
    <3>2. get'.own = {items'[k].off} /\ PutTail' >= items'[k].off /\ items'[k].phase = "got"
      BY <1>1, <1>3, <1>4, <2>3, <3>1, Order
    <3> QED BY <1>4, <3>2
  <2>4. CASE get.batch # 0
    <3>1. get.own # {} /\ get'.own = get.own
      BY <1>1, <1>2, <2>4 DEF IInv, Batches
    <3>2. PICK i \in DOMAIN items : /\ get.own = {items[i].off}
                                    /\ PutTail >= items[i].off
                                    /\ items[i].phase = "got"
      BY <3>1 DEF IInv, Batches
    <3>3. items'[i].phase = "got" /\ items'[i].off = items[i].off
      BY <1>4, <3>2
    <3> QED BY <1>1, <1>4, <3>1, <3>2, <3>3
  <2> QED BY <2>3, <2>4
<1>15. Untouched'
  <2>1. at["shadow"] \in {"ready", "gone"}
    <3> SUFFICES ASSUME at["shadow"] \notin {"ready", "gone"} PROVE FALSE
      OBVIOUS
    <3>1. producer = "shadow" => PutHead = 0
      BY DEF IInv, Untouched
    <3>2. consumer = "shadow" => get.pc = "idle"
      BY DEF IInv, Untouched
    <3>3. PutHead # 0
      BY <1>3, Order
    <3>4. producer = "shadow" \/ consumer = "shadow"
      BY Order, ViewTypes DEF Ends
    <3> QED BY <1>2, <3>1, <3>2, <3>3, <3>4
  <2> QED BY <1>2, <2>1 DEF Untouched
<1> QED BY <1>8, <1>10, <1>11, <1>12, <1>14, <1>15 DEF IInv

(* The users finish with an element.                                       *)
LEMMA MarksStep ==
  ASSUME IInv, TypeOK', NEW i \in DOMAIN items, Marks(i)
  PROVE  IInv'
<1>1. PICK p \in {"ready", "done"} :
        /\ p \in Phases
        /\ p = "ready" => items[i].phase = "reserved"
        /\ p = "done" => items[i].phase = "got" /\ items[i].off \notin get.own
        /\ elm' = [elm EXCEPT ![Ix(items[i].off)].status = p]
        /\ items' = [items EXCEPT ![i].phase = p]
        /\ UNCHANGED <<connection, view, put, get, rbtail, gets>>
  BY MarksParts, Order
<1>2. /\ PutHead' = PutHead /\ PutTail' = PutTail /\ PutTail2' = PutTail2
      /\ GotTail' = GotTail /\ SeenHead' = SeenHead
      /\ UNCHANGED <<producer, blocking>> /\ at' = at /\ consumer' = consumer
  BY <1>1, SameView DEF connection
<1>3. /\ DOMAIN items' = DOMAIN items /\ Len(items') = Len(items)
      /\ \A j \in DOMAIN items :
           /\ items'[j].off = items[j].off /\ items'[j].size = items[j].size
           /\ items'[j].phase = IF j = i THEN p ELSE items[j].phase
  BY <1>1, Order, OnePhaseChanges
<1>4. \A b : Boundary(b) => Boundary(b)'
  BY <1>2, <1>3 DEF Boundary
<1>5. \A j \in DOMAIN items : End(j)' = End(j)
  BY <1>3 DEF End
<1>6. Layout'
  <2>1. \A k, l \in DOMAIN items' : k < l => End(k)' <= items'[l].off
    BY <1>3, <1>5, Order DEF Layout
  <2>2. \A k \in DOMAIN items' :
          items'[k].size >= 1 /\ End(k)' <= PutHead' /\ Boundary(End(k))'
    <3> TAKE k \in DOMAIN items'
    <3>1. items[k].size >= 1 /\ End(k) <= PutHead /\ Boundary(End(k))
      BY <1>3, Order DEF Layout
    <3>2. Boundary(End(k))'
      BY <1>3, <1>4, <1>5, <3>1 DEF Boundary
    <3> QED BY <1>2, <1>3, <1>5, <3>1, <3>2
  <2>3. items # <<>> /\ items' # <<>>
    BY <1>3
  <2>4. PutHead' = End(Len(items))'
    <3>1. PutHead = End(Len(items)) /\ Len(items) \in DOMAIN items
      BY <2>3, Order, ItemTypes DEF Layout
    <3> QED BY <1>2, <1>3, <3>1 DEF End
  <2> QED BY <2>1, <2>2, <2>3, <2>4 DEF Layout
<1>7. items[i].phase \in {"reserved", "got"} /\ ~(items[i].off < PutTail2)
  BY <1>1, Order DEF DoneBefore
<1>8. Views'
  <2>1. ASSUME NEW j \in DOMAIN items'
        PROVE  /\ items'[j].off < PutTail2 => items'[j].phase = "done"
               /\ items'[j].off < GotTail <=> items'[j].phase \in {"got", "done"}
    <3>1. /\ items[j].off < PutTail2 => items[j].phase = "done"
          /\ items[j].off < GotTail <=> items[j].phase \in {"got", "done"}
          /\ j \in DOMAIN items
      BY <1>3, Order DEF DoneBefore
    <3>2. CASE j = i
      BY <1>1, <1>3, <1>7, <3>1, <3>2
    <3>3. CASE j # i
      BY <1>3, <3>1, <3>3
    <3> QED BY <3>2, <3>3
  <2>2. /\ Boundary(PutTail)' /\ Boundary(PutTail2)'
        /\ Boundary(GotTail)' /\ Boundary(SeenHead)'
    <3>1. \A b \in {PutTail, PutTail2, GotTail, SeenHead} : Boundary(b)'
      BY <1>4, Order
    <3> QED BY <1>2, <3>1 DEF Boundary
  <2>3. put.pc # "cas" \/ consumer = "shadow" => PutTail2 <= PutTail
    BY DEF IInv, Views
  <2> QED BY <1>1, <1>2, <2>1, <2>2, <2>3, Order DEF Views
<1>9. Headers'
  <2> SUFFICES ASSUME NEW j \in DOMAIN items', items'[j].off >= PutTail2'
               PROVE  elm'[Ix(items'[j].off)] =
                        [size |-> items'[j].size, status |-> StatusOf(items'[j].phase)]
    BY DEF Headers, Ix
  <2>1. /\ elm[Ix(items[j].off)] =
             [size |-> items[j].size, status |-> StatusOf(items[j].phase)]
        /\ j \in DOMAIN items /\ items[j].off >= PutTail2
    BY <1>2, <1>3, Order DEF Headers
  <2>2. /\ DOMAIN elm = Positions /\ Ix(items[j].off) \in Positions
        /\ Ix(items[i].off) \in Positions
    BY <2>1, BelowHead, Order, IxType DEF TypeOK
  <2>3. CASE j = i
    <3>1. elm'[Ix(items[j].off)] = [elm[Ix(items[j].off)] EXCEPT !.status = p]
      BY <1>1, <2>2, <2>3
    <3>2. elm'[Ix(items[j].off)] = [size |-> items[j].size, status |-> p]
      BY <2>1, <3>1
    <3>3. StatusOf(p) = p
      BY DEF StatusOf
    <3> QED BY <1>3, <2>1, <2>3, <3>2, <3>3
  <2>4. CASE j # i
    <3>1. items[i].off >= PutTail2
      BY <1>7, BelowHead, Order
    <3>2. Ix(items[j].off) # Ix(items[i].off)
      BY <2>1, <2>4, <3>1, PlacesDiffer
    <3>3. elm'[Ix(items[j].off)] = elm[Ix(items[j].off)]
      BY <1>1, <2>2, <3>2
    <3> QED BY <1>3, <2>1, <2>4, <3>3
  <2> QED BY <2>3, <2>4
<1>10. Putting'
  BY <1>1, <1>2, <1>4, PuttingFrame, Order
<1>11. Batches'
  <2>1. ASSUME NEW j \in DOMAIN items, items[j].phase = "got", get.own = {items[j].off}
        PROVE  j \in DOMAIN items' /\ items'[j].off = items[j].off /\ items'[j].phase = "got"
    <3>1. j # i
      BY <1>1, <2>1
    <3> QED BY <1>3, <2>1, <3>1
  <2> QED BY <1>1, <1>2, <2>1, BatchesFrame
<1>12. Untouched'
  BY <1>1, <1>2, UntouchedFrame, Order
<1> QED BY <1>6, <1>8, <1>9, <1>10, <1>11, <1>12 DEF IInv

LEMMA StutterStep ==
  ASSUME IInv, TypeOK', UNCHANGED vars
  PROVE  IInv'
<1>1. /\ UNCHANGED <<connection, view, elm, items, put, get, rbtail, gets>>
      /\ UNCHANGED <<producer, blocking>> /\ at' = at
  BY DEF vars, connection
<1>2. /\ PutHead' = PutHead /\ PutTail' = PutTail /\ PutTail2' = PutTail2
      /\ GotTail' = GotTail /\ SeenHead' = SeenHead
  BY <1>1, SameView
<1>3. Layout' /\ Views' /\ Headers'
  BY <1>1, <1>2, SeenStep
<1>4. Putting' /\ Batches'
  BY <1>1, <1>2, PuttingFrame, BatchesFrame, SameBoundaries, Order
<1>5. Untouched'
  BY <1>1, <1>2, UntouchedFrame, Order
<1> QED BY <1>3, <1>4, <1>5 DEF IInv

LEMMA StepInvariant ==
  ASSUME Orderly, IInv, [Next]_vars
  PROVE  IInv'
<1>1. TypeOK'
  BY TypeStep, Order
<1>2. CASE Connects          BY <1>1, <1>2, ConnectsStep
<1>3. CASE CreateShadow      BY <1>1, <1>3, CreateShadowStep
<1>4. CASE PutWaits          BY <1>1, <1>4, PutWaitsStep
<1>5. CASE PutReap           BY <1>1, <1>5, PutReapStep
<1>6. CASE PutReapAll        BY <1>1, <1>6, PutReapAllStep
<1>7. CASE PutCas            BY <1>1, <1>7, PutCasStep
<1>8. CASE PutElement        BY <1>1, <1>8, PutElementStep
<1>9. CASE PutPublishes      BY <1>1, <1>9, PutPublishesStep
<1>10. CASE GetWaits         BY <1>1, <1>10, GetWaitsStep
<1>11. CASE GetReady         BY <1>1, <1>11, GetReadyStep
<1>12. CASE GetNothing       BY <1>1, <1>12, GetNothingStep
<1>13. CASE GetPublishes     BY <1>1, <1>13, GetPublishesStep
<1>14. ASSUME NEW i \in DOMAIN items, Marks(i) PROVE IInv'
  BY <1>1, <1>14, MarksStep
<1>15. CASE UNCHANGED vars   BY <1>1, <1>15, StutterStep
<1>16. CASE PutNote          BY <1>1, <1>16, PutNoteStep
<1> QED BY <1>2, <1>3, <1>4, <1>5, <1>6, <1>7, <1>8, <1>9, <1>10, <1>11,
           <1>12, <1>13, <1>14, <1>15, <1>16, NextCases

(* The invariant of the two ends, through every failure of the connection, *)
(* when requests wait or the shadow publishes each one.                    *)
THEOREM Invariant == Orderly => (Spec => []IInv)
<1>1. Init => IInv
  BY InitInvariant
<1>2. Orderly /\ IInv /\ [Next]_vars => IInv'
  BY StepInvariant
<1>3. CASE Orderly
  <2>1. IInv /\ [Next]_vars => IInv'
    BY <1>2, <1>3
  <2>2. Spec => []IInv
    BY <1>1, <2>1, PTL DEF Spec
  <2> QED BY <2>2
<1> QED BY <1>3

LEMMA OrderIsViews == IInv => ViewsInOrder
<1> SUFFICES ASSUME IInv PROVE ViewsInOrder
  OBVIOUS
<1>1. producer = "master" \/ consumer = "master"
  BY Order, ViewTypes DEF Ends, consumer, Other
<1>2. view["master"].head = PutHead \/ view["master"].head = SeenHead
  BY <1>1 DEF PutHead, SeenHead, Mine, Theirs
<1>3. view["master"].tail = PutTail \/ view["master"].tail = GotTail
  BY <1>1 DEF PutTail, GotTail, Mine, Theirs
<1>4. put.pc # "cas" => PutTail2 <= PutTail
  BY DEF IInv, Views
<1>5. /\ SeenHead <= PutHead /\ PutTail <= GotTail
      /\ view["master"].head <= PutHead /\ view["master"].tail <= GotTail
      /\ PutTail2 <= PutHead /\ PutHead - PutTail2 < Size
  BY <1>2, <1>3, Order
<1> QED BY <1>4, <1>5
        DEF ViewsInOrder, PutHead, PutTail, PutTail2, GotTail, SeenHead

(* What an end knows of the other end's variables is never ahead of them,  *)
(* and nothing is reaped that has not been taken: the comparisons for      *)
(* equality alone in the reaps and the checks are enough.                  *)
THEOREM ViewsNeverAhead == Orderly => (Spec => []ViewsInOrder)
<1>1. CASE Orderly
  <2>1. Spec => []IInv
    BY <1>1, Invariant
  <2>2. Spec => []ViewsInOrder
    BY <2>1, OrderIsViews, PTL
  <2> QED BY <2>2
<1> QED BY <1>1
-------------------------------------------------------------------------------
(* Across the bus the ring buffer implements the claim queue.              *)

LEMMA EndIsHead ==
  ASSUME IInv
  PROVE  Promise!EndOf(items, PutTail2) = PutHead
<1>1. Layout
  BY Order
<1> QED BY <1>1 DEF Promise!EndOf, Layout, End

LEMMA ClaimStep ==
  ASSUME IInv, PutElement
  PROVE  /\ put.need \in Sizes /\ Promise!Claim(put.need)
<1>1. put.pc = "write"
  BY DEF PutElement
<1>2. put.need \in Sizes /\ (PutHead + put.need) - PutTail2 < Size
  BY <1>1 DEF IInv, Putting
<1>3. /\ items' = Append(items, [off |-> PutHead, size |-> put.need,
                                 phase |-> "reserved"])
      /\ PutTail2' = PutTail2
  BY PutElementEffect, Order
<1>4. PICK e : e = Promise!EndOf(items, PutTail2)
  OBVIOUS
<1>5. e = PutHead
  BY <1>4, EndIsHead
<1>6. /\ (e + put.need) - PutTail2 < Size
      /\ items' = Append(items, [off |-> e, size |-> put.need, phase |-> "reserved"])
  BY <1>2, <1>3, <1>5
<1>7. UNCHANGED Mine.tail2
  BY <1>3 DEF PutTail2
<1>8. Promise!EndOf(items, Mine.tail2) = e
  BY <1>4 DEF PutTail2
<1>9. (e + put.need) - Mine.tail2 < Size
  BY <1>6 DEF PutTail2
<1>10. PICK n : n = put.need
  OBVIOUS
<1>11. /\ Promise!EndOf(items, Mine.tail2) + n - Mine.tail2 < Size
       /\ items' = Append(items, [off |-> Promise!EndOf(items, Mine.tail2),
                                  size |-> n, phase |-> "reserved"])
  <2>0. n \in Nat /\ e \in Nat /\ Mine.tail2 \in Nat
    BY <1>2, <1>5, <1>10, SizesType, Order DEF PutTail2
  <2>1. e + n - Mine.tail2 < Size
    BY <1>9, <1>10, <2>0, SizeAssumption
  <2>2. items' = Append(items, [off |-> e, size |-> n, phase |-> "reserved"])
    BY <1>6, <1>10
  <2>3. Promise!EndOf(items, Mine.tail2) + n - Mine.tail2 < Size
    BY <1>8, <2>1
  <2> QED BY <1>8, <2>2, <2>3
<1>12. Promise!Claim(n)
  BY <1>7, <1>11 DEF Promise!Claim
<1> QED BY <1>2, <1>10, <1>12

LEMMA ReclaimStep ==
  ASSUME IInv, UNCHANGED items, PutTail2' \in Nat, PutTail2 <= PutTail2',
         PutTail2' <= PutHead, Boundary(PutTail2'), DoneBefore(PutTail2')
  PROVE  \/ \E f \in PutTail2 + 1 .. Promise!EndOf(items, PutTail2) : Promise!Reclaim(f)
         \/ UNCHANGED <<items, PutTail2>>
<1>1. PICK f \in Nat : f = PutTail2'
  OBVIOUS
<1>2. CASE f = PutTail2
  BY <1>1, <1>2
<1>3. CASE f > PutTail2
  <2>1. \A i \in DOMAIN items :
          items[i].off < f => /\ items[i].phase = "done"
                              /\ items[i].off + items[i].size <= f
    <3> TAKE i \in DOMAIN items
    <3> HAVE items[i].off < f
    <3>1. End(i) <= f
      BY <1>1, EndsBefore, Order
    <3> QED BY <1>1, <3>1 DEF DoneBefore, End
  <2>2. f <= PutHead
    BY <1>1
  <2>3. Promise!Reclaim(f)
    BY <1>1, <1>3, <2>1, <2>2, EndIsHead DEF Promise!Reclaim, PutTail2
  <2>4. f \in PutTail2 + 1 .. PutHead
    BY <1>3, <2>2, Order
  <2> QED BY <2>3, <2>4, EndIsHead
<1> QED BY <1>1, <1>2, <1>3, Order

LEMMA ReapReclaims ==
  ASSUME IInv, PutReap \/ PutReapAll
  PROVE  \/ \E f \in PutTail2 + 1 .. Promise!EndOf(items, PutTail2) : Promise!Reclaim(f)
         \/ UNCHANGED <<items, PutTail2>>
<1>1. CASE PutReap
  <2>1. PICK t \in Nat : t = IF producer = "shadow" THEN GotTail ELSE PutTail
    BY Order
  <2>2. PICK r : r = Reap(PutTail2, t)
    OBVIOUS
  <2>3. PutTail2' = r.end /\ UNCHANGED items
    <3>1. PutTail2' = r.end
      BY <1>1, <2>1, <2>2, PutReapEffect, Order
    <3> QED BY <1>1, <3>1 DEF PutReap
  <2>4. PutTail2 <= PutTail
    BY <1>1 DEF IInv, Views, PutReap
  <2>5. Boundary(t) /\ PutTail2 <= t /\ t <= PutHead
    BY <2>1, <2>4, Order
  <2>6. /\ r.end \in Nat /\ PutTail2 <= r.end /\ r.end <= t
        /\ Boundary(r.end) /\ DoneBefore(r.end)
    BY <2>2, <2>5, Order, ReapInside
  <2>7. r.end <= PutHead
    BY <2>5, <2>6, Order
  <2> QED BY <2>3, <2>6, <2>7, ReclaimStep
<1>2. CASE PutReapAll
  <2>1. PICK r : r = Reap(PutTail2, PutHead)
    OBVIOUS
  <2>2. PutTail2' = r.end /\ UNCHANGED items
    <3>1. PutTail2' = r.end
      BY <1>2, <2>1, PutReapAllEffect, Order
    <3> QED BY <1>2, <3>1 DEF PutReapAll
  <2>3. PutTail2 <= PutHead
    BY Order
  <2>4. /\ r.end \in Nat /\ PutTail2 <= r.end /\ r.end <= PutHead
        /\ Boundary(r.end) /\ DoneBefore(r.end)
    BY <2>1, <2>3, Order, ReapInside
  <2> QED BY <2>2, <2>4, ReclaimStep
<1> QED BY <1>1, <1>2

LEMMA TakeStep ==
  ASSUME IInv, GetReady
  PROVE  \E i \in DOMAIN items : Promise!Take(i)
<1>1. PICK k \in DOMAIN items :
        /\ items[k].off = GotTail /\ items[k].phase = "ready"
  BY GetReadyTakes
<1>2. ASSUME NEW i \in DOMAIN items
      PROVE  /\ items[i].off = GotTail => i = k
             /\ i < k => items[i].off < GotTail
  <2>1. i < k => items[i].off < GotTail
    BY <1>1, BelowHead, Order, SMTT(30) DEF Layout, End
  <2>2. k < i => GotTail < items[i].off
    BY <1>1, BelowHead, Order, SMTT(30) DEF Layout, End
  <2> QED BY <2>1, <2>2, BelowHead, Order
<1>3. \A j \in 1 .. k - 1 : Promise!Taken(j)
  <2> TAKE j \in 1 .. k - 1
  <2>1. j \in DOMAIN items /\ j < k
    BY Order, ItemTypes
  <2>2. items[j].phase \in {"got", "done"}
    BY <1>2, <2>1, Order
  <2> QED BY <2>2 DEF Promise!Taken
<1>4. items' = [items EXCEPT ![k].phase = "got"]
  <2>1. items' = Taken
    BY DEF GetReady
  <2>2. items = [i \in DOMAIN items |-> items[i]]
    BY Order DEF TypeOK
  <2>3. PICK t : t = [items EXCEPT ![k].phase = "got"]
    OBVIOUS
  <2>4. /\ DOMAIN t = DOMAIN items /\ t = [i \in DOMAIN items |-> t[i]]
        /\ \A i \in DOMAIN items :
             t[i] = IF i = k THEN [items[i] EXCEPT !.phase = "got"] ELSE items[i]
    BY <2>2, <2>3
  <2>5. Fresh.tail = GotTail
    BY FreshControls, Order
  <2>6. \A i \in DOMAIN items :
          t[i] = IF items[i].off # Fresh.tail THEN items[i]
                 ELSE [items[i] EXCEPT !.phase = "got"]
    BY <1>1, <1>2, <2>4, <2>5
  <2>7. t = Taken
    BY <2>4, <2>6 DEF Taken
  <2> QED BY <2>1, <2>3, <2>7
<1>5. PutTail2' = PutTail2
  BY GetReadyEffect, Order
<1> QED BY <1>1, <1>3, <1>4, <1>5
        DEF Promise!Take, Promise!Advance, PutTail2

LEMMA RefinementStep ==
  ASSUME Orderly, IInv, [Next]_vars
  PROVE  [Promise!Next]_<<items, PutTail2>>
<1>1. CASE PutElement
  BY <1>1, ClaimStep DEF Promise!Next
<1>2. CASE PutReap \/ PutReapAll
  BY <1>2, ReapReclaims DEF Promise!Next, PutTail2
<1>3. CASE GetReady
  BY <1>3, TakeStep DEF Promise!Next
<1>4. ASSUME NEW i \in DOMAIN items, Marks(i)
      PROVE  Promise!MakeReady(i) \/ Promise!Finish(i)
  <2>1. PutTail2' = PutTail2
    BY <1>4, SameView DEF Marks, SetReady, SetDone, SetStatus, connection
  <2> QED BY <1>4, <2>1
          DEF Marks, SetReady, SetDone, SetStatus, Promise!MakeReady, Promise!Finish,
              Promise!Advance, PutTail2
<1>5. ASSUME \E i \in DOMAIN items : Marks(i) PROVE Promise!Next
  BY <1>4, <1>5 DEF Promise!Next
<1>6. CASE Connects
  BY <1>6, ConnectsParts, SameView, Order DEF data
<1>7. CASE CreateShadow
  BY <1>7, CreateShadowEffect
<1>8. CASE PutWaits
  BY <1>8, PutWaitsParts, SameView, Order DEF connection
<1>9. CASE GetWaits
  BY <1>9, GetWaitsParts, SameView, Order DEF connection
<1>10. CASE PutPublishes
  <2>1. UNCHANGED items /\ Publish(producer, "head") /\ UNCHANGED <<producer, blocking>>
    BY <1>10, PublishesParts, Order DEF connection
  <2> QED BY <2>1, PublishedHead, Order
<1>11. CASE GetPublishes
  <2>1. UNCHANGED items /\ Publish(consumer, "tail") /\ UNCHANGED <<producer, blocking>>
    BY <1>11, PublishesParts, Order DEF connection
  <2> QED BY <2>1, PublishedTail, Order
<1>12. CASE PutCas
  <2>1. UNCHANGED items
    BY <1>12 DEF PutCas
  <2> QED BY <1>12, <2>1, PutCasEffect, Order
<1>13. CASE GetNothing
  <2>1. UNCHANGED items
    BY <1>13 DEF GetNothing
  <2> QED BY <1>13, <2>1, GetNothingEffect, Order
<1>14. CASE UNCHANGED vars
  BY <1>14, SameView DEF vars, connection
<1>15. CASE PutNote
  BY <1>15, SameView DEF PutNote, connection
<1> QED BY <1>1, <1>2, <1>3, <1>5, <1>6, <1>7, <1>8, <1>9, <1>10, <1>11, <1>12,
           <1>13, <1>14, <1>15, NextCases

(* Claimed, readied, taken in order, finished and reclaimed exactly as a   *)
(* claim queue does it, with the putting end's tail2 as the limit of reuse.*)
THEOREM Refinement == Orderly => (Spec => ImplementsClaimQueue)
<1>1. Init => Promise!Init
  <2> SUFFICES ASSUME Init PROVE Promise!Init
    OBVIOUS
  <2>1. items = <<>> /\ producer \in Ends
    BY DEF Init, ConnectionInit
  <2>2. Mine.tail2 = 0
    BY <2>1 DEF Init, Mine
  <2> QED BY <2>1, <2>2, SizeAssumption DEF Promise!Init
<1>2. Orderly /\ IInv /\ [Next]_vars => [Promise!Next]_(Promise!vars)
  BY RefinementStep DEF Promise!vars, PutTail2
<1>3. CASE Orderly
  <2>1. Spec => []IInv
    BY <1>3, Invariant
  <2>2. IInv /\ [Next]_vars => [Promise!Next]_(Promise!vars)
    BY <1>2, <1>3
  <2>3. Spec => ImplementsClaimQueue
    BY <1>1, <2>1, <2>2, PTL DEF Spec, ImplementsClaimQueue, Promise!Spec
  <2> QED BY <2>3
<1> QED BY <1>3
-------------------------------------------------------------------------------
(* Copies.  No element is as large as the buffer.                          *)
SizesKept ==
  /\ put.pc \notin {"idle", "served", "failed"} => put.need \in Sizes
  /\ \A i \in DOMAIN items : items[i].size \in Sizes

LEMMA SizesStep ==
  ASSUME TypeOK, SizesKept, [Next]_vars
  PROVE  SizesKept'
<1>1. ASSUME UNCHANGED items, put' = put PROVE SizesKept'
  BY <1>1 DEF SizesKept
<1>2. ASSUME UNCHANGED items, put'.need = put.need, put.pc \notin {"idle", "served", "failed"}
      PROVE  SizesKept'
  BY <1>2 DEF SizesKept
<1>3. ASSUME DOMAIN items' = DOMAIN items, put' = put,
             \A i \in DOMAIN items : items'[i].size = items[i].size
      PROVE  SizesKept'
  BY <1>3 DEF SizesKept
<1>4. CASE PutWaits
  <2>1. /\ put'.pc \in {"idle", "check", "write", "failed", "peek"}
        /\ put'.pc \notin {"idle", "failed"} => put'.need \in Sizes \/ put'.need = put.need
        /\ put.pc \in {"idle", "served", "failed"} => put'.need \in Sizes
        /\ UNCHANGED items
    BY <1>4, PutWaitsParts
  <2> QED BY <2>1 DEF SizesKept
<1>5. CASE PutReap
  BY <1>5, <1>2, PutReapEffect DEF PutReap
<1>6. CASE PutReapAll
  BY <1>6, <1>2, PutReapAllEffect DEF PutReapAll
<1>7. CASE PutCas
  BY <1>7, <1>2, PutCasEffect DEF PutCas
<1>8. CASE PutElement
  <2>1. PICK new \in Element : new = [off |-> PutHead, size |-> put.need, phase |-> "reserved"]
    BY <1>8, PutElementEffect
  <2>2. items' = Append(items, new) /\ put'.pc = "served"
    BY <1>8, <2>1, PutElementEffect
  <2>3. put.need \in Sizes
    BY <1>8 DEF PutElement, SizesKept
  <2>4. /\ DOMAIN items = 1 .. Len(items) /\ Len(items) \in Nat
        /\ DOMAIN items' = 1 .. Len(items) + 1
        /\ \A j \in DOMAIN items : items'[j] = items[j]
        /\ items'[Len(items) + 1] = new
    BY <2>2, ElementAdded
  <2>5. \A j \in DOMAIN items' : j \in DOMAIN items \/ j = Len(items) + 1
    BY <2>4
  <2> QED BY <2>1, <2>2, <2>3, <2>4, <2>5 DEF SizesKept
<1>9. CASE PutPublishes
  <2>1. /\ put'.pc \in {"idle", "check"} /\ UNCHANGED items
        /\ \/ put'.pc = "idle" \/ put'.need \in Sizes
           \/ put'.need = put.need /\ put.pc = "full"
    BY <1>9, PublishesParts
  <2> QED BY <2>1 DEF SizesKept
<1>10. CASE GetReady
  <2>1. put' = put /\ items' = Taken
    BY <1>10 DEF GetReady
  <2> QED BY <2>1, <1>3, TakenItems
<1>11. ASSUME NEW i \in DOMAIN items, Marks(i) PROVE SizesKept'
  <2>1. PICK p \in {"ready", "done"} : p \in Phases /\ items' = [items EXCEPT ![i].phase = p]
                                       /\ put' = put
    BY <1>11, MarksParts, ZenonT(30)
  <2> QED BY <2>1, <1>3, OnePhaseChanges
<1>12. CASE Connects
  BY <1>12, <1>1, ConnectsParts DEF data
<1>13. CASE CreateShadow
  BY <1>13, <1>1, CreateShadowParts
<1>14. CASE GetWaits
  BY <1>14, <1>1, GetWaitsParts
<1>15. CASE GetNothing
  BY <1>15, <1>1 DEF GetNothing
<1>16. CASE GetPublishes
  BY <1>16, <1>1, PublishesParts
<1>17. CASE UNCHANGED vars
  BY <1>17, <1>1 DEF vars
<1>18. CASE PutNote
  <2>1. put'.need = put.need /\ put.pc = "again" /\ UNCHANGED items
    BY <1>18 DEF PutNote, PutGo, TypeOK
  <2> QED BY <2>1, <1>2
<1> QED BY <1>4, <1>5, <1>6, <1>7, <1>8, <1>9, <1>10, <1>11, <1>12, <1>13, <1>14,
           <1>15, <1>16, <1>17, <1>18, NextCases

(* The size of every element is one a put may ask for, as the size needed  *)
(* is while a put is at work: none is as large as the buffer.              *)
THEOREM ElementsSmaller == Spec => []SizesKept
<1>1. Init => SizesKept
  BY DEF Init, SizesKept
<1>2. TypeOK /\ SizesKept /\ [Next]_vars => SizesKept'
  BY SizesStep
<1> QED BY <1>1, <1>2, TypeCorrect, PTL DEF Spec

(* One or two pieces one after the other. *)
LEMMA FlattenOne ==
  ASSUME NEW s
  PROVE  FlattenSeq(<<s>>) = s
<1> DEFINE E(f) == [i \in 1 .. 1 |-> IF i = 1 THEN s ELSE f[i - 1] \o <<s>>[i]]
<1>1. FlattenSeq(<<s>>) = (CHOOSE f : f = E(f))[1]
  BY DEF FlattenSeq
<1>2. [i \in 1 .. 1 |-> s] = E([i \in 1 .. 1 |-> s])
  OBVIOUS
<1>3. (CHOOSE f : f = E(f)) = E(CHOOSE f : f = E(f))
  BY <1>2
<1>4. PICK g : g = CHOOSE f : f = E(f)
  OBVIOUS
<1>5. g[1] = s
  BY <1>3, <1>4
<1> QED BY <1>1, <1>4, <1>5

LEMMA FlattenTwo ==
  ASSUME NEW s, NEW t
  PROVE  FlattenSeq(<<s, t>>) = s \o t
<1> DEFINE E(f) == [i \in 1 .. 2 |-> IF i = 1 THEN <<s, t>>[i] ELSE f[i - 1] \o <<s, t>>[i]]
           w == [i \in 1 .. 2 |-> IF i = 1 THEN s ELSE s \o t]
<1>1. FlattenSeq(<<s, t>>) = (CHOOSE f : f = E(f))[2]
  BY DEF FlattenSeq
<1>2. w = E(w)
  <2>1. w[1] = s /\ w[2] = s \o t
    OBVIOUS
  <2>2. \A i \in 1 .. 2 : i = 1 \/ i = 2
    OBVIOUS
  <2>3. \A i \in 1 .. 2 : w[i] = IF i = 1 THEN <<s, t>>[i] ELSE w[i - 1] \o <<s, t>>[i]
    BY <2>1, <2>2
  <2> QED BY <2>3
<1> HIDE DEF w, E
<1>3. (CHOOSE f : f = E(f)) = E(CHOOSE f : f = E(f))
  BY <1>2
<1>4. PICK g : g = CHOOSE f : f = E(f)
  OBVIOUS
<1>5. g = E(g)
  BY <1>3, <1>4
<1>6. 1 \in 1 .. 2 /\ 2 \in 1 .. 2 /\ 2 - 1 = 1
  OBVIOUS
<1>7. \A i \in 1 .. 2 : g[i] = IF i = 1 THEN <<s, t>>[i] ELSE g[i - 1] \o <<s, t>>[i]
  BY <1>5 DEF E
<1>8. g[1] = s
  BY <1>6, <1>7
<1>9. g[2] = g[1] \o t
  <2>1. g[2] = g[2 - 1] \o <<s, t>>[2]
    BY <1>6, <1>7
  <2>2. <<s, t>>[2] = t
    OBVIOUS
  <2> QED BY <1>6, <2>1, <2>2
<1> QED BY <1>1, <1>4, <1>8, <1>9

LEMMA SameRemainder ==
  ASSUME NEW a \in Nat, NEW q \in Nat
  PROVE  (a + (Size * q)) % Size = a % Size
<1>1. PICK b \in Nat : b = a + (Size * q)
  BY SizeAssumption
<1>2. PICK u \in Nat : b = (Size * u) + (b % Size) /\ b % Size \in Positions
  BY Division
<1>3. PICK v \in Nat : a = (Size * v) + (a % Size) /\ a % Size \in Positions
  BY Division
<1>4. PICK r \in Positions : r = b % Size
  BY <1>2
<1>5. PICK s \in Positions : s = a % Size
  BY <1>3
<1>6. PICK w \in Nat : w = v + q
  OBVIOUS
<1>7. (Size * u) + r = (Size * w) + s
  BY <1>1, <1>2, <1>3, <1>4, <1>5, <1>6, SizeAssumption DEF Positions
<1>8. ~(u < w)
  BY <1>7, NextMultiple, SizeAssumption DEF Positions
<1>9. ~(w < u)
  BY <1>7, NextMultiple, SizeAssumption DEF Positions
<1>10. u = w
  BY <1>8, <1>9
<1>11. r = s
  BY <1>7, <1>10, SizeAssumption DEF Positions
<1> QED BY <1>1, <1>4, <1>5, <1>11

(* Behind the buffer comes the buffer again.                               *)
LEMMA PlaceOf ==
  ASSUME NEW o \in Nat, NEW m \in Nat, NEW a \in Nat,
         a = (Page + Ix(o)) + m \/ a + Size = (Page + Ix(o)) + m, a >= Page
  PROVE  Place(a) = Ix(o + m)
<1>1. PICK q \in Nat : o = (Size * q) + Ix(o)
  BY Division DEF Ix
<1>2. PICK x \in Nat : x = Ix(o)
  BY IxType DEF Positions
<1>3. PICK b \in Nat : b = a - Page
  BY DEF Page
<1>4. CASE a = (Page + Ix(o)) + m
  <2>1. b + (Size * q) = o + m
    BY <1>1, <1>2, <1>3, <1>4, SizeAssumption DEF Page
  <2> QED BY <1>3, <2>1, SameRemainder DEF Place, Ix
<1>5. CASE a + Size = (Page + Ix(o)) + m
  <2>1. b + (Size * (q + 1)) = o + m
    BY <1>1, <1>2, <1>3, <1>5, SizeAssumption DEF Page
  <2>2. q + 1 \in Nat
    OBVIOUS
  <2> QED BY <1>3, <2>1, <2>2, SameRemainder DEF Place, Ix
<1> QED BY <1>4, <1>5

(* The places of n units at an address, and of n units of an element.      *)
Stretch(a, n) == [k \in 1 .. n |-> Place(a + k - 1)]
Part(o, m, n) == [k \in 1 .. n |-> Ix(o + m + k - 1)]

(* A piece that is at its place or one round before it, m units into what  *)
(* is copied.                                                              *)
LEMMA PieceTouches ==
  ASSUME NEW o \in Nat, NEW m \in Nat, NEW a \in Nat, NEW n \in Nat,
         a = (Page + Ix(o)) + m \/ a + Size = (Page + Ix(o)) + m, a >= Page
  PROVE  Stretch(a, n) = Part(o, m, n)
<1> SUFFICES ASSUME NEW k \in 1 .. n PROVE Place(a + k - 1) = Ix(o + m + k - 1)
  BY DEF Stretch, Part
<1>1. PICK j \in Nat : k = j + 1
  <2>1. k - 1 \in Nat /\ k = (k - 1) + 1
    OBVIOUS
  <2> QED BY <2>1
<1>2. PICK b \in Nat : b = a + j
  OBVIOUS
<1>3. PICK l \in Nat : l = m + j
  OBVIOUS
<1>4. Ix(o) \in Nat
  BY IxType DEF Positions
<1>5. /\ b = (Page + Ix(o)) + l \/ b + Size = (Page + Ix(o)) + l
      /\ b >= Page
  BY <1>2, <1>3, <1>4, SizeAssumption DEF Page
<1>6. Place(b) = Ix(o + l)
  BY <1>5, PlaceOf
<1>7. a + k - 1 = b /\ o + m + k - 1 = o + l
  BY <1>1, <1>2, <1>3
<1> QED BY <1>6, <1>7

LEMMA TouchedOne ==
  ASSUME NEW p
  PROVE  Touched(<<p>>) = Stretch(p.start, p.n)
<1> DEFINE F(q) == Stretch(q.start, q.n)
<1>1. Touched(<<p>>) = FlattenSeq([j \in DOMAIN <<p>> |-> F(<<p>>[j])])
  BY DEF Touched, Stretch
<1> HIDE DEF F
<1>2. DOMAIN <<p>> = {1} /\ <<p>>[1] = p
  OBVIOUS
<1>3. [j \in DOMAIN <<p>> |-> F(<<p>>[j])] = <<F(p)>>
  BY <1>2
<1>4. Touched(<<p>>) = F(p)
  BY <1>1, <1>3, FlattenOne
<1> QED BY <1>4 DEF F

LEMMA TouchedTwo ==
  ASSUME NEW p, NEW q
  PROVE  Touched(<<p, q>>) = Stretch(p.start, p.n) \o Stretch(q.start, q.n)
<1> DEFINE F(r) == Stretch(r.start, r.n)
<1>1. Touched(<<p, q>>) = FlattenSeq([j \in DOMAIN <<p, q>> |-> F(<<p, q>>[j])])
  BY DEF Touched, Stretch
<1> HIDE DEF F
<1>2. DOMAIN <<p, q>> = {1, 2} /\ <<p, q>>[1] = p /\ <<p, q>>[2] = q
  OBVIOUS
<1>3. [j \in DOMAIN <<p, q>> |-> F(<<p, q>>[j])] = <<F(p), F(q)>>
  BY <1>2
<1>4. Touched(<<p, q>>) = F(p) \o F(q)
  BY <1>1, <1>3, FlattenTwo
<1> QED BY <1>4 DEF F

LEMMA PieceParts ==
  ASSUME NEW e, NEW st \in Nat, NEW n \in Nat
  PROVE  \E d \in BOOLEAN, a \in {st, Adjusted(st)} :
           /\ Piece(e, st, n) = [dma |-> d, start |-> a, n |-> n]
           /\ d => a = Adjusted(st) /\ IsDMABetter(e, n)
<1>1. CASE IsDMABetter(e, n)
  <2>1. Piece(e, st, n) = [dma |-> TRUE, start |-> Adjusted(st), n |-> n]
    BY <1>1 DEF Piece
  <2> QED BY <1>1, <2>1
<1>2. CASE ~IsDMABetter(e, n)
  <2>1. Piece(e, st, n) = [dma |-> FALSE, start |-> st, n |-> n]
    BY <1>2 DEF Piece
  <2> QED BY <2>1
<1> QED BY <1>1, <1>2

(* Two stretches one behind the other are one. *)
Joint(s, t) == s \o t

LEMMA Joined ==
  ASSUME NEW o \in Nat, NEW m \in Nat, NEW n \in Nat, NEW b \in Nat,
         NEW l \in Nat, NEW c \in Nat, l = m + n, c = n + b
  PROVE  Joint(Part(o, m, n), Part(o, l, b)) = Part(o, m, c)
<1> DEFINE s == [k \in 1 .. n |-> Ix(o + m + k - 1)]
           t == [k \in 1 .. b |-> Ix(o + l + k - 1)]
           u == [k \in 1 .. c |-> Ix(o + m + k - 1)]
<1>1. \A k \in 1 .. n : Ix(o + m + k - 1) \in Nat
  <2> TAKE k \in 1 .. n
  <2>1. PICK x \in Nat : x = o + m + k - 1
    OBVIOUS
  <2> QED BY <2>1, IxType DEF Positions
<1>2. \A k \in 1 .. b : Ix(o + l + k - 1) \in Nat
  <2> TAKE k \in 1 .. b
  <2>1. PICK x \in Nat : x = o + l + k - 1
    OBVIOUS
  <2> QED BY <2>1, IxType DEF Positions
<1>3. s \in Seq(Nat) /\ Len(s) = n /\ t \in Seq(Nat) /\ Len(t) = b
  <2>1. s \in [1 .. n -> Nat] /\ t \in [1 .. b -> Nat]
    BY <1>1, <1>2
  <2> HIDE DEF s, t
  <2>2. s \in Seq(Nat) /\ t \in Seq(Nat)
    BY <2>1, SeqDef
  <2> QED BY <2>1, <2>2, LenProperties
<1>4. ASSUME NEW k \in 1 .. c
      PROVE  u[k] = IF k <= n THEN s[k] ELSE t[k - n]
  <2>1. CASE k <= n
    <3>1. k \in 1 .. n
      BY <2>1
    <3> QED BY <2>1, <3>1
  <2>2. CASE ~(k <= n)
    <3>1. k - n \in 1 .. b
      BY <2>2
    <3>2. o + l + (k - n) - 1 = o + m + k - 1
      OBVIOUS
    <3>3. t[k - n] = Ix(o + l + (k - n) - 1)
      BY <3>1
    <3> QED BY <2>2, <3>2, <3>3
  <2> QED BY <2>1, <2>2
<1> HIDE DEF s, t
<1>5. u = [k \in 1 .. c |-> IF k <= n THEN s[k] ELSE t[k - n]]
  BY <1>4
<1> HIDE DEF u
<1>6. s \o t = [k \in 1 .. c |-> IF k <= n THEN s[k] ELSE t[k - n]]
  <2>1. /\ s \o t \in Seq(Nat) /\ Len(s \o t) = c
        /\ \A k \in 1 .. c : (s \o t)[k] = IF k <= n THEN s[k] ELSE t[k - n]
    BY <1>3, ConcatProperties
  <2>2. PICK w \in Seq(Nat) : w = s \o t
    BY <2>1
  <2>3. w \in [1 .. c -> Nat]
    BY <2>1, <2>2, LenProperties
  <2> QED BY <2>1, <2>2, <2>3
<1> QED BY <1>5, <1>6 DEF s, t, u, Part, Joint

(* Where a copy begins: in the first or in the second mapping. *)
StartsAt(o, m, n, x, st, a, b) ==
  /\ x = Ix(o) /\ st = (Page + x) + m /\ a = Adjusted(st) /\ b = a + n - Window
  /\ a = st \/ a + Size = st
  /\ a >= Page /\ a < Window /\ st >= Page
  /\ b > 0 => a = st /\ b < n
  /\ Size \in Nat /\ Window = Page + Size

LEMMA CopyStart ==
  ASSUME NEW o \in Nat, NEW m \in Nat, NEW n \in Nat, n >= 1, m + n < Size
  PROVE  \E x \in Positions, st \in Nat, a \in Nat, b \in Int :
           StartsAt(o, m, n, x, st, a, b)
<1>1. PICK x \in Positions : x = Ix(o)
  BY IxType
<1>2. Size \in Nat /\ Size > 1 /\ x \in Nat /\ x < Size /\ Window = Page + Size
  BY SizeAssumption DEF Positions, Window
<1>3. PICK st \in Nat : st = (Page + x) + m
  BY <1>2 DEF Page
<1>4. PICK a \in Nat : /\ a = Adjusted(st) /\ a >= Page /\ a < Window
                       /\ a = st \/ a + Size = st
  <2>1. CASE st >= Window
    <3>1. Adjusted(st) = st - Size
      BY <2>1 DEF Adjusted
    <3>2. st - Size \in Nat /\ st - Size >= Page /\ st - Size < Window /\ (st - Size) + Size = st
      BY <1>2, <1>3, <2>1 DEF Page
    <3> QED BY <3>1, <3>2
  <2>2. CASE ~(st >= Window)
    <3>1. Adjusted(st) = st
      BY <2>2 DEF Adjusted
    <3> QED BY <1>2, <1>3, <2>2, <3>1 DEF Page
  <2> QED BY <2>1, <2>2
<1>5. PICK b \in Int : b = a + n - Window
  BY <1>2 DEF Page
<1>6. b > 0 => a = st /\ b < n
  BY <1>2, <1>3, <1>4, <1>5 DEF Page
<1>7. st >= Page
  BY <1>2, <1>3 DEF Page
<1>8. a = st \/ a + Size = st
  BY <1>4
<1>9. StartsAt(o, m, n, x, st, a, b)
  BY <1>1, <1>2, <1>3, <1>4, <1>5, <1>6, <1>7, <1>8 DEF StartsAt
<1> QED BY <1>9

CopyOK(pieces, o, m, n) ==
  /\ Touched(pieces) = Part(o, m, n)
  /\ \A j \in DOMAIN pieces :
       pieces[j].dma => /\ pieces[j].start >= Page
                        /\ pieces[j].start + pieces[j].n <= Window

LEMMA CopyIsWhole ==
  ASSUME NEW e, NEW o \in Nat, NEW m \in Nat, NEW n \in Nat, n >= 1, m + n < Size
  PROVE  CopyOK(Pieces(e, (Page + Ix(o)) + m, n), o, m, n)
<1>0. PICK x \in Positions, st \in Nat, a \in Nat, b \in Int : StartsAt(o, m, n, x, st, a, b)
  BY CopyStart
<1>1. /\ x = Ix(o) /\ st = (Page + x) + m /\ a = Adjusted(st) /\ b = a + n - Window
      /\ a = st \/ a + Size = st
      /\ a >= Page /\ a < Window /\ st >= Page
      /\ b > 0 => a = st /\ b < n
      /\ Size \in Nat /\ Window = Page + Size
  BY <1>0 DEF StartsAt
<1>2. PICK s : s = Pieces(e, st, n)
  OBVIOUS
<1>3. s = Pieces(e, (Page + Ix(o)) + m, n)
  BY <1>1, <1>2
<1>4. CASE ~(IsDMABetter(e, n) /\ b > 0)
  <2>1. s = <<Piece(e, st, n)>>
    BY <1>1, <1>2, <1>4 DEF Pieces
  <2>2. PICK d \in BOOLEAN, c \in {st, Adjusted(st)} :
           /\ Piece(e, st, n) = [dma |-> d, start |-> c, n |-> n]
           /\ d => c = Adjusted(st) /\ IsDMABetter(e, n)
    BY PieceParts
  <2>3. PICK p : p = Piece(e, st, n)
    OBVIOUS
  <2>4. /\ p.dma = d /\ p.start = c /\ p.n = n /\ s = <<p>>
        /\ d => c = a /\ b <= 0
        /\ c \in Nat /\ c >= Page
        /\ c = (Page + Ix(o)) + m \/ c + Size = (Page + Ix(o)) + m
    BY <1>1, <1>4, <2>1, <2>2, <2>3
  <2>5. Touched(s) = Stretch(c, n)
    BY <2>4, TouchedOne
  <2>6. Touched(s) = Part(o, m, n)
    BY <2>4, <2>5, PieceTouches
  <2>7. d => c + n <= Window
    BY <1>1, <2>4 DEF Page
  <2>8. DOMAIN s = {1} /\ s[1] = p
    BY <2>4
  <2> QED BY <1>3, <2>4, <2>6, <2>7, <2>8 DEF CopyOK
<1>5. CASE IsDMABetter(e, n) /\ b > 0
  <2>1. s = <<Piece(e, st, n - b), Piece(e, Page, b)>>
    BY <1>1, <1>2, <1>5 DEF Pieces
  <2>2. b \in Nat /\ n - b \in Nat /\ b < n
    BY <1>1, <1>5
  <2>3. Page \in Nat /\ Adjusted(Page) = Page
    BY <1>1, SizeAssumption DEF Adjusted, Page
  <2>4. PICK n1 \in Nat : n1 = n - b
    BY <2>2
  <2>5. PICK d \in BOOLEAN, c \in {st, Adjusted(st)} :
           Piece(e, st, n1) = [dma |-> d, start |-> c, n |-> n1]
    BY PieceParts
  <2>6. PICK d2 \in BOOLEAN, c2 \in {Page, Adjusted(Page)} :
           Piece(e, Page, b) = [dma |-> d2, start |-> c2, n |-> b]
    BY <2>2, <2>3, PieceParts
  <2>7. PICK p : p = Piece(e, st, n1)
    OBVIOUS
  <2>8. PICK q : q = Piece(e, Page, b)
    OBVIOUS
  <2>9. /\ p.start = st /\ p.n = n1 /\ q.start = Page /\ q.n = b /\ s = <<p, q>>
    BY <1>1, <1>5, <2>1, <2>3, <2>4, <2>5, <2>6, <2>7, <2>8
  <2>10. Touched(s) = Stretch(st, n1) \o Stretch(Page, b)
    BY <2>9, TouchedTwo
  <2>11. Stretch(st, n1) = Part(o, m, n1)
    BY <1>1, PieceTouches
  <2>12. PICK m2 \in Nat : m2 = m + n1
    OBVIOUS
  <2>13. Page + Size = (Page + Ix(o)) + m2
    BY <1>1, <1>5, <2>2, <2>4, <2>12 DEF Page, Positions
  <2>14. Stretch(Page, b) = Part(o, m2, b)
    BY <2>2, <2>3, <2>13, PieceTouches
  <2>15. n1 + b = n
    BY <2>2, <2>4
  <2>16. Joint(Part(o, m, n1), Part(o, m2, b)) = Part(o, m, n)
    <3>1. PICK l \in Nat : l = b
      BY <2>2
    <3>2. n = n1 + l
      BY <2>15, <3>1
    <3>3. Joint(Part(o, m, n1), Part(o, m2, l)) = Part(o, m, n)
      BY <2>12, <3>2, Joined
    <3> QED BY <3>1, <3>3
  <2>17. Touched(s) = Part(o, m, n)
    BY <2>10, <2>11, <2>14, <2>16 DEF Joint
  <2>18. st + n1 <= Window /\ Page + b <= Window
    BY <1>1, <1>5, <2>2, <2>4 DEF Page
  <2>19. DOMAIN s = {1, 2} /\ s[1] = p /\ s[2] = q
    BY <2>9
  <2>20. \A j \in DOMAIN s : s[j].start >= Page /\ s[j].start + s[j].n <= Window
    BY <1>1, <2>3, <2>9, <2>18, <2>19
  <2> QED BY <1>3, <2>17, <2>20 DEF CopyOK
<1> QED BY <1>4, <1>5

LEMMA SizesGiveCopies == TypeOK /\ SizesKept => CopiesWhole
<1> SUFFICES ASSUME TypeOK, SizesKept,
                    NEW i \in DOMAIN items, NEW e \in Ends,
                    NEW k \in 0 .. items[i].size - 1, NEW n \in 1 .. items[i].size - k
             PROVE  CopyOK(Pieces(e, Page + Ix(items[i].off) + k, n), items[i].off, k, n)
  BY DEF CopiesWhole, CopyOK, Part
<1>1. PICK o \in Nat : o = items[i].off
  BY ItemTypes
<1>2. PICK z \in Nat : z = items[i].size /\ z < Size
  BY SizesType DEF SizesKept
<1>3. k \in Nat /\ n \in Nat /\ n >= 1 /\ k + n < Size
  BY <1>2, SizeAssumption
<1>4. Page + Ix(o) + k = (Page + Ix(o)) + k
  OBVIOUS
<1>5. CopyOK(Pieces(e, (Page + Ix(o)) + k, n), o, k, n)
  BY <1>3, CopyIsWhole
<1> QED BY <1>1, <1>4, <1>5

(* A copy touches exactly the part of the element it is for, also across   *)
(* the end of the buffer, and DMA stays in the registered memory.          *)
THEOREM CopiesAreWhole == Spec => []CopiesWhole
BY TypeCorrect, ElementsSmaller, SizesGiveCopies, PTL
===============================================================================
