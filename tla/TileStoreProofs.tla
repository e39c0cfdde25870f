--------------------------- MODULE TileStoreProofs ---------------------------
(***************************************************************************)
(* Proofs about Tiling, TileManager and TileStore, for every grid, any     *)
(* number of managers, any edges and any number of operations.             *)
(*                                                                         *)
(* The Hilbert traversal is shown to be a curve by induction: the curve of *)
(* twice the side is four turned copies of the smaller one, and the loops  *)
(* of xy2d and d2xy go through the sizes the one way and the other.        *)
(* Compaction is a fold over a sorted list and runs of equal sources       *)
(* written out; both are taken step by step with an invariant of their     *)
(* own.  StoreInv says of every tile what its operations need; SoundInv    *)
(* adds what the bits of a tile mean, for the refinement of EdgeSet.       *)
(***************************************************************************)
EXTENDS TileStore, FoldTheorems, SequenceTheorems, FunctionTheorems, TLAPS

(****************************************************************************)
(* Powers of two.                                                            *)
(****************************************************************************)
(* Quotient and rest.                                                        *)
LEMMA DivMod ==
  ASSUME NEW a \in Int, NEW b \in Nat \ {0}
  PROVE  /\ a \div b \in Int /\ a % b \in 0 .. b - 1
         /\ a = b * (a \div b) + (a % b)
OBVIOUS

(* A number is in its quotient and its rest only.                            *)
LEMMA DivModUnique ==
  ASSUME NEW b \in Nat \ {0}, NEW q \in Int, NEW r \in 0 .. b - 1
  PROVE  (b * q + r) \div b = q /\ (b * q + r) % b = r
OBVIOUS

(* A multiple divided.                                                       *)
LEMMA ProductDiv ==
  ASSUME NEW b \in Nat \ {0}, NEW q \in Int
  PROVE  (b * q) \div b = q
OBVIOUS

(* The powers of two, one after the other.                                   *)
LEMMA Pow2Steps ==
  /\ Pow2 \in [Nat -> Nat] /\ Pow2[0] = 1
  /\ \A n \in Nat : Pow2[n + 1] = 2 * Pow2[n]
<1> DEFINE step == [p \in Nat \X Nat |-> 2 * p[2]]
<1>1. step \in [Nat \X Nat -> Nat]
  OBVIOUS
<1>2. PICK f : IsRecursion(f, Nat, 1, step)
  <2> HIDE DEF step
  <2> QED
    BY <1>1, NatRecursion
<1>3. f \in [Nat -> Nat] /\ f[0] = 1 /\ \A n \in Nat : f[n + 1] = 2 * f[n]
  BY <1>2 DEF IsRecursion
<1>4. f = [k \in Nat |-> IF k = 0 THEN 1 ELSE 2 * f[k - 1]]
  <2>1. ASSUME NEW k \in Nat, k # 0 PROVE f[k] = 2 * f[k - 1]
    <3>1. k - 1 \in Nat /\ (k - 1) + 1 = k
      BY <2>1
    <3> QED
      BY <1>3, <3>1
  <2> QED
    BY <1>3, <2>1
<1>5. Pow2 = [k \in Nat |-> IF k = 0 THEN 1 ELSE 2 * Pow2[k - 1]]
  BY <1>4 DEF Pow2
<1> DEFINE S == {n \in Nat : Pow2[n] = f[n]}
<1>6. 0 \in S
  BY <1>3, <1>5
<1>7. \A n \in Nat : n \in S => n + 1 \in S
  <2> TAKE n \in Nat
  <2> HAVE n \in S
  <2>1. n + 1 \in Nat /\ n + 1 # 0 /\ (n + 1) - 1 = n
    OBVIOUS
  <2>2. Pow2[n + 1] = 2 * Pow2[n]
    BY <1>5, <2>1
  <2> QED
    BY <1>3, <2>1, <2>2
<1>8. Nat \subseteq S
  <2> HIDE DEF S
  <2> QED
    BY <1>6, <1>7, SetInduction
<1>9. Pow2 \in [Nat -> Nat]
  <2>1. Pow2 = [k \in Nat |-> Pow2[k]]
    BY <1>5
  <2>2. \A k \in Nat : Pow2[k] \in Nat
    BY <1>3, <1>8
  <2> QED
    BY <2>1, <2>2
<1> QED
  BY <1>3, <1>8, <1>9

(* A power of two is greater than its exponent.                              *)
LEMMA Pow2Grows ==
  \A n \in Nat : Pow2[n] \in Nat /\ Pow2[n] > n
<1> DEFINE S == {n \in Nat : Pow2[n] > n}
<1>1. 0 \in S
  BY Pow2Steps
<1>2. \A n \in Nat : n \in S => n + 1 \in S
  <2> TAKE n \in Nat
  <2> HAVE n \in S
  <2>1. Pow2[n] \in Nat /\ Pow2[n] > n /\ Pow2[n + 1] = 2 * Pow2[n]
    BY Pow2Steps
  <2> QED
    BY <2>1
<1>3. Nat \subseteq S
  <2> HIDE DEF S
  <2> QED
    BY <1>1, <1>2, SetInduction
<1> QED
  BY <1>3, Pow2Steps

(* Powers of two rise with their exponents.                                  *)
LEMMA Pow2Rises ==
  \A i \in Nat, j \in Nat : i < j => Pow2[i] < Pow2[j]
<1> DEFINE S == {j \in Nat : \A i \in Nat : i < j => Pow2[i] < Pow2[j]}
<1>1. 0 \in S
  OBVIOUS
<1>2. \A j \in Nat : j \in S => j + 1 \in S
  <2> TAKE j \in Nat
  <2> HAVE j \in S
  <2> SUFFICES ASSUME NEW i \in Nat, i < j + 1 PROVE Pow2[i] < Pow2[j + 1]
    OBVIOUS
  <2>1. Pow2[j] \in Nat /\ Pow2[j] > 0 /\ Pow2[j + 1] = 2 * Pow2[j] /\ Pow2[i] \in Nat
    BY Pow2Steps, Pow2Grows
  <2>2. i = j \/ Pow2[i] < Pow2[j]
    OBVIOUS
  <2> QED
    BY <2>1, <2>2
<1>3. Nat \subseteq S
  <2> HIDE DEF S
  <2> QED
    BY <1>1, <1>2, SetInduction
<1> QED
  BY <1>3

(* The power of a sum is the product of the powers.                          *)
LEMMA Pow2Plus ==
  \A i \in Nat, j \in Nat : Pow2[i + j] = Pow2[i] * Pow2[j]
<1> DEFINE S == {j \in Nat : \A i \in Nat : Pow2[i + j] = Pow2[i] * Pow2[j]}
<1>1. 0 \in S
  BY Pow2Steps
<1>2. \A j \in Nat : j \in S => j + 1 \in S
  <2> TAKE j \in Nat
  <2> HAVE j \in S
  <2> SUFFICES ASSUME NEW i \in Nat PROVE Pow2[i + (j + 1)] = Pow2[i] * Pow2[j + 1]
    OBVIOUS
  <2>1. Pow2[i + j] = Pow2[i] * Pow2[j] /\ i + j \in Nat /\ (i + j) + 1 = i + (j + 1)
    OBVIOUS
  <2>2. Pow2[(i + j) + 1] = 2 * Pow2[i + j] /\ Pow2[j + 1] = 2 * Pow2[j]
    BY <2>1, Pow2Steps
  <2>3. Pow2[i] \in Nat /\ Pow2[j] \in Nat
    BY Pow2Steps
  <2>4. \A a \in Nat, b \in Nat : 2 * (a * b) = a * (2 * b)
    OBVIOUS
  <2> QED
    BY <2>1, <2>2, <2>3, <2>4
<1>3. Nat \subseteq S
  <2> HIDE DEF S
  <2> QED
    BY <1>1, <1>2, SetInduction
<1> QED
  BY <1>3

(* A power of two divided by another.                                        *)
LEMMA Pow2Div ==
  ASSUME NEW i \in Nat, NEW k \in Nat
  PROVE  /\ i <= k => Pow2[k] \div Pow2[i] = Pow2[k - i]
         /\ k < i => Pow2[k] \div Pow2[i] = 0
<1>1. /\ Pow2[i] \in Nat /\ Pow2[i] > 0 /\ Pow2[k] \in Nat
  BY Pow2Grows
<1>2. ASSUME i <= k PROVE Pow2[k] \div Pow2[i] = Pow2[k - i]
  <2>1. k - i \in Nat /\ i + (k - i) = k
    BY <1>2
  <2>2. Pow2[i + (k - i)] = Pow2[i] * Pow2[k - i]
    BY <2>1, Pow2Plus
  <2>3. Pow2[k - i] \in Int /\ Pow2[i] \in Nat \ {0}
    BY <1>1, <2>1, Pow2Steps
  <2>4. (Pow2[i] * Pow2[k - i]) \div Pow2[i] = Pow2[k - i]
    BY <2>3, ProductDiv
  <2> QED
    BY <2>1, <2>2, <2>4
<1>3. ASSUME k < i PROVE Pow2[k] \div Pow2[i] = 0
  <2>1. Pow2[k] < Pow2[i]
    BY <1>3, Pow2Rises
  <2>2. Pow2[i] \in Nat \ {0} /\ Pow2[k] \in 0 .. Pow2[i] - 1
    BY <1>1, <2>1
  <2>3. (Pow2[i] * 0 + Pow2[k]) \div Pow2[i] = 0
    BY <2>2, DivModUnique
  <2> QED
    BY <1>1, <2>3
<1> QED
  BY <1>2, <1>3

(* The least exponent whose power is no less than n (util.h, log2Up).        *)
IsLog2Up(n, a) == Pow2[a] >= n /\ (a = 0 \/ Pow2[a - 1] < n)

(* log2Up finds the least exponent.                                          *)
LEMMA Log2UpIs ==
  ASSUME NEW n \in Nat \ {0}
  PROVE  Log2Up(n) \in 0 .. n /\ IsLog2Up(n, Log2Up(n))
<1> DEFINE S == {m \in Nat : Pow2[m] >= n => \E a \in 0 .. m : IsLog2Up(n, a)}
<1>1. 0 \in S
  BY DEF IsLog2Up
<1>2. \A m \in Nat : m \in S => m + 1 \in S
  <2> TAKE m \in Nat
  <2> HAVE m \in S
  <2> SUFFICES ASSUME Pow2[m + 1] >= n PROVE \E a \in 0 .. m + 1 : IsLog2Up(n, a)
    OBVIOUS
  <2>1. CASE Pow2[m] >= n
    BY <2>1
  <2>2. CASE ~(Pow2[m] >= n)
    <3>1. Pow2[m] \in Nat
      BY Pow2Steps
    <3>2. IsLog2Up(n, m + 1)
      BY <2>2, <3>1 DEF IsLog2Up
    <3> QED
      BY <3>2
  <2> QED
    BY <2>1, <2>2
<1>3. Nat \subseteq S
  <2> HIDE DEF S
  <2> QED
    BY <1>1, <1>2, SetInduction
<1>4. \E a \in 0 .. n : IsLog2Up(n, a)
  BY <1>3, Pow2Grows
<1> QED
  BY <1>4 DEF Log2Up, IsLog2Up

(* log2Up of a power of two is its exponent.                                 *)
LEMMA Log2UpOfPow2 ==
  ASSUME NEW k \in Nat
  PROVE  Log2Up(Pow2[k]) = k
<1> DEFINE a == Log2Up(Pow2[k])
<1>1. Pow2[k] \in Nat \ {0}
  BY Pow2Grows
<1>2. a \in Nat /\ IsLog2Up(Pow2[k], a)
  BY <1>1, Log2UpIs
<1> HIDE DEF a
<1>3. ~(a < k)
  <2>1. Pow2[a] >= Pow2[k] /\ Pow2[a] \in Nat
    BY <1>2, Pow2Steps DEF IsLog2Up
  <2> QED
    BY <1>1, <1>2, <2>1, Pow2Rises
<1>4. ~(k < a)
  <2> SUFFICES ASSUME k < a PROVE FALSE
    OBVIOUS
  <2>1. a - 1 \in Nat /\ Pow2[a - 1] < Pow2[k] /\ Pow2[a - 1] \in Nat
    BY <1>2, Pow2Steps DEF IsLog2Up
  <2>2. k < a - 1 => Pow2[k] < Pow2[a - 1]
    BY <2>1, Pow2Rises
  <2>3. k = a - 1 \/ k < a - 1
    BY <1>2
  <2> QED
    BY <1>1, <2>1, <2>2, <2>3
<1> QED
  BY <1>2, <1>3, <1>4 DEF a

(***************************************************************************)
(* The Hilbert curve through 2^k times 2^k tiles, as triples <<x, y, d>>:  *)
(* four copies of the smaller curve, turned as Hilbert::rot does.          *)
(***************************************************************************)
Rx(q) == Bit(q, 2)
Ry(q) == (q + Bit(q, 2)) % 2

(* A cell of the smaller curve in a quadrant of the larger one.              *)
InQuadrant(s, p, q) ==
  LET r == Rot(s, p[1], p[2], Rx(q), Ry(q))
  IN <<r[1] + s * Rx(q), r[2] + s * Ry(q), s * s * q + p[3]>>

Fourfold(c, s) == {InQuadrant(s, pq[1], pq[2]) : pq \in c \X (0 .. 3)}

Curve[k \in Nat] == IF k = 0 THEN {<<0, 0, 0>>} ELSE Fourfold(Curve[k - 1], Pow2[k - 1])

(* A curve of side s: every tile has one place along it, and every place a   *)
(* tile.                                                                     *)
Cells(s) == (0 .. s - 1) \X (0 .. s - 1) \X (0 .. s * s - 1)

IsCurve(c, s) ==
  /\ c \subseteq Cells(s)
  /\ \A x \in 0 .. s - 1, y \in 0 .. s - 1 : \E d \in 0 .. s * s - 1 : <<x, y, d>> \in c
  /\ \A d \in 0 .. s * s - 1 : \E x \in 0 .. s - 1, y \in 0 .. s - 1 : <<x, y, d>> \in c
  /\ \A p \in c, r \in c : p[3] = r[3] <=> p[1] = r[1] /\ p[2] = r[2]

(* Quadrants and their two bits.                                             *)
LEMMA QuadrantsNumbered ==
  /\ \A q \in 0 .. 3 : Rx(q) \in 0 .. 1 /\ Ry(q) \in 0 .. 1 /\ Quadrant(Rx(q), Ry(q)) = q
  /\ \A rx \in 0 .. 1, ry \in 0 .. 1 :
       /\ Quadrant(rx, ry) \in 0 .. 3
       /\ Rx(Quadrant(rx, ry)) = rx /\ Ry(Quadrant(rx, ry)) = ry
BY DEF Rx, Ry, Bit, Quadrant

(* Turned twice, a tile is where it was.                                     *)
RotBack(s, x, y, rx, ry) ==
  /\ Rot(s, x, y, rx, ry) \in (0 .. s - 1) \X (0 .. s - 1)
  /\ Rot(s, Rot(s, x, y, rx, ry)[1], Rot(s, x, y, rx, ry)[2], rx, ry) = <<x, y>>

(* Hilbert::rot stays in the square and undoes itself.                       *)
LEMMA RotTwice ==
  ASSUME NEW s \in Nat, NEW x \in 0 .. s - 1, NEW y \in 0 .. s - 1,
         NEW rx \in 0 .. 1, NEW ry \in 0 .. 1
  PROVE  RotBack(s, x, y, rx, ry)
<1> USE DEF RotBack
<1>1. CASE ry = 1
  BY <1>1 DEF Rot
<1>2. CASE ry # 1 /\ rx = 1
  <2>1. /\ s - 1 - y \in 0 .. s - 1 /\ s - 1 - x \in 0 .. s - 1
        /\ s - 1 - (s - 1 - x) = x /\ s - 1 - (s - 1 - y) = y
    OBVIOUS
  <2>2. Rot(s, x, y, rx, ry) = <<s - 1 - y, s - 1 - x>>
    BY <1>2 DEF Rot
  <2>3. Rot(s, s - 1 - y, s - 1 - x, rx, ry) = <<s - 1 - (s - 1 - x), s - 1 - (s - 1 - y)>>
    BY <1>2 DEF Rot
  <2> QED
    BY <2>1, <2>2, <2>3
<1>3. CASE ry # 1 /\ rx # 1
  BY <1>3 DEF Rot
<1> QED
  BY <1>1, <1>2, <1>3

(* One cell of a quadrant, from the cell of the smaller curve.               *)
Turned(s, x, y, d, q, u, v) ==
  /\ u \in 0 .. s - 1 /\ v \in 0 .. s - 1
  /\ Rot(s, x, y, Rx(q), Ry(q)) = <<u, v>>
  /\ Rot(s, u, v, Rx(q), Ry(q)) = <<x, y>>
  /\ InQuadrant(s, <<x, y, d>>, q) = <<u + s * Rx(q), v + s * Ry(q), s * s * q + d>>

(* Every cell of the smaller curve has its place in each quadrant.           *)
LEMMA InQuadrantIs ==
  ASSUME NEW s \in Nat, NEW x \in 0 .. s - 1, NEW y \in 0 .. s - 1,
         NEW d \in Nat, NEW q \in 0 .. 3
  PROVE  \E u, v : Turned(s, x, y, d, q, u, v)
<1>1. PICK rx \in 0 .. 1, ry \in 0 .. 1 : rx = Rx(q) /\ ry = Ry(q)
  BY QuadrantsNumbered
<1>2. RotBack(s, x, y, rx, ry)
  BY RotTwice
<1>3. PICK u \in 0 .. s - 1, v \in 0 .. s - 1 : Rot(s, x, y, rx, ry) = <<u, v>>
  BY <1>2 DEF RotBack
<1>4. Rot(s, u, v, rx, ry) = <<x, y>>
  BY <1>2, <1>3 DEF RotBack
<1>5. InQuadrant(s, <<x, y, d>>, q) = <<u + s * rx, v + s * ry, s * s * q + d>>
  BY <1>1, <1>3 DEF InQuadrant
<1> QED
  BY <1>1, <1>3, <1>4, <1>5 DEF Turned

(* Two numbers with the same value have the same digits.                     *)
LEMMA DigitsUnique ==
  ASSUME NEW b \in Nat \ {0}, NEW q \in Int, NEW r \in 0 .. b - 1,
         NEW p \in Int, NEW t \in 0 .. b - 1, b * q + r = b * p + t
  PROVE  q = p /\ r = t
<1>1. (b * q + r) \div b = q /\ (b * q + r) % b = r
  BY DivModUnique
<1>2. (b * p + t) \div b = p /\ (b * p + t) % b = t
  BY DivModUnique
<1> QED
  BY <1>1, <1>2

(* Where a cell <<x, y, d>> of the smaller curve comes to lie in quadrant q.  *)
Lies(c, s, p, x, y, d, q, u, v) ==
  /\ <<x, y, d>> \in c
  /\ x \in 0 .. s - 1 /\ y \in 0 .. s - 1 /\ d \in 0 .. s * s - 1 /\ q \in 0 .. 3
  /\ u \in 0 .. s - 1 /\ v \in 0 .. s - 1
  /\ Rot(s, x, y, Rx(q), Ry(q)) = <<u, v>>
  /\ Rot(s, u, v, Rx(q), Ry(q)) = <<x, y>>
  /\ p = <<u + s * Rx(q), v + s * Ry(q), s * s * q + d>>

(* The cells of the larger curve are those of the smaller one, in each       *)
(* quadrant.                                                                 *)
LEMMA FourfoldCells ==
  ASSUME NEW s \in Nat \ {0}, NEW c, IsCurve(c, s)
  PROVE  /\ \A p \in Fourfold(c, s) : \E x, y, d, q, u, v : Lies(c, s, p, x, y, d, q, u, v)
         /\ \A x, y, d, q : <<x, y, d>> \in c /\ q \in 0 .. 3 =>
              \E u, v : /\ Rot(s, x, y, Rx(q), Ry(q)) = <<u, v>>
                       /\ <<u + s * Rx(q), v + s * Ry(q), s * s * q + d>> \in Fourfold(c, s)
<1>1. \A x, y, d : <<x, y, d>> \in c =>
        x \in 0 .. s - 1 /\ y \in 0 .. s - 1 /\ d \in 0 .. s * s - 1
  BY DEF IsCurve, Cells
<1>2. s * s \in Nat
  OBVIOUS
<1>3. \A p \in Fourfold(c, s) : \E x, y, d, q, u, v : Lies(c, s, p, x, y, d, q, u, v)
  <2> TAKE p \in Fourfold(c, s)
  <2>1. PICK pq \in c \X (0 .. 3) : p = InQuadrant(s, pq[1], pq[2])
    BY DEF Fourfold
  <2>2. PICK x, y, d : pq[1] = <<x, y, d>>
    BY DEF IsCurve, Cells
  <2>3. PICK q \in 0 .. 3 : q = pq[2]
    OBVIOUS
  <2>4. <<x, y, d>> \in c /\ p = InQuadrant(s, <<x, y, d>>, q)
    BY <2>1, <2>2, <2>3
  <2>5. x \in 0 .. s - 1 /\ y \in 0 .. s - 1 /\ d \in 0 .. s * s - 1 /\ d \in Nat
    BY <1>1, <1>2, <2>4
  <2>6. PICK u, v : Turned(s, x, y, d, q, u, v)
    BY <2>5, InQuadrantIs
  <2>7. Lies(c, s, p, x, y, d, q, u, v)
    BY <2>4, <2>5, <2>6 DEF Lies, Turned
  <2> QED
    BY <2>7
<1>4. ASSUME NEW x, NEW y, NEW d, NEW q, <<x, y, d>> \in c, q \in 0 .. 3
      PROVE  \E u, v : /\ Rot(s, x, y, Rx(q), Ry(q)) = <<u, v>>
                      /\ <<u + s * Rx(q), v + s * Ry(q), s * s * q + d>> \in Fourfold(c, s)
  <2>1. x \in 0 .. s - 1 /\ y \in 0 .. s - 1 /\ d \in 0 .. s * s - 1 /\ d \in Nat
    BY <1>1, <1>2, <1>4
  <2>2. PICK u, v : Turned(s, x, y, d, q, u, v)
    BY <1>4, <2>1, InQuadrantIs
  <2>3. InQuadrant(s, <<x, y, d>>, q) \in Fourfold(c, s)
    <3>1. <<<<x, y, d>>, q>> \in c \X (0 .. 3)
      BY <1>4
    <3> QED
      BY <3>1 DEF Fourfold
  <2> QED
    BY <2>2, <2>3 DEF Turned
<1> QED
  BY <1>3, <1>4

(* The larger curve passes each cell once if the smaller one does.           *)
LEMMA FourfoldOnce ==
  ASSUME NEW s \in Nat \ {0}, NEW c, IsCurve(c, s),
         NEW p \in Fourfold(c, s), NEW r \in Fourfold(c, s)
  PROVE  p[3] = r[3] <=> p[1] = r[1] /\ p[2] = r[2]
<1>1. PICK x, y, d, q, u, v : Lies(c, s, p, x, y, d, q, u, v)
  BY FourfoldCells
<1>2. PICK x2, y2, d2, q2, u2, v2 : Lies(c, s, r, x2, y2, d2, q2, u2, v2)
  BY FourfoldCells
<1>3. PICK m \in Nat \ {0} : m = s * s
  OBVIOUS
<1>4. PICK rx \in 0 .. 1, ry \in 0 .. 1 :
        rx = Rx(q) /\ ry = Ry(q) /\ q = Quadrant(rx, ry)
  BY <1>1, QuadrantsNumbered DEF Lies
<1>5. PICK rx2 \in 0 .. 1, ry2 \in 0 .. 1 :
        rx2 = Rx(q2) /\ ry2 = Ry(q2) /\ q2 = Quadrant(rx2, ry2)
  BY <1>2, QuadrantsNumbered DEF Lies
<1>6. /\ <<x, y, d>> \in c /\ d \in 0 .. m - 1 /\ q \in Int
      /\ u \in 0 .. s - 1 /\ v \in 0 .. s - 1
      /\ Rot(s, x, y, rx, ry) = <<u, v>> /\ Rot(s, u, v, rx, ry) = <<x, y>>
      /\ p[1] = u + s * rx /\ p[2] = v + s * ry /\ p[3] = m * q + d
  BY <1>1, <1>3, <1>4 DEF Lies
<1>7. /\ <<x2, y2, d2>> \in c /\ d2 \in 0 .. m - 1 /\ q2 \in Int
      /\ u2 \in 0 .. s - 1 /\ v2 \in 0 .. s - 1
      /\ Rot(s, x2, y2, rx2, ry2) = <<u2, v2>> /\ Rot(s, u2, v2, rx2, ry2) = <<x2, y2>>
      /\ r[1] = u2 + s * rx2 /\ r[2] = v2 + s * ry2 /\ r[3] = m * q2 + d2
  BY <1>2, <1>3, <1>5 DEF Lies
<1>8. d = d2 <=> x = x2 /\ y = y2
  <2>1. <<x, y, d>>[3] = <<x2, y2, d2>>[3] <=>
          <<x, y, d>>[1] = <<x2, y2, d2>>[1] /\ <<x, y, d>>[2] = <<x2, y2, d2>>[2]
    BY <1>6, <1>7 DEF IsCurve
  <2> QED
    BY <2>1
<1>9. ASSUME p[3] = r[3] PROVE p[1] = r[1] /\ p[2] = r[2]
  <2>0. m * q + d = m * q2 + d2
    BY <1>6, <1>7, <1>9
  <2>1. q = q2 /\ d = d2
    BY <1>6, <1>7, <2>0, DigitsUnique
  <2>2. rx = rx2 /\ ry = ry2 /\ x = x2 /\ y = y2
    BY <1>4, <1>5, <1>8, <2>1
  <2>3. u = u2 /\ v = v2
    BY <1>6, <1>7, <2>2
  <2> QED
    BY <1>6, <1>7, <2>2, <2>3
<1>10. ASSUME p[1] = r[1], p[2] = r[2] PROVE p[3] = r[3]
  <2>1. s * rx + u = s * rx2 + u2 /\ s * ry + v = s * ry2 + v2
    BY <1>6, <1>7, <1>10
  <2>2. rx = rx2 /\ u = u2
    BY <1>6, <1>7, <2>1, DigitsUnique
  <2>3. ry = ry2 /\ v = v2
    BY <1>6, <1>7, <2>1, DigitsUnique
  <2>4. x = x2 /\ y = y2
    BY <1>6, <1>7, <2>2, <2>3
  <2>5. d = d2 /\ q = q2
    BY <1>4, <1>5, <1>8, <2>2, <2>3, <2>4
  <2> QED
    BY <1>6, <1>7, <2>5
<1> QED
  BY <1>9, <1>10

(* Every cell of the larger square, and every place along the larger curve,  *)
(* is in one quadrant.                                                       *)
LEMMA FourfoldTotal ==
  ASSUME NEW s \in Nat \ {0}, NEW c, IsCurve(c, s)
  PROVE  /\ \A x \in 0 .. 2 * s - 1, y \in 0 .. 2 * s - 1 :
              \E d : <<x, y, d>> \in Fourfold(c, s)
         /\ \A d \in 0 .. 4 * (s * s) - 1 : \E x, y : <<x, y, d>> \in Fourfold(c, s)
<1>1. ASSUME NEW x \in 0 .. 2 * s - 1, NEW y \in 0 .. 2 * s - 1
      PROVE  \E d : <<x, y, d>> \in Fourfold(c, s)
  <2>1. PICK rx \in 0 .. 1, u \in 0 .. s - 1 : x = u + s * rx
    <3>1. CASE x < s
      <4>1. x \in 0 .. s - 1 /\ x = x + s * 0
        BY <3>1
      <4> QED
        BY <4>1
    <3>2. CASE ~(x < s)
      <4>1. x - s \in 0 .. s - 1 /\ x = (x - s) + s * 1
        BY <3>2
      <4> QED
        BY <4>1
    <3> QED
      BY <3>1, <3>2
  <2>2. PICK ry \in 0 .. 1, v \in 0 .. s - 1 : y = v + s * ry
    <3>1. CASE y < s
      <4>1. y \in 0 .. s - 1 /\ y = y + s * 0
        BY <3>1
      <4> QED
        BY <4>1
    <3>2. CASE ~(y < s)
      <4>1. y - s \in 0 .. s - 1 /\ y = (y - s) + s * 1
        BY <3>2
      <4> QED
        BY <4>1
    <3> QED
      BY <3>1, <3>2
  <2>3. PICK q \in 0 .. 3 : rx = Rx(q) /\ ry = Ry(q)
    BY QuadrantsNumbered
  <2>4. RotBack(s, u, v, rx, ry)
    BY RotTwice
  <2>5. PICK a \in 0 .. s - 1, b \in 0 .. s - 1 : Rot(s, a, b, rx, ry) = <<u, v>>
    BY <2>4 DEF RotBack
  <2>6. PICK d : <<a, b, d>> \in c
    BY DEF IsCurve
  <2>7. PICK u2, v2 : /\ Rot(s, a, b, Rx(q), Ry(q)) = <<u2, v2>>
                      /\ <<u2 + s * Rx(q), v2 + s * Ry(q), s * s * q + d>> \in Fourfold(c, s)
    BY <2>6, FourfoldCells
  <2>8. u2 = u /\ v2 = v
    BY <2>3, <2>5, <2>7
  <2>9. <<x, y, s * s * q + d>> \in Fourfold(c, s)
    BY <2>1, <2>2, <2>3, <2>7, <2>8
  <2> QED
    BY <2>9
<1>2. ASSUME NEW d \in 0 .. 4 * (s * s) - 1 PROVE \E x, y : <<x, y, d>> \in Fourfold(c, s)
  <2>1. PICK m \in Nat \ {0} : m = s * s
    OBVIOUS
  <2>2. PICK q \in 0 .. 3, e \in 0 .. m - 1 : d = m * q + e
    <3>1. d \in 0 .. 4 * m - 1
      BY <2>1
    <3>2. CASE d < m
      <4>1. d \in 0 .. m - 1 /\ d = m * 0 + d
        BY <3>1, <3>2
      <4> QED
        BY <4>1
    <3>3. CASE ~(d < m) /\ d < 2 * m
      <4>1. d - m \in 0 .. m - 1 /\ d = m * 1 + (d - m)
        BY <3>1, <3>3
      <4> QED
        BY <4>1
    <3>4. CASE ~(d < 2 * m) /\ d < 3 * m
      <4>1. d - 2 * m \in 0 .. m - 1 /\ d = m * 2 + (d - 2 * m)
        BY <3>1, <3>4
      <4> QED
        BY <4>1
    <3>5. CASE ~(d < 3 * m)
      <4>1. d - 3 * m \in 0 .. m - 1 /\ d = m * 3 + (d - 3 * m)
        BY <3>1, <3>5
      <4> QED
        BY <4>1
    <3> QED
      BY <3>2, <3>3, <3>4, <3>5
  <2>3. PICK x, y : <<x, y, e>> \in c
    BY <2>1 DEF IsCurve
  <2>4. PICK u, v : <<u + s * Rx(q), v + s * Ry(q), s * s * q + e>> \in Fourfold(c, s)
    BY <2>3, FourfoldCells
  <2>5. s * s * q + e = d
    BY <2>1, <2>2
  <2> QED
    BY <2>4, <2>5
<1> QED
  BY <1>1, <1>2

(* Four turned copies of a curve make the larger one.                        *)
LEMMA FourfoldIsCurve ==
  ASSUME NEW s \in Nat \ {0}, NEW c, IsCurve(c, s)
  PROVE  IsCurve(Fourfold(c, s), 2 * s)
<1>1. PICK m \in Nat \ {0} : m = s * s
  OBVIOUS
<1>2. (2 * s) * (2 * s) = 4 * m
  BY <1>1
<1>3. ASSUME NEW p \in Fourfold(c, s) PROVE p \in Cells(2 * s)
  <2>1. PICK x, y, d, q, u, v : Lies(c, s, p, x, y, d, q, u, v)
    BY FourfoldCells
  <2>2. PICK rx \in 0 .. 1, ry \in 0 .. 1 : rx = Rx(q) /\ ry = Ry(q)
    BY <2>1, QuadrantsNumbered DEF Lies
  <2>3. /\ p = <<u + s * rx, v + s * ry, m * q + d>> /\ q \in 0 .. 3
        /\ u \in 0 .. s - 1 /\ v \in 0 .. s - 1 /\ d \in 0 .. m - 1
    BY <1>1, <2>1, <2>2 DEF Lies
  <2>4. u + s * rx \in 0 .. 2 * s - 1 /\ v + s * ry \in 0 .. 2 * s - 1
    BY <2>3
  <2>5. m * q + d \in 0 .. 4 * m - 1
    <3>1. q = 0 \/ q = 1 \/ q = 2 \/ q = 3
      BY <2>3
    <3> QED
      BY <2>3, <3>1
  <2> QED
    BY <1>2, <2>3, <2>4, <2>5 DEF Cells
<1>4. \A x \in 0 .. 2 * s - 1, y \in 0 .. 2 * s - 1 :
        \E d \in 0 .. 4 * m - 1 : <<x, y, d>> \in Fourfold(c, s)
  <2> TAKE x \in 0 .. 2 * s - 1, y \in 0 .. 2 * s - 1
  <2>1. PICK d : <<x, y, d>> \in Fourfold(c, s)
    BY FourfoldTotal
  <2>2. d \in 0 .. 4 * m - 1
    BY <1>2, <1>3, <2>1 DEF Cells
  <2> QED
    BY <2>1, <2>2
<1>5. \A d \in 0 .. 4 * m - 1 : \E x \in 0 .. 2 * s - 1, y \in 0 .. 2 * s - 1 :
        <<x, y, d>> \in Fourfold(c, s)
  <2> TAKE d \in 0 .. 4 * m - 1
  <2>1. PICK x, y : <<x, y, d>> \in Fourfold(c, s)
    BY <1>1, FourfoldTotal
  <2>2. x \in 0 .. 2 * s - 1 /\ y \in 0 .. 2 * s - 1
    BY <1>3, <2>1 DEF Cells
  <2> QED
    BY <2>1, <2>2
<1>6. \A p \in Fourfold(c, s), r \in Fourfold(c, s) : p[3] = r[3] <=> p[1] = r[1] /\ p[2] = r[2]
  BY FourfoldOnce
<1>7. PICK t \in Nat : t = 2 * s
  OBVIOUS
<1>8. t * t = 4 * m
  BY <1>2, <1>7
<1>9. IsCurve(Fourfold(c, s), t)
  <2>1. /\ Fourfold(c, s) \subseteq Cells(t)
        /\ \A x \in 0 .. t - 1, y \in 0 .. t - 1 :
             \E d \in 0 .. 4 * m - 1 : <<x, y, d>> \in Fourfold(c, s)
        /\ \A d \in 0 .. 4 * m - 1 : \E x \in 0 .. t - 1, y \in 0 .. t - 1 :
             <<x, y, d>> \in Fourfold(c, s)
    BY <1>3, <1>4, <1>5, <1>7
  <2> QED
    BY <1>6, <1>8, <2>1 DEF IsCurve
<1> QED
  BY <1>7, <1>9

(* The curves, one after the other.                                          *)
LEMMA CurveSteps ==
  /\ Curve[0] = {<<0, 0, 0>>}
  /\ \A k \in Nat : Curve[k + 1] = Fourfold(Curve[k], Pow2[k])
<1> DEFINE T == SUBSET (Int \X Int \X Int)
           step == [p \in Nat \X T |-> Fourfold(p[2], Pow2[p[1]])]
<1>1. step \in [Nat \X T -> T]
  <2> SUFFICES ASSUME NEW k \in Nat, NEW c \in T, NEW pq \in c \X (0 .. 3)
               PROVE  InQuadrant(Pow2[k], pq[1], pq[2]) \in Int \X Int \X Int
    BY DEF Fourfold
  <2>1. PICK q \in 0 .. 3, x \in Int, y \in Int, d \in Int : pq = <<<<x, y, d>>, q>>
    OBVIOUS
  <2>2. PICK s \in Nat : s = Pow2[k]
    BY Pow2Steps
  <2>3. PICK rx \in 0 .. 1, ry \in 0 .. 1 : rx = Rx(q) /\ ry = Ry(q)
    BY QuadrantsNumbered
  <2>4. PICK u \in Int, v \in Int : Rot(s, x, y, rx, ry) = <<u, v>>
    BY DEF Rot
  <2>5. InQuadrant(s, <<x, y, d>>, q) = <<u + s * rx, v + s * ry, s * s * q + d>>
    BY <2>3, <2>4 DEF InQuadrant
  <2>6. s * s * q + d \in Int /\ u + s * rx \in Int /\ v + s * ry \in Int
    <3>1. s * s \in Int
      OBVIOUS
    <3>2. s * s * q \in Int
      BY <3>1
    <3> QED
      BY <3>2
  <2>7. pq[1] = <<x, y, d>> /\ pq[2] = q
    BY <2>1
  <2> HIDE DEF T
  <2> QED
    BY <2>2, <2>5, <2>6, <2>7
<1>2. {<<0, 0, 0>>} \in T
  OBVIOUS
<1>3. PICK f : IsRecursion(f, T, {<<0, 0, 0>>}, step)
  <2> HIDE DEF step, T
  <2> QED
    BY <1>1, <1>2, NatRecursion
<1>4. /\ f \in [Nat -> T] /\ f[0] = {<<0, 0, 0>>}
      /\ \A n \in Nat : f[n + 1] = Fourfold(f[n], Pow2[n])
  BY <1>3 DEF IsRecursion
<1>5. f = [k \in Nat |-> IF k = 0 THEN {<<0, 0, 0>>} ELSE Fourfold(f[k - 1], Pow2[k - 1])]
  <2>1. ASSUME NEW k \in Nat, k # 0 PROVE f[k] = Fourfold(f[k - 1], Pow2[k - 1])
    <3>1. k - 1 \in Nat /\ (k - 1) + 1 = k
      BY <2>1
    <3>2. f[(k - 1) + 1] = Fourfold(f[k - 1], Pow2[k - 1])
      BY <1>4, <3>1
    <3> QED
      BY <3>1, <3>2
  <2> QED
    BY <1>4, <2>1
<1>6. Curve = [k \in Nat |->
                IF k = 0 THEN {<<0, 0, 0>>} ELSE Fourfold(Curve[k - 1], Pow2[k - 1])]
  BY <1>5 DEF Curve
<1>7. ASSUME NEW k \in Nat PROVE Curve[k + 1] = Fourfold(Curve[k], Pow2[k])
  <2>1. k + 1 \in Nat /\ k + 1 # 0 /\ (k + 1) - 1 = k
    OBVIOUS
  <2>2. Curve[k + 1] = Fourfold(Curve[(k + 1) - 1], Pow2[(k + 1) - 1])
    BY <1>6, <2>1
  <2> QED
    BY <2>1, <2>2
<1>8. Curve[0] = {<<0, 0, 0>>}
  BY <1>6
<1> QED
  BY <1>7, <1>8

(* Each power of two has its curve, which passes each tile once.             *)
LEMMA CurveIsCurve ==
  \A k \in Nat : IsCurve(Curve[k], Pow2[k])
<1> DEFINE S == {k \in Nat : IsCurve(Curve[k], Pow2[k])}
<1>1. 0 \in S
  <2>1. IsCurve({<<0, 0, 0>>}, 1)
    BY DEF IsCurve, Cells
  <2> QED
    BY <2>1, CurveSteps, Pow2Steps
<1>2. \A k \in Nat : k \in S => k + 1 \in S
  <2> TAKE k \in Nat
  <2> HAVE k \in S
  <2>1. Pow2[k] \in Nat \ {0} /\ Pow2[k + 1] = 2 * Pow2[k]
    BY Pow2Grows, Pow2Steps
  <2>2. IsCurve(Fourfold(Curve[k], Pow2[k]), 2 * Pow2[k])
    BY <2>1, FourfoldIsCurve
  <2> QED
    BY <2>1, <2>2, CurveSteps
<1>3. Nat \subseteq S
  <2> HIDE DEF S
  <2> QED
    BY <1>1, <1>2, SetInduction
<1> QED
  BY <1>3

(****************************************************************************)
(* The folds of Hilbert::xy2d and Hilbert::d2xy.                             *)
(****************************************************************************)
(* One round of Hilbert::xy2d, its sizes, and the fold over them.            *)
XTurn(w, size) ==
  LET rx == Bit(w.x, size)
      ry == Bit(w.y, size)
      p == Rot(size, w.x, w.y, rx, ry)
  IN [x |-> p[1], y |-> p[2], d |-> w.d + size * size * Quadrant(rx, ry)]
XSizes(n) == [i \in 1 .. Log2Up(n) |-> n \div Pow2[i]]

XRun(n, x0, y0) ==
  CHOOSE iter :
    iter = [s \in SUBSET DOMAIN XSizes(n) |->
              IF s = {} THEN [x |-> x0, y |-> y0, d |-> 0]
              ELSE XTurn(iter[s \ {Max(s)}], XSizes(n)[Max(s)])]

(* Hilbert::xy2d is the last value of that fold.                             *)
LEMMA XY2DIsRun ==
  ASSUME NEW n, NEW x0, NEW y0
  PROVE  HilbertXY2D(n, x0, y0) = XRun(n, x0, y0)[DOMAIN XSizes(n)].d
BY DEF HilbertXY2D, FoldLeft, MapThenFoldSet, XRun, XTurn, XSizes

(* One round of Hilbert::d2xy, its sizes, and the fold over them.            *)
DTurn(w, size) ==
  LET rx == Bit(w.t, 2)
      ry == (w.t + rx) % 2
      p == Rot(size, w.x, w.y, rx, ry)
  IN [x |-> p[1] + size * rx, y |-> p[2] + size * ry, t |-> w.t \div 4]
DSizes(n) == [i \in 1 .. Log2Up(n) |-> Pow2[i - 1]]

DRun(n, d) ==
  CHOOSE iter :
    iter = [s \in SUBSET DOMAIN DSizes(n) |->
              IF s = {} THEN [x |-> 0, y |-> 0, t |-> d]
              ELSE DTurn(iter[s \ {Max(s)}], DSizes(n)[Max(s)])]

(* Hilbert::d2xy is the last value of that fold.                             *)
LEMMA D2XYIsRun ==
  ASSUME NEW n, NEW d
  PROVE  HilbertD2XY(n, d) = <<DRun(n, d)[DOMAIN DSizes(n)].x, DRun(n, d)[DOMAIN DSizes(n)].y>>
BY DEF HilbertD2XY, FoldLeft, MapThenFoldSet, DRun, DTurn, DSizes

(* What the folds come to, one size after the other.                         *)
XRunOf(w, K, x0, y0) ==
  /\ DOMAIN w = 0 .. K /\ w[0] = [x |-> x0, y |-> y0, d |-> 0]
  /\ \A i \in 1 .. K : w[i] = XTurn(w[i - 1], Pow2[K - i])

(* What the rounds of xy2d work on.                                          *)
XPlaces == [x : Int, y : Int, d : Int]

(* A round of xy2d keeps numbers numbers.                                    *)
LEMMA XTurnType ==
  ASSUME NEW w \in XPlaces, NEW size \in Nat \ {0}
  PROVE  XTurn(w, size) \in XPlaces
<1>1. PICK x \in Int, y \in Int, d \in Int : w = [x |-> x, y |-> y, d |-> d]
  BY DEF XPlaces
<1>2. PICK rx \in 0 .. 1, ry \in 0 .. 1 : rx = Bit(x, size) /\ ry = Bit(y, size)
  <2>1. \A a \in Int : Bit(a, size) \in 0 .. 1
    <3> TAKE a \in Int
    <3>1. a \div size \in Int
      BY DivMod
    <3> QED
      BY <3>1 DEF Bit
  <2> QED
    BY <2>1
<1>3. PICK u \in Int, v \in Int : Rot(size, x, y, rx, ry) = <<u, v>>
  BY DEF Rot
<1>4. d + size * size * Quadrant(rx, ry) \in Int
  <2>1. Quadrant(rx, ry) \in Int /\ size * size \in Int
    BY DEF Quadrant
  <2> QED
    BY <2>1
<1>5. XTurn(w, size) = [x |-> u, y |-> v, d |-> d + size * size * Quadrant(rx, ry)]
  BY <1>1, <1>2, <1>3 DEF XTurn
<1> QED
  BY <1>4, <1>5 DEF XPlaces

(* xy2d on a square of side 2^K is K rounds, the largest size first.         *)
LEMMA XRunIs ==
  ASSUME NEW K \in Nat, NEW x0 \in Int, NEW y0 \in Int
  PROVE  \E w : XRunOf(w, K, x0, y0) /\ HilbertXY2D(Pow2[K], x0, y0) = w[K].d
<1> DEFINE n == Pow2[K]
           U == 1 .. K
           base == [x |-> x0, y |-> y0, d |-> 0]
           step == [p \in U \X XPlaces |-> XTurn(p[2], Pow2[K - p[1]])]
           Runs(f) == f = [s \in SUBSET U |->
                             IF s = {} THEN base
                             ELSE XTurn(f[s \ {Max(s)}], Pow2[K - Max(s)])]
<1>1. \A i \in U : Pow2[K - i] \in Nat \ {0} /\ n \div Pow2[i] = Pow2[K - i]
  <2> TAKE i \in U
  <2>1. i \in Nat /\ i <= K /\ K - i \in Nat
    OBVIOUS
  <2> QED
    BY <2>1, Pow2Div, Pow2Grows
<1>2. XSizes(n) = [i \in U |-> Pow2[K - i]]
  BY <1>1, Log2UpOfPow2 DEF XSizes
<1>3. step \in [U \X XPlaces -> XPlaces]
  <2> SUFFICES ASSUME NEW p \in U \X XPlaces PROVE XTurn(p[2], Pow2[K - p[1]]) \in XPlaces
    OBVIOUS
  <2> QED
    BY <1>1, XTurnType
<1>4. base \in XPlaces
  BY DEF XPlaces
<1>5. PICK f : IsLeftFold(f, K, XPlaces, base, step)
  <2> HIDE DEF step, base
  <2> QED
    BY <1>3, <1>4, LeftFoldExists
<1>6. \A s \in SUBSET U : s # {} => Max(s) \in U /\ s \ {Max(s)} \in SUBSET U
  BY MaxIn
<1>7. Runs(f)
  <2>1. ASSUME NEW s \in SUBSET U, s # {}
        PROVE  f[s] = XTurn(f[s \ {Max(s)}], Pow2[K - Max(s)])
    <3>1. PICK i \in U, r \in XPlaces : i = Max(s) /\ r = f[s \ {Max(s)}]
      BY <1>5, <1>6, <2>1 DEF IsLeftFold
    <3>2. step[<<i, r>>] = XTurn(r, Pow2[K - i])
      OBVIOUS
    <3> HIDE DEF step
    <3> QED
      BY <1>5, <2>1, <3>1, <3>2 DEF IsLeftFold
  <2> HIDE DEF step, base
  <2> QED
    BY <1>5, <2>1 DEF IsLeftFold
<1> DEFINE r == XRun(n, x0, y0)
<1>8. DOMAIN XSizes(n) = U /\ \A s \in SUBSET U : s # {} => XSizes(n)[Max(s)] = Pow2[K - Max(s)]
  BY <1>2, <1>6
<1>9. Runs(r)
  <2> DEFINE Sized(h) == h = [s \in SUBSET DOMAIN XSizes(n) |->
                 IF s = {} THEN base ELSE XTurn(h[s \ {Max(s)}], XSizes(n)[Max(s)])]
  <2>1. \A h : Sized(h) <=> Runs(h)
    <3> TAKE h
    <3> HIDE DEF n, base
    <3> QED
      BY <1>8
  <2>2. r = CHOOSE h : Sized(h)
    BY DEF XRun
  <2> HIDE DEF Sized, Runs, r
  <2> QED
    BY <1>7, <2>1, <2>2
<1>10. r[1 .. 0] = base /\ \A k \in 1 .. K : r[1 .. k] = XTurn(r[1 .. k - 1], Pow2[K - k])
  <2> HIDE DEF r, base
  <2>1. \A s \in SUBSET U :
          r[s] = IF s = {} THEN base ELSE XTurn(r[s \ {Max(s)}], Pow2[K - Max(s)])
    BY <1>9
  <2> HIDE DEF Runs
  <2>2. r[1 .. 0] = base
    BY <2>1, UpToEach
  <2>3. ASSUME NEW k \in 1 .. K PROVE r[1 .. k] = XTurn(r[1 .. k - 1], Pow2[K - k])
    <3>1. /\ 1 .. k \in SUBSET U /\ 1 .. k # {}
          /\ Max(1 .. k) = k /\ (1 .. k) \ {k} = 1 .. k - 1
      BY UpToEach
    <3>2. r[1 .. k] = XTurn(r[(1 .. k) \ {Max(1 .. k)}], Pow2[K - Max(1 .. k)])
      BY <2>1, <3>1
    <3> QED
      BY <3>1, <3>2
  <2> QED
    BY <2>2, <2>3
<1> DEFINE w == [i \in 0 .. K |-> r[1 .. i]]
<1>11. XRunOf(w, K, x0, y0)
  <2> HIDE DEF r
  <2>1. \A i \in 1 .. K : i \in 0 .. K /\ i - 1 \in 0 .. K
    OBVIOUS
  <2> QED
    BY <1>10, <2>1 DEF XRunOf
<1>12. HilbertXY2D(n, x0, y0) = r[1 .. K].d
  BY <1>8, XY2DIsRun
<1> QED
  <2> HIDE DEF r
  <2> QED
    BY <1>11, <1>12

(* The rounds of d2xy, one size after the other.                             *)
DRunOf(w, K, d) ==
  /\ DOMAIN w = 0 .. K /\ w[0] = [x |-> 0, y |-> 0, t |-> d]
  /\ \A i \in 1 .. K : w[i] = DTurn(w[i - 1], Pow2[i - 1])

(* What the rounds of d2xy work on.                                          *)
DPlaces == [x : Int, y : Int, t : Int]

(* A round of d2xy takes the last two bits and turns the cell.               *)
LEMMA DTurnIs ==
  ASSUME NEW w \in DPlaces, NEW size \in Nat \ {0}
  PROVE  \E q \in 0 .. 3 :
           /\ w.t = 4 * DTurn(w, size).t + q
           /\ DTurn(w, size).x = Rot(size, w.x, w.y, Rx(q), Ry(q))[1] + size * Rx(q)
           /\ DTurn(w, size).y = Rot(size, w.x, w.y, Rx(q), Ry(q))[2] + size * Ry(q)
           /\ DTurn(w, size) \in DPlaces
<1>1. PICK x \in Int, y \in Int, t \in Int : w = [x |-> x, y |-> y, t |-> t]
  BY DEF DPlaces
<1>2. PICK q \in 0 .. 3, e \in Int : q = t % 4 /\ e = t \div 4 /\ t = 4 * e + q
  OBVIOUS
<1>3. (t \div 2) % 2 = (q \div 2) % 2
  BY <1>2
<1>4. PICK rx \in 0 .. 1, ry \in 0 .. 1 : rx = Rx(q) /\ ry = Ry(q)
  BY QuadrantsNumbered
<1>5. Bit(t, 2) = rx
  BY <1>3, <1>4 DEF Bit, Rx
<1>6. (t + rx) % 2 = ry
  <2>1. ry = (q + rx) % 2
    BY <1>4 DEF Rx, Ry
  <2> QED
    BY <1>2, <2>1
<1>7. PICK u \in Int, v \in Int : Rot(size, x, y, rx, ry) = <<u, v>>
  BY DEF Rot
<1>8. DTurn(w, size) = [x |-> u + size * rx, y |-> v + size * ry, t |-> e]
  <2>1. w.x = x /\ w.y = y /\ w.t = t
    BY <1>1
  <2>2. Bit(w.t, 2) = rx /\ (w.t + Bit(w.t, 2)) % 2 = ry /\ w.t \div 4 = e
    BY <1>2, <1>5, <1>6, <2>1
  <2>3. Rot(size, w.x, w.y, Bit(w.t, 2), (w.t + Bit(w.t, 2)) % 2) = <<u, v>>
    BY <1>7, <2>1, <2>2
  <2>4. /\ Rot(size, w.x, w.y, Bit(w.t, 2), (w.t + Bit(w.t, 2)) % 2)[1] = u
        /\ Rot(size, w.x, w.y, Bit(w.t, 2), (w.t + Bit(w.t, 2)) % 2)[2] = v
    BY <2>3
  <2> QED
    BY <2>2, <2>4, Zenon DEF DTurn
<1>9. u + size * rx \in Int /\ v + size * ry \in Int
  OBVIOUS
<1>10. DTurn(w, size) \in DPlaces
  BY <1>8, <1>9 DEF DPlaces
<1>11. /\ w.t = 4 * DTurn(w, size).t + q
       /\ DTurn(w, size).x = Rot(size, w.x, w.y, Rx(q), Ry(q))[1] + size * Rx(q)
       /\ DTurn(w, size).y = Rot(size, w.x, w.y, Rx(q), Ry(q))[2] + size * Ry(q)
  <2>1. w.x = x /\ w.y = y /\ w.t = t
    BY <1>1
  <2>2. Rot(size, w.x, w.y, Rx(q), Ry(q)) = <<u, v>>
    BY <1>4, <1>7, <2>1
  <2>3. /\ Rot(size, w.x, w.y, Rx(q), Ry(q))[1] = u
        /\ Rot(size, w.x, w.y, Rx(q), Ry(q))[2] = v
    BY <2>2
  <2>4. /\ DTurn(w, size).x = u + size * rx
        /\ DTurn(w, size).y = v + size * ry
        /\ DTurn(w, size).t = e
    BY <1>8
  <2>5. w.t = 4 * DTurn(w, size).t + q
    BY <1>2, <2>1, <2>4
  <2> QED
    BY <1>4, <2>3, <2>4, <2>5, Zenon
<1> QED
  BY <1>10, <1>11, Zenon

(* A round of d2xy keeps numbers numbers.                                    *)
LEMMA DTurnType ==
  ASSUME NEW w \in DPlaces, NEW size \in Nat \ {0}
  PROVE  DTurn(w, size) \in DPlaces
BY DTurnIs

(* d2xy on a square of side 2^K is K rounds, the smallest size first.        *)
LEMMA DRunIs ==
  ASSUME NEW K \in Nat, NEW d \in Int
  PROVE  \E w : DRunOf(w, K, d) /\ HilbertD2XY(Pow2[K], d) = <<w[K].x, w[K].y>>
<1> DEFINE n == Pow2[K]
           U == 1 .. K
           base == [x |-> 0, y |-> 0, t |-> d]
           step == [p \in U \X DPlaces |-> DTurn(p[2], Pow2[p[1] - 1])]
           Runs(f) == f = [s \in SUBSET U |->
                             IF s = {} THEN base
                             ELSE DTurn(f[s \ {Max(s)}], Pow2[Max(s) - 1])]
<1>1. \A i \in U : Pow2[i - 1] \in Nat \ {0}
  <2> TAKE i \in U
  <2>1. i - 1 \in Nat
    OBVIOUS
  <2> QED
    BY <2>1, Pow2Grows
<1>2. DSizes(n) = [i \in U |-> Pow2[i - 1]]
  BY <1>1, Log2UpOfPow2 DEF DSizes
<1>3. step \in [U \X DPlaces -> DPlaces]
  <2> SUFFICES ASSUME NEW p \in U \X DPlaces PROVE DTurn(p[2], Pow2[p[1] - 1]) \in DPlaces
    OBVIOUS
  <2> QED
    BY <1>1, DTurnType
<1>4. base \in DPlaces
  BY DEF DPlaces
<1>5. PICK f : IsLeftFold(f, K, DPlaces, base, step)
  <2> HIDE DEF step, base
  <2> QED
    BY <1>3, <1>4, LeftFoldExists
<1>6. \A s \in SUBSET U : s # {} => Max(s) \in U /\ s \ {Max(s)} \in SUBSET U
  BY MaxIn
<1>7. Runs(f)
  <2>1. ASSUME NEW s \in SUBSET U, s # {}
        PROVE  f[s] = DTurn(f[s \ {Max(s)}], Pow2[Max(s) - 1])
    <3>1. PICK i \in U, r \in DPlaces : i = Max(s) /\ r = f[s \ {Max(s)}]
      BY <1>5, <1>6, <2>1 DEF IsLeftFold
    <3>2. step[<<i, r>>] = DTurn(r, Pow2[i - 1])
      OBVIOUS
    <3> HIDE DEF step
    <3> QED
      BY <1>5, <2>1, <3>1, <3>2 DEF IsLeftFold
  <2> HIDE DEF step, base
  <2> QED
    BY <1>5, <2>1 DEF IsLeftFold
<1> DEFINE r == DRun(n, d)
<1>8. DOMAIN DSizes(n) = U /\ \A s \in SUBSET U : s # {} => DSizes(n)[Max(s)] = Pow2[Max(s) - 1]
  BY <1>2, <1>6
<1>9. Runs(r)
  <2> DEFINE Sized(h) == h = [s \in SUBSET DOMAIN DSizes(n) |->
                 IF s = {} THEN base ELSE DTurn(h[s \ {Max(s)}], DSizes(n)[Max(s)])]
  <2>1. \A h : Sized(h) <=> Runs(h)
    <3> TAKE h
    <3> HIDE DEF n, base
    <3> QED
      BY <1>8
  <2>2. r = CHOOSE h : Sized(h)
    BY DEF DRun
  <2> HIDE DEF Sized, Runs, r
  <2> QED
    BY <1>7, <2>1, <2>2
<1>10. r[1 .. 0] = base /\ \A k \in 1 .. K : r[1 .. k] = DTurn(r[1 .. k - 1], Pow2[k - 1])
  <2> HIDE DEF r, base
  <2>1. \A s \in SUBSET U :
          r[s] = IF s = {} THEN base ELSE DTurn(r[s \ {Max(s)}], Pow2[Max(s) - 1])
    BY <1>9
  <2> HIDE DEF Runs
  <2>2. r[1 .. 0] = base
    BY <2>1, UpToEach
  <2>3. ASSUME NEW k \in 1 .. K PROVE r[1 .. k] = DTurn(r[1 .. k - 1], Pow2[k - 1])
    <3>1. /\ 1 .. k \in SUBSET U /\ 1 .. k # {}
          /\ Max(1 .. k) = k /\ (1 .. k) \ {k} = 1 .. k - 1
      BY UpToEach
    <3>2. r[1 .. k] = DTurn(r[(1 .. k) \ {Max(1 .. k)}], Pow2[Max(1 .. k) - 1])
      BY <2>1, <3>1
    <3> QED
      BY <3>1, <3>2
  <2> QED
    BY <2>2, <2>3
<1> DEFINE w == [i \in 0 .. K |-> r[1 .. i]]
<1>11. DRunOf(w, K, d)
  <2> HIDE DEF r
  <2>1. \A i \in 1 .. K : i \in 0 .. K /\ i - 1 \in 0 .. K
    OBVIOUS
  <2> QED
    BY <1>10, <2>1 DEF DRunOf
<1>12. HilbertD2XY(n, d) = <<r[1 .. K].x, r[1 .. K].y>>
  BY <1>8, D2XYIsRun
<1> QED
  <2> HIDE DEF r
  <2> QED
    BY <1>11, <1>12

(* After i sizes the last i pairs of bits of d have become a cell of the     *)
(* curve of that size, and the others are left.                              *)
DCell(w, d, i) ==
  /\ w \in DPlaces /\ w.t \in Nat
  /\ \E e \in 0 .. Pow2[i] * Pow2[i] - 1 :
       d = Pow2[i] * Pow2[i] * w.t + e /\ <<w.x, w.y, e>> \in Curve[i]

(* One more round of d2xy is one larger curve.                               *)
LEMMA DCellTurned ==
  ASSUME NEW i \in Nat, NEW d \in Nat, NEW w, DCell(w, d, i)
  PROVE  DCell(DTurn(w, Pow2[i]), d, i + 1)
<1> DEFINE z == DTurn(w, Pow2[i])
<1>1. PICK s \in Nat \ {0} : s = Pow2[i]
  BY Pow2Grows
<1>2. PICK m \in Nat \ {0} : m = s * s
  OBVIOUS
<1>3. Pow2[i + 1] = 2 * s /\ (2 * s) * (2 * s) = 4 * m
  BY <1>1, <1>2, Pow2Steps
<1>4. w \in DPlaces /\ w.t \in Nat
  BY DEF DCell
<1>5. PICK e \in 0 .. m - 1 : d = m * w.t + e /\ <<w.x, w.y, e>> \in Curve[i]
  BY <1>1, <1>2 DEF DCell
<1>6. PICK q \in 0 .. 3 :
           /\ w.t = 4 * z.t + q
           /\ z.x = Rot(s, w.x, w.y, Rx(q), Ry(q))[1] + s * Rx(q)
           /\ z.y = Rot(s, w.x, w.y, Rx(q), Ry(q))[2] + s * Ry(q)
           /\ z \in DPlaces
  BY <1>1, <1>4, DTurnIs
<1>7. IsCurve(Curve[i], s)
  BY <1>1, CurveIsCurve
<1>8. PICK u, v : /\ Rot(s, w.x, w.y, Rx(q), Ry(q)) = <<u, v>>
                  /\ <<u + s * Rx(q), v + s * Ry(q), s * s * q + e>> \in Fourfold(Curve[i], s)
  BY <1>5, <1>7, FourfoldCells
<1> HIDE DEF z
<1>9. <<z.x, z.y, m * q + e>> \in Curve[i + 1]
  <2>1. z.x = u + s * Rx(q) /\ z.y = v + s * Ry(q)
    BY <1>6, <1>8
  <2>2. Curve[i + 1] = Fourfold(Curve[i], s)
    BY <1>1, CurveSteps
  <2>3. s * s * q + e = m * q + e
    BY <1>2
  <2> QED
    BY <1>8, <2>1, <2>2, <2>3
<1>10. PICK t \in Int, t2 \in Nat : t = z.t /\ t2 = w.t
  BY <1>4, <1>6 DEF DPlaces
<1>11. t \in Nat /\ t2 = 4 * t + q
  BY <1>6, <1>10
<1>12. m * q + e \in 0 .. 4 * m - 1 /\ d = 4 * m * t + (m * q + e)
  <2>1. d = m * t2 + e
    BY <1>5, <1>10
  <2>2. m * t2 = 4 * m * t + m * q
    BY <1>11
  <2>3. q = 0 \/ q = 1 \/ q = 2 \/ q = 3
    OBVIOUS
  <2>4. m * q + e \in 0 .. 4 * m - 1
    BY <2>3
  <2>5. m * t2 \in Int /\ 4 * m * t \in Int /\ m * q \in Int
    OBVIOUS
  <2> QED
    BY <2>1, <2>2, <2>4, <2>5
<1>13. DCell(z, d, i + 1)
  BY <1>3, <1>6, <1>9, <1>10, <1>11, <1>12 DEF DCell
<1> QED
  BY <1>13 DEF z

(* d2xy leads to the tile the curve has at d.                                *)
LEMMA D2XYOnCurve ==
  ASSUME NEW K \in Nat, NEW d \in 0 .. Pow2[K] * Pow2[K] - 1
  PROVE  \E x, y : HilbertD2XY(Pow2[K], d) = <<x, y>> /\ <<x, y, d>> \in Curve[K]
<1>1. PICK n \in Nat \ {0} : n = Pow2[K]
  BY Pow2Grows
<1>2. d \in Nat
  BY <1>1
<1>3. PICK w : DRunOf(w, K, d) /\ HilbertD2XY(Pow2[K], d) = <<w[K].x, w[K].y>>
  BY <1>2, DRunIs
<1> DEFINE S == {i \in Nat : i <= K => DCell(w[i], d, i)}
<1>4. 0 \in S
  <2>1. w[0] = [x |-> 0, y |-> 0, t |-> d] /\ Pow2[0] = 1 /\ Curve[0] = {<<0, 0, 0>>}
    BY <1>3, Pow2Steps, CurveSteps DEF DRunOf
  <2>2. w[0] \in DPlaces /\ w[0].t = d /\ w[0].x = 0 /\ w[0].y = 0
    BY <1>2, <2>1 DEF DPlaces
  <2>3. 0 \in 0 .. 1 * 1 - 1 /\ d = 1 * 1 * d + 0
    BY <1>2
  <2> QED
    BY <1>2, <2>1, <2>2, <2>3 DEF DCell
<1>5. \A i \in Nat : i \in S => i + 1 \in S
  <2> TAKE i \in Nat
  <2> HAVE i \in S
  <2> SUFFICES ASSUME i + 1 <= K PROVE DCell(w[i + 1], d, i + 1)
    OBVIOUS
  <2>1. DCell(w[i], d, i) /\ i + 1 \in 1 .. K /\ (i + 1) - 1 = i
    OBVIOUS
  <2>2. w[i + 1] = DTurn(w[i], Pow2[i])
    BY <1>3, <2>1 DEF DRunOf
  <2> QED
    BY <1>2, <2>1, <2>2, DCellTurned
<1>6. Nat \subseteq S
  <2> HIDE DEF S
  <2> QED
    BY <1>4, <1>5, SetInduction
<1>7. DCell(w[K], d, K)
  BY <1>6
<1>8. PICK m \in Nat \ {0} : m = Pow2[K] * Pow2[K]
  BY <1>1
<1>9. PICK e \in 0 .. m - 1 : d = m * w[K].t + e /\ <<w[K].x, w[K].y, e>> \in Curve[K]
  BY <1>7, <1>8 DEF DCell
<1>10. e = d
  <2>1. m * w[K].t + e = m * 0 + d /\ w[K].t \in Int /\ d \in 0 .. m - 1
    BY <1>7, <1>8, <1>9 DEF DCell
  <2> QED
    BY <2>1, DigitsUnique
<1> QED
  BY <1>3, <1>9, <1>10

-------------------------------------------------------------------------------
(* With k sizes to go, what is left of the coordinates is a cell of the      *)
(* curve of that size, and the rest of its place is d.                       *)
XCell(w, K, k, x0, y0) ==
  /\ w \in XPlaces
  /\ \A e \in Int : <<w.x % Pow2[k], w.y % Pow2[k], e>> \in Curve[k] =>
       <<x0, y0, w.d + e>> \in Curve[K]

(* A coordinate is a bit and the rest; the mirrored one has the mirrored     *)
(* rest.                                                                     *)
LEMMA HalfOf ==
  ASSUME NEW s \in Nat \ {0}, NEW a \in Int
  PROVE  \E r \in 0 .. 1, u \in 0 .. s - 1 :
           Bit(a, s) = r /\ a % s = u /\ a % (2 * s) = u + s * r /\ (s - 1 - a) % s = s - 1 - u
<1>1. PICK q \in Int, u \in 0 .. s - 1 : q = a \div s /\ u = a % s /\ a = s * q + u
  BY DivMod
<1>2. PICK r \in 0 .. 1, p \in Int : r = q % 2 /\ q = 2 * p + r
  OBVIOUS
<1>3. u + s * r \in 0 .. 2 * s - 1
  BY <1>2
<1>4. a = (2 * s) * p + (u + s * r)
  <2>1. s * q = (2 * s) * p + s * r
    BY <1>2
  <2>2. s * q \in Int /\ (2 * s) * p \in Int /\ s * r \in Int
    OBVIOUS
  <2> QED
    BY <1>1, <2>1, <2>2
<1>5. a % (2 * s) = u + s * r
  <2>1. PICK b \in Nat \ {0} : b = 2 * s
    OBVIOUS
  <2>2. PICK z \in 0 .. b - 1 : z = u + s * r
    BY <1>3, <2>1
  <2>3. a = b * p + z
    BY <1>4, <2>1, <2>2
  <2>4. a % b = z
    BY <2>3, DivModUnique
  <2> QED
    BY <2>1, <2>2, <2>4
<1>6. (s - 1 - a) % s = s - 1 - u
  <2>1. s - 1 - u \in 0 .. s - 1 /\ -q \in Int
    OBVIOUS
  <2>2. s * (-q) = -(s * q) /\ s * q \in Int
    OBVIOUS
  <2>3. s - 1 - a = s * (-q) + (s - 1 - u)
    BY <1>1, <2>2
  <2>4. (s * (-q) + (s - 1 - u)) % s = s - 1 - u
    BY <2>1, DivModUnique
  <2> QED
    BY <2>3, <2>4
<1> QED
  BY <1>1, <1>2, <1>5, <1>6 DEF Bit

(* Turning commutes with taking the rest: xy2d leaves the upper bits in.     *)
RotModulo(s, a, b, u, v, rx, ry) ==
  \E c \in Int, d \in Int :
    Rot(s, a, b, rx, ry) = <<c, d>> /\ Rot(s, u, v, rx, ry) = <<c % s, d % s>>

(* It does for every turn and every rest.                                    *)
LEMMA RotWithin ==
  ASSUME NEW s \in Nat \ {0}, NEW a \in Int, NEW b \in Int, NEW rx \in 0 .. 1, NEW ry \in 0 .. 1,
         NEW u \in 0 .. s - 1, NEW v \in 0 .. s - 1, a % s = u, b % s = v,
         (s - 1 - a) % s = s - 1 - u, (s - 1 - b) % s = s - 1 - v
  PROVE  RotModulo(s, a, b, u, v, rx, ry)
<1> USE DEF RotModulo
<1>1. CASE ry = 1
  BY <1>1 DEF Rot
<1>2. CASE ry # 1 /\ rx = 1
  <2>1. /\ Rot(s, a, b, rx, ry) = <<s - 1 - b, s - 1 - a>>
        /\ Rot(s, u, v, rx, ry) = <<s - 1 - v, s - 1 - u>>
    BY <1>2 DEF Rot
  <2>2. s - 1 - b \in Int /\ s - 1 - a \in Int
    OBVIOUS
  <2> QED
    BY <2>1, <2>2
<1>3. CASE ry # 1 /\ rx # 1
  BY <1>3 DEF Rot
<1> QED
  BY <1>1, <1>2, <1>3

(* One round of xy2d less is one smaller curve.                              *)
LEMMA XCellTurned ==
  ASSUME NEW K \in Nat, NEW k \in Nat, NEW x0, NEW y0, NEW w, XCell(w, K, k + 1, x0, y0)
  PROVE  XCell(XTurn(w, Pow2[k]), K, k, x0, y0)
<1>1. PICK s \in Nat \ {0} : s = Pow2[k]
  BY Pow2Grows
<1>2. Pow2[k + 1] = 2 * s
  BY <1>1, Pow2Steps
<1>3. PICK a \in Int, b \in Int, d \in Int : w = [x |-> a, y |-> b, d |-> d]
  BY DEF XCell, XPlaces
<1>4. PICK rx \in 0 .. 1, u \in 0 .. s - 1 :
        Bit(a, s) = rx /\ a % s = u /\ a % (2 * s) = u + s * rx /\ (s - 1 - a) % s = s - 1 - u
  BY HalfOf
<1>5. PICK ry \in 0 .. 1, v \in 0 .. s - 1 :
        Bit(b, s) = ry /\ b % s = v /\ b % (2 * s) = v + s * ry /\ (s - 1 - b) % s = s - 1 - v
  BY HalfOf
<1>6. PICK q \in 0 .. 3 : q = Quadrant(rx, ry) /\ Rx(q) = rx /\ Ry(q) = ry
  BY QuadrantsNumbered
<1>7. PICK c \in Int, f \in Int : /\ Rot(s, a, b, rx, ry) = <<c, f>>
                                  /\ Rot(s, u, v, rx, ry) = <<c % s, f % s>>
  <2>1. RotModulo(s, a, b, u, v, rx, ry)
    BY <1>4, <1>5, RotWithin
  <2> QED
    BY <2>1 DEF RotModulo
<1>8. PICK m \in Int : m = s * s * q
  OBVIOUS
<1>9. XTurn(w, s) = [x |-> c, y |-> f, d |-> d + m]
  <2>1. w.x = a /\ w.y = b /\ w.d = d
    BY <1>3
  <2>2. Bit(w.x, s) = rx /\ Bit(w.y, s) = ry
    BY <1>4, <1>5, <2>1
  <2>3. Rot(s, w.x, w.y, Bit(w.x, s), Bit(w.y, s)) = <<c, f>>
    BY <1>7, <2>1, <2>2
  <2>4. /\ Rot(s, w.x, w.y, Bit(w.x, s), Bit(w.y, s))[1] = c
        /\ Rot(s, w.x, w.y, Bit(w.x, s), Bit(w.y, s))[2] = f
    BY <2>3
  <2>5. w.d + s * s * Quadrant(Bit(w.x, s), Bit(w.y, s)) = d + m
    BY <1>6, <1>8, <2>1, <2>2
  <2> QED
    BY <2>4, <2>5, Zenon DEF XTurn
<1>10. ASSUME NEW e \in Int, <<c % s, f % s, e>> \in Curve[k]
       PROVE  <<x0, y0, d + m + e>> \in Curve[K]
  <2>1. IsCurve(Curve[k], s)
    BY <1>1, CurveIsCurve
  <2>2. PICK i, j : /\ Rot(s, c % s, f % s, Rx(q), Ry(q)) = <<i, j>>
                    /\ <<i + s * Rx(q), j + s * Ry(q), s * s * q + e>> \in Fourfold(Curve[k], s)
    BY <1>10, <2>1, FourfoldCells
  <2>3. Rot(s, c % s, f % s, rx, ry) = <<u, v>>
    <3>1. RotBack(s, u, v, rx, ry)
      BY RotTwice
    <3>2. Rot(s, u, v, rx, ry)[1] = c % s /\ Rot(s, u, v, rx, ry)[2] = f % s
      BY <1>7
    <3> QED
      BY <3>1, <3>2, Zenon DEF RotBack
  <2>4. i = u /\ j = v
    BY <1>6, <2>2, <2>3
  <2>5. Curve[k + 1] = Fourfold(Curve[k], s)
    BY <1>1, CurveSteps
  <2>6. <<u + s * rx, v + s * ry, m + e>> \in Curve[k + 1]
    BY <1>6, <1>8, <2>2, <2>4, <2>5
  <2>7. <<w.x % Pow2[k + 1], w.y % Pow2[k + 1], m + e>> \in Curve[k + 1]
    BY <1>2, <1>3, <1>4, <1>5, <2>6
  <2>8. m + e \in Int
    OBVIOUS
  <2>9. <<x0, y0, w.d + (m + e)>> \in Curve[K]
    BY <2>7, <2>8 DEF XCell
  <2>10. w.d + (m + e) = d + m + e
    BY <1>3
  <2> QED
    BY <2>9, <2>10
<1>11. PICK z : z = XTurn(w, s)
  OBVIOUS
<1>12. z \in XPlaces /\ z.x = c /\ z.y = f /\ z.d = d + m
  BY <1>9, <1>11 DEF XPlaces
<1>13. XCell(z, K, k, x0, y0)
  BY <1>1, <1>10, <1>12 DEF XCell
<1> QED
  BY <1>1, <1>11, <1>13

(* xy2d finds the place of a tile on the curve.                              *)
LEMMA XY2DOnCurve ==
  ASSUME NEW K \in Nat, NEW x0 \in 0 .. Pow2[K] - 1, NEW y0 \in 0 .. Pow2[K] - 1
  PROVE  HilbertXY2D(Pow2[K], x0, y0) \in Int /\ <<x0, y0, HilbertXY2D(Pow2[K], x0, y0)>> \in Curve[K]
<1>1. PICK n \in Nat \ {0} : n = Pow2[K]
  BY Pow2Grows
<1>2. x0 \in 0 .. n - 1 /\ y0 \in 0 .. n - 1 /\ x0 \in Int /\ y0 \in Int
  BY <1>1
<1>3. PICK w : XRunOf(w, K, x0, y0) /\ HilbertXY2D(Pow2[K], x0, y0) = w[K].d
  BY <1>2, XRunIs
<1> DEFINE S == {i \in Nat : i <= K => XCell(w[i], K, K - i, x0, y0)}
<1>4. 0 \in S
  <2>1. w[0] = [x |-> x0, y |-> y0, d |-> 0]
    BY <1>3 DEF XRunOf
  <2>2. w[0] \in XPlaces /\ w[0].x = x0 /\ w[0].y = y0 /\ w[0].d = 0
    BY <1>2, <2>1 DEF XPlaces
  <2>3. x0 % n = x0 /\ y0 % n = y0
    BY <1>2
  <2>4. \A e \in Int : 0 + e = e
    OBVIOUS
  <2>5. XCell(w[0], K, K, x0, y0)
    BY <1>1, <2>2, <2>3, <2>4 DEF XCell
  <2>6. K - 0 = K
    OBVIOUS
  <2> QED
    BY <2>5, <2>6
<1>5. \A i \in Nat : i \in S => i + 1 \in S
  <2> TAKE i \in Nat
  <2> HAVE i \in S
  <2> SUFFICES ASSUME i + 1 <= K PROVE XCell(w[i + 1], K, K - (i + 1), x0, y0)
    OBVIOUS
  <2>1. PICK k \in Nat : k = K - (i + 1)
    OBVIOUS
  <2>2. XCell(w[i], K, k + 1, x0, y0) /\ i + 1 \in 1 .. K /\ (i + 1) - 1 = i
    <3>1. k + 1 = K - i
      BY <2>1
    <3> QED
      BY <3>1
  <2>3. w[i + 1] = XTurn(w[i], Pow2[k])
    BY <1>3, <2>1, <2>2 DEF XRunOf
  <2>4. XCell(XTurn(w[i], Pow2[k]), K, k, x0, y0)
    BY <2>2, XCellTurned
  <2> QED
    BY <2>1, <2>3, <2>4
<1>6. Nat \subseteq S
  <2> HIDE DEF S
  <2> QED
    BY <1>4, <1>5, SetInduction
<1>7. XCell(w[K], K, 0, x0, y0)
  <2>1. K - K = 0
    OBVIOUS
  <2> QED
    BY <1>6, <2>1
<1>8. PICK d \in Int, a \in Int, b \in Int : w[K].d = d /\ w[K].x = a /\ w[K].y = b
  BY <1>7 DEF XCell, XPlaces
<1>9. <<a % 1, b % 1, 0>> \in Curve[0]
  <2>1. a % 1 = 0 /\ b % 1 = 0
    OBVIOUS
  <2> QED
    BY <2>1, CurveSteps
<1>10. <<x0, y0, d + 0>> \in Curve[K]
  BY <1>7, <1>8, <1>9, Pow2Steps DEF XCell
<1> QED
  BY <1>3, <1>8, <1>10

(* The way there and the way back of the Hilbert traversal.                  *)
LEMMA HilbertBothWays ==
  ASSUME NEW K \in Nat, NEW n, n = Pow2[K]
  PROVE  /\ \A x \in 0 .. n - 1, y \in 0 .. n - 1 :
              /\ HilbertXY2D(n, x, y) \in 0 .. n * n - 1
              /\ HilbertD2XY(n, HilbertXY2D(n, x, y)) = <<x, y>>
         /\ \A d \in 0 .. n * n - 1 : \E x \in 0 .. n - 1, y \in 0 .. n - 1 :
              HilbertD2XY(n, d) = <<x, y>> /\ HilbertXY2D(n, x, y) = d
<1>1. IsCurve(Curve[K], n)
  BY CurveIsCurve
<1>2. \A p \in Curve[K] : p \in Cells(n)
  BY <1>1 DEF IsCurve
<1>3. \A x, y, d : <<x, y, d>> \in Curve[K] =>
        x \in 0 .. n - 1 /\ y \in 0 .. n - 1 /\ d \in 0 .. n * n - 1
  BY <1>2 DEF Cells
<1>4. \A x, y, d, u, v, e : <<x, y, d>> \in Curve[K] /\ <<u, v, e>> \in Curve[K] =>
        (d = e <=> x = u /\ y = v)
  <2> TAKE x, y, d, u, v, e
  <2> DEFINE p == <<x, y, d>>
             r == <<u, v, e>>
  <2> HAVE p \in Curve[K] /\ r \in Curve[K]
  <2>1. p[3] = r[3] <=> p[1] = r[1] /\ p[2] = r[2]
    <3> HIDE DEF p, r
    <3> QED
      BY <1>1 DEF IsCurve
  <2> QED
    BY <2>1
<1>5. ASSUME NEW x \in 0 .. n - 1, NEW y \in 0 .. n - 1
      PROVE  /\ HilbertXY2D(n, x, y) \in 0 .. n * n - 1
             /\ HilbertD2XY(n, HilbertXY2D(n, x, y)) = <<x, y>>
  <2>1. PICK d : d = HilbertXY2D(n, x, y)
    OBVIOUS
  <2>2. <<x, y, d>> \in Curve[K]
    BY <2>1, XY2DOnCurve
  <2>3. d \in 0 .. n * n - 1
    BY <1>3, <2>2
  <2>4. PICK u, v : HilbertD2XY(n, d) = <<u, v>> /\ <<u, v, d>> \in Curve[K]
    BY <2>3, D2XYOnCurve
  <2> QED
    BY <1>4, <2>1, <2>2, <2>3, <2>4
<1>6. ASSUME NEW d \in 0 .. n * n - 1
      PROVE  \E x \in 0 .. n - 1, y \in 0 .. n - 1 :
               HilbertD2XY(n, d) = <<x, y>> /\ HilbertXY2D(n, x, y) = d
  <2>1. PICK u, v : HilbertD2XY(n, d) = <<u, v>> /\ <<u, v, d>> \in Curve[K]
    BY D2XYOnCurve
  <2>2. u \in 0 .. n - 1 /\ v \in 0 .. n - 1
    BY <1>3, <2>1
  <2>3. <<u, v, HilbertXY2D(n, u, v)>> \in Curve[K]
    BY <2>2, XY2DOnCurve
  <2>4. HilbertXY2D(n, u, v) = d
    BY <1>4, <2>1, <2>3
  <2> QED
    BY <2>1, <2>2, <2>4
<1> QED
  BY <1>5, <1>6

(****************************************************************************)
(* The share of a manager.                                                   *)
(****************************************************************************)
(* The numbers below n are n.                                                *)
LEMMA IntervalSize ==
  ASSUME NEW n \in Nat
  PROVE  IsFiniteSet(0 .. n - 1) /\ Cardinality(0 .. n - 1) = n
<1>1. n - 1 \in Int /\ (0 > n - 1 <=> n = 0) /\ (n - 1) - 0 + 1 = n
  OBVIOUS
<1> QED
  BY <1>1, FS_Interval

(* A product grows with its factor.                                          *)
LEMMA ProductRises ==
  ASSUME NEW a \in Nat, NEW b \in Int, NEW c \in Int, b <= c
  PROVE  a * b <= a * c /\ a * b \in Int /\ a * c \in Int
<1>1. PICK e \in Nat : c = b + e
  <2>1. c - b \in Nat /\ c = b + (c - b)
    OBVIOUS
  <2> QED
    BY <2>1
<1>2. a * e \in Nat /\ a * b \in Int /\ a * c \in Int
  OBVIOUS
<1>3. a * c = a * b + a * e
  BY <1>1
<1> QED
  BY <1>2, <1>3

(* A number of two digits is below the product of their bases.               *)
LEMMA DigitsBelow ==
  ASSUME NEW q \in Nat, NEW n \in Nat, NEW x \in 0 .. n - 1, NEW k \in 0 .. q - 1
  PROVE  q * x + k \in 0 .. q * n - 1
<1>1. q * (x + 1) <= q * n /\ q * n \in Int
  BY ProductRises
<1>2. q * (x + 1) = q * x + q /\ q * x \in Nat
  OBVIOUS
<1> QED
  BY <1>1, <1>2

(* The quotients of the numbers below M * q, and of those just above.        *)
LEMMA QuotientBelow ==
  ASSUME NEW M \in Nat \ {0}, NEW q \in Nat, NEW z \in Nat
  PROVE  /\ z < M * q => z \div M \in 0 .. q - 1
         /\ \A s \in 0 .. M - 1 : z \in M * q .. M * q + s => z \div M = q
<1>1. PICK k \in Int, r \in 0 .. M - 1 : k = z \div M /\ z = M * k + r
  BY DivMod
<1>2. M * k \in Int /\ M * q \in Nat
  OBVIOUS
<1>3. k >= 0
  <2> SUFFICES ASSUME k < 0 PROVE FALSE
    BY <1>1
  <2>1. M * k <= M * (-1)
    BY <1>1, ProductRises
  <2> QED
    BY <1>1, <1>2, <2>1
<1>4. ASSUME z < M * q PROVE k <= q - 1
  <2> SUFFICES ASSUME q <= k PROVE FALSE
    BY <1>1
  <2>1. M * q <= M * k
    BY <1>1, ProductRises
  <2> QED
    BY <1>1, <1>2, <1>4, <2>1
<1>5. ASSUME NEW s \in 0 .. M - 1, z \in M * q .. M * q + s PROVE k = q
  <2>1. PICK t \in 0 .. s : z = M * q + t
    <3>1. z - M * q \in 0 .. s /\ z = M * q + (z - M * q)
      BY <1>2, <1>5
    <3> QED
      BY <3>1
  <2>2. t \in 0 .. M - 1
    OBVIOUS
  <2> QED
    BY <1>1, <2>1, <2>2, DigitsUnique
<1> QED
  BY <1>1, <1>3, <1>4, <1>5

(* Two numbers with the same rest and the same quotient are one.             *)
LEMMA SameRest ==
  ASSUME NEW M \in Nat \ {0}, NEW x \in Int, NEW y \in Int, NEW z \in Int,
         (x + y) % M = (x + z) % M, y \div M = z \div M
  PROVE  y = z
<1>1. PICK k \in Int, r \in 0 .. M - 1, t \in 0 .. M - 1 : y = M * k + r /\ z = M * k + t
  <2>1. y = M * (y \div M) + (y % M) /\ y \div M \in Int /\ y % M \in 0 .. M - 1
    BY DivMod
  <2>2. z = M * (y \div M) + (z % M) /\ z % M \in 0 .. M - 1
    BY DivMod
  <2> QED
    BY <2>1, <2>2
<1>2. PICK a \in Int, b \in Int, m \in 0 .. M - 1 : x + y = M * a + m /\ x + z = M * b + m
  <2>1. PICK u \in Int, v \in Int : u = x + y /\ v = x + z
    OBVIOUS
  <2>2. u = M * (u \div M) + (u % M) /\ u \div M \in Int /\ u % M \in 0 .. M - 1
    BY DivMod
  <2>3. v = M * (v \div M) + (u % M) /\ v \div M \in Int
    BY <2>1, DivMod
  <2> QED
    BY <2>1, <2>2, <2>3
<1>3. M * a + t = M * b + r
  <2>1. M * a \in Int /\ M * b \in Int /\ M * k \in Int
    OBVIOUS
  <2> QED
    BY <1>1, <1>2, <2>1
<1>4. t = r
  BY <1>3, DigitsUnique
<1> QED
  BY <1>1, <1>4

-------------------------------------------------------------------------------
(* A tile of a manager as a number: the tiles are counted by blocks of M     *)
(* columns, then what is left of the rows by blocks of M rows, then the rest.*)
Place(M, q, n, s, x, y) ==
  IF y < M * q THEN q * x + y \div M
  ELSE IF x < M * q THEN q * n + (q * (y - M * q) + x \div M)
  ELSE q * n + q * s + (y - M * q)

(* The three cases of the place, and their ranges.                           *)
PlaceCase(M, q, n, s, x, y, p) ==
  \/ y < M * q /\ y \div M \in 0 .. q - 1 /\ p = q * x + y \div M /\ p \in 0 .. q * n - 1
  \/ /\ y >= M * q /\ x < M * q /\ x \div M \in 0 .. q - 1 /\ y - M * q \in 0 .. s - 1
     /\ p = q * n + (q * (y - M * q) + x \div M) /\ p \in q * n .. q * n + q * s - 1
  \/ /\ y >= M * q /\ x >= M * q /\ x \div M = q /\ y - M * q \in 0 .. s - 1
     /\ p = q * n + q * s + (y - M * q) /\ p \in q * n + q * s .. q * n + q * s + s - 1

(* Every tile is in one of them.                                             *)
LEMMA PlaceCases ==
  ASSUME NEW M \in Nat \ {0}, NEW q \in Nat, NEW s \in 0 .. M - 1, NEW n, n = M * q + s,
         NEW x \in 0 .. n - 1, NEW y \in 0 .. n - 1
  PROVE  PlaceCase(M, q, n, s, x, y, Place(M, q, n, s, x, y))
<1>1. n \in Nat /\ M * q \in Nat /\ x \in Nat /\ y \in Nat
  OBVIOUS
<1>2. q * n \in Nat /\ q * s \in Nat
  BY <1>1
<1>3. CASE y < M * q
  <2>1. y \div M \in 0 .. q - 1
    BY <1>1, <1>3, QuotientBelow
  <2>2. q * x + y \div M \in 0 .. q * n - 1
    BY <1>1, <2>1, DigitsBelow
  <2> QED
    BY <1>3, <2>1, <2>2 DEF Place, PlaceCase
<1>4. CASE y >= M * q /\ x < M * q
  <2>1. PICK k \in 0 .. q - 1 : k = x \div M
    BY <1>1, <1>4, QuotientBelow
  <2>2. PICK j \in 0 .. s - 1 : j = y - M * q
    BY <1>1, <1>4
  <2>3. q * j + k \in 0 .. q * s - 1
    BY DigitsBelow
  <2>4. q * n + (q * j + k) \in q * n .. q * n + q * s - 1
    BY <1>2, <2>3
  <2>5. ~(y < M * q)
    BY <1>1, <1>4
  <2>6. Place(M, q, n, s, x, y) = q * n + (q * j + k)
    BY <1>4, <2>1, <2>2, <2>5, Zenon DEF Place
  <2> QED
    BY <1>4, <2>1, <2>2, <2>4, <2>6, Zenon DEF PlaceCase
<1>5. CASE y >= M * q /\ x >= M * q
  <2>1. x \in M * q .. M * q + s
    BY <1>1, <1>5
  <2>2. x \div M = q
    BY <1>1, <2>1, QuotientBelow
  <2>3. PICK j \in 0 .. s - 1 : j = y - M * q
    BY <1>1, <1>5
  <2>4. q * n + q * s + j \in q * n + q * s .. q * n + q * s + s - 1
    BY <1>2, <2>3
  <2>5. ~(y < M * q) /\ ~(x < M * q)
    BY <1>1, <1>5
  <2>6. Place(M, q, n, s, x, y) = q * n + q * s + j
    BY <2>3, <2>5, Zenon DEF Place
  <2> QED
    BY <1>5, <2>2, <2>3, <2>4, <2>6, Zenon DEF PlaceCase
<1> QED
  BY <1>1, <1>3, <1>4, <1>5

(* What a manager owns, as pairs.                                            *)
Own(n, M, m) == {p \in (0 .. n - 1) \X (0 .. n - 1) : (p[1] + p[2]) % M = m}

(* Two tiles of one manager have different places.                           *)
LEMMA PlacesDiffer ==
  ASSUME NEW M \in Nat \ {0}, NEW q \in Nat, NEW s \in 0 .. M - 1, NEW n, n = M * q + s, NEW m
  PROVE  \A a \in Own(n, M, m), b \in Own(n, M, m) :
           Place(M, q, n, s, a[1], a[2]) = Place(M, q, n, s, b[1], b[2]) => a = b
<1> SUFFICES ASSUME NEW x \in 0 .. n - 1, NEW y \in 0 .. n - 1, (x + y) % M = m,
                    NEW u \in 0 .. n - 1, NEW v \in 0 .. n - 1, (u + v) % M = m,
                    Place(M, q, n, s, x, y) = Place(M, q, n, s, u, v)
             PROVE  x = u /\ y = v
  <2> TAKE a \in Own(n, M, m), b \in Own(n, M, m)
  <2>1. PICK x \in 0 .. n - 1, y \in 0 .. n - 1 : a = <<x, y>> /\ (x + y) % M = m
    BY DEF Own
  <2>2. PICK u \in 0 .. n - 1, v \in 0 .. n - 1 : b = <<u, v>> /\ (u + v) % M = m
    BY DEF Own
  <2> HAVE Place(M, q, n, s, a[1], a[2]) = Place(M, q, n, s, b[1], b[2])
  <2>3. Place(M, q, n, s, x, y) = Place(M, q, n, s, u, v)
    BY <2>1, <2>2
  <2> QED
    BY <2>1, <2>2, <2>3
<1>1. n \in Nat /\ M * q \in Nat /\ x \in Nat /\ y \in Nat /\ u \in Nat /\ v \in Nat
  OBVIOUS
<1>2. q * n \in Nat /\ q * s \in Nat
  BY <1>1
<1>3. PICK p : p = Place(M, q, n, s, x, y)
  OBVIOUS
<1>4. PlaceCase(M, q, n, s, x, y, p) /\ PlaceCase(M, q, n, s, u, v, p)
  BY <1>3, PlaceCases
<1>5. \A a \in Int, b \in Int : a + b = b + a
  OBVIOUS
<1>6. x = u /\ y \div M = v \div M => y = v
  <2> SUFFICES ASSUME x = u, y \div M = v \div M PROVE y = v
    OBVIOUS
  <2>1. x \in Int /\ y \in Int /\ v \in Int /\ (x + y) % M = (x + v) % M
    BY <1>1
  <2> QED
    BY <2>1, SameRest, Zenon
<1>7. y = v /\ x \div M = u \div M => x = u
  <2> SUFFICES ASSUME y = v, x \div M = u \div M PROVE x = u
    OBVIOUS
  <2>1. x \in Int /\ y \in Int /\ u \in Int /\ (y + x) % M = (y + u) % M
    BY <1>1, <1>5
  <2> QED
    BY <2>1, SameRest, Zenon
<1>8. CASE p \in 0 .. q * n - 1
  <2>1. /\ y \div M \in 0 .. q - 1 /\ p = q * x + y \div M
        /\ v \div M \in 0 .. q - 1 /\ p = q * u + v \div M
    BY <1>2, <1>4, <1>8 DEF PlaceCase
  <2>2. PICK k \in 0 .. q - 1, l \in 0 .. q - 1 : k = y \div M /\ l = v \div M
    BY <2>1
  <2>3. q * x + k = q * u + l /\ q \in Nat \ {0}
    BY <2>1, <2>2
  <2>4. x = u /\ k = l
    BY <1>1, <2>3, DigitsUnique
  <2> QED
    BY <1>6, <2>2, <2>4
<1>9. CASE p \in q * n .. q * n + q * s - 1
  <2>1. /\ x \div M \in 0 .. q - 1 /\ y - M * q \in 0 .. s - 1
        /\ p = q * n + (q * (y - M * q) + x \div M)
        /\ u \div M \in 0 .. q - 1 /\ v - M * q \in 0 .. s - 1
        /\ p = q * n + (q * (v - M * q) + u \div M)
    BY <1>2, <1>4, <1>9 DEF PlaceCase
  <2>2. PICK k \in 0 .. q - 1, l \in 0 .. q - 1 : k = x \div M /\ l = u \div M
    BY <2>1
  <2>3. PICK i \in 0 .. s - 1, j \in 0 .. s - 1 : i = y - M * q /\ j = v - M * q
    BY <2>1
  <2>4. q * i \in Nat /\ q * j \in Nat
    OBVIOUS
  <2>5. q * i + k = q * j + l /\ q \in Nat \ {0}
    BY <1>2, <2>1, <2>2, <2>3, <2>4
  <2>6. i = j /\ k = l
    BY <2>5, DigitsUnique
  <2>7. y = v
    BY <1>1, <2>3, <2>6
  <2> QED
    BY <1>7, <2>2, <2>6, <2>7
<1>10. CASE p \in q * n + q * s .. q * n + q * s + s - 1
  <2>1. /\ x \div M = q /\ p = q * n + q * s + (y - M * q)
        /\ u \div M = q /\ p = q * n + q * s + (v - M * q)
    BY <1>2, <1>4, <1>10 DEF PlaceCase
  <2>2. y = v
    BY <1>1, <1>2, <2>1
  <2> QED
    BY <1>7, <2>1, <2>2
<1> QED
  BY <1>4, <1>8, <1>9, <1>10 DEF PlaceCase

(* A manager has at most so many tiles, and the one of the last tile of the  *)
(* first row has as many.                                                    *)
LEMMA OwnAtMost ==
  ASSUME NEW M \in Nat \ {0}, NEW q \in Nat, NEW s \in 0 .. M - 1, NEW n, n = M * q + s, NEW m
  PROVE  /\ IsFiniteSet(Own(n, M, m)) /\ Cardinality(Own(n, M, m)) \in Nat
         /\ Cardinality(Own(n, M, m)) <= q * n + q * s + s
<1> DEFINE L == q * n + q * s + s
           f == [p \in Own(n, M, m) |-> Place(M, q, n, s, p[1], p[2])]
<1>1. n \in Nat
  OBVIOUS
<1>2. q * n \in Nat /\ q * s \in Nat /\ L \in Nat
  BY <1>1
<1>3. ASSUME NEW p \in Own(n, M, m) PROVE f[p] \in 0 .. L - 1
  <2>1. p[1] \in 0 .. n - 1 /\ p[2] \in 0 .. n - 1
    BY DEF Own
  <2>2. PlaceCase(M, q, n, s, p[1], p[2], f[p])
    BY <2>1, PlaceCases
  <2> HIDE DEF f
  <2> QED
    BY <1>2, <2>2 DEF PlaceCase
<1>4. ASSUME NEW p \in Own(n, M, m), NEW r \in Own(n, M, m), f[p] = f[r] PROVE p = r
  <2>1. Place(M, q, n, s, p[1], p[2]) = Place(M, q, n, s, r[1], r[2])
    BY <1>4
  <2> QED
    BY <2>1, PlacesDiffer
<1>5. f \in Injection(Own(n, M, m), 0 .. L - 1)
  <2> HIDE DEF L
  <2>1. f \in [Own(n, M, m) -> 0 .. L - 1]
    BY <1>3
  <2> HIDE DEF f
  <2> QED
    BY <1>4, <2>1, Fun_IsInj
<1>6. IsFiniteSet(0 .. L - 1) /\ Cardinality(0 .. L - 1) = L
  <2> HIDE DEF L
  <2> QED
    BY <1>2, IntervalSize
<1>7. IsFiniteSet(Own(n, M, m)) /\ Cardinality(Own(n, M, m)) <= L
  <2> HIDE DEF L, f
  <2> QED
    BY <1>5, <1>6, FS_Injection
<1> QED
  BY <1>7, FS_CardinalityType

(* The row of block k that manager m owns in column x.                       *)
Fits(M, x, m, k, z) == z \in M * k .. M * k + M - 1 /\ (x + z) % M = m /\ z \div M = k

(* There is one in every block.                                              *)
LEMMA FitsIn ==
  ASSUME NEW M \in Nat \ {0}, NEW x \in Int, NEW m \in 0 .. M - 1, NEW k \in Int
  PROVE  \E z : Fits(M, x, m, k, z)
<1>1. PICK a \in Int, r \in 0 .. M - 1 : m - x = M * a + r
  <2>1. PICK u \in Int : u = m - x
    OBVIOUS
  <2>2. u = M * (u \div M) + (u % M) /\ u \div M \in Int /\ u % M \in 0 .. M - 1
    BY DivMod
  <2> QED
    BY <2>1, <2>2
<1>2. M * k \in Int /\ M * a \in Int
  OBVIOUS
<1>3. PICK z : z = M * k + r
  OBVIOUS
<1>4. z \in M * k .. M * k + M - 1
  BY <1>2, <1>3
<1>5. z \div M = k
  BY <1>3, DivModUnique
<1>6. (x + z) % M = m
  <2>1. k - a \in Int /\ M * (k - a) = M * k - M * a
    OBVIOUS
  <2>2. x + z = M * (k - a) + m
    BY <1>1, <1>2, <1>3, <2>1
  <2>3. (M * (k - a) + m) % M = m
    BY <2>1, DivModUnique
  <2> QED
    BY <2>2, <2>3
<1> QED
  BY <1>4, <1>5, <1>6 DEF Fits

(* It is below the last whole block.                                         *)
LEMMA FitsBelow ==
  ASSUME NEW M \in Nat \ {0}, NEW q \in Nat, NEW k \in 0 .. q - 1, NEW x, NEW m, NEW z, Fits(M, x, m, k, z)
  PROVE  z \in 0 .. M * q - 1
<1>1. M * (k + 1) <= M * q /\ M * q \in Int
  BY ProductRises
<1>2. M * (k + 1) = M * k + M /\ M * k \in Nat
  OBVIOUS
<1> QED
  BY <1>1, <1>2 DEF Fits

(* A place taken by a tile of the manager.                                   *)
OwnAt(M, q, n, s, m, t) == \E p \in Own(n, M, m) : Place(M, q, n, s, p[1], p[2]) = t

(* Manager s - 1, or any if the blocks come out even, has a tile at every    *)
(* place.                                                                    *)
LEMMA PlaceTaken ==
  ASSUME NEW M \in Nat \ {0}, NEW q \in Nat, NEW s \in 0 .. M - 1, NEW n, n = M * q + s,
         NEW m \in 0 .. M - 1, s = 0 \/ m = s - 1,
         NEW t \in 0 .. q * n + q * s + s - 1
  PROVE  OwnAt(M, q, n, s, m, t)
<1>1. n \in Nat /\ M * q \in Nat
  OBVIOUS
<1>2. q * n \in Nat /\ q * s \in Nat
  BY <1>1
<1>3. CASE t < q * n
  <2>1. q \in Nat \ {0}
    BY <1>1, <1>3
  <2>2. PICK x \in 0 .. n - 1, k \in 0 .. q - 1 : t = q * x + k
    <3>1. t \div q \in 0 .. n - 1
      <4>1. t \in Nat
        BY <1>2
      <4>2. t < q * n => t \div q \in 0 .. n - 1
        BY <1>1, <2>1, <4>1, QuotientBelow
      <4> QED
        BY <1>3, <4>2
    <3>2. t = q * (t \div q) + (t % q) /\ t % q \in 0 .. q - 1
      BY <1>2, <2>1, DivMod
    <3> QED
      BY <3>1, <3>2
  <2>3. PICK y : Fits(M, x, m, k, y)
    BY FitsIn
  <2>4. y \in 0 .. M * q - 1
    BY <2>3, FitsBelow
  <2>5. y \in 0 .. n - 1 /\ y < M * q
    BY <1>1, <2>4
  <2>6. <<x, y>> \in Own(n, M, m)
    BY <2>3, <2>5 DEF Own, Fits
  <2>7. Place(M, q, n, s, x, y) = t
    BY <2>2, <2>3, <2>5 DEF Place, Fits
  <2> QED
    BY <2>6, <2>7 DEF OwnAt
<1>4. CASE t >= q * n /\ t < q * n + q * s
  <2>1. PICK e \in 0 .. q * s - 1 : t = q * n + e
    <3>1. t - q * n \in 0 .. q * s - 1 /\ t = q * n + (t - q * n)
      BY <1>2, <1>4
    <3> QED
      BY <3>1
  <2>2. q \in Nat \ {0} /\ e \in Nat
    BY <1>2, <2>1
  <2>3. PICK j \in 0 .. s - 1, k \in 0 .. q - 1 : e = q * j + k
    <3>1. e \div q \in 0 .. s - 1
      <4>1. e < q * s
        BY <1>2, <2>1
      <4> s \in Nat
        OBVIOUS
      <4>2. e < q * s => e \div q \in 0 .. s - 1
        BY <2>2, QuotientBelow
      <4> QED
        BY <4>1, <4>2
    <3>2. e = q * (e \div q) + (e % q) /\ e % q \in 0 .. q - 1
      BY <2>2, DivMod
    <3> QED
      BY <3>1, <3>2
  <2>4. PICK y \in 0 .. n - 1 : y = M * q + j
    BY <1>1
  <2>5. PICK x : Fits(M, y, m, k, x)
    BY FitsIn
  <2>6. x \in 0 .. M * q - 1
    BY <2>5, FitsBelow
  <2>7. x \in 0 .. n - 1 /\ x < M * q /\ ~(y < M * q) /\ y - M * q = j
    BY <1>1, <2>4, <2>6
  <2>8. (x + y) % M = m
    <3>1. x + y = y + x
      BY <2>4, <2>6
    <3> QED
      BY <2>5, <3>1 DEF Fits
  <2>9. <<x, y>> \in Own(n, M, m)
    BY <2>7, <2>8 DEF Own
  <2>10. x \div M = k
    BY <2>5 DEF Fits
  <2>11. Place(M, q, n, s, x, y) = t
    <3>1. Place(M, q, n, s, x, y) = q * n + (q * (y - M * q) + x \div M)
      BY <2>7, Zenon DEF Place
    <3> QED
      BY <2>1, <2>3, <2>7, <2>10, <3>1
  <2> QED
    BY <2>9, <2>11 DEF OwnAt
<1>5. CASE t >= q * n + q * s
  <2>1. PICK j \in 0 .. s - 1 : t = q * n + q * s + j
    <3>1. t - (q * n + q * s) \in 0 .. s - 1 /\ t = q * n + q * s + (t - (q * n + q * s))
      BY <1>2, <1>5
    <3> QED
      BY <3>1
  <2>2. PICK x \in 0 .. n - 1, y \in 0 .. n - 1 : y = M * q + j /\ x = M * q + (s - 1 - j)
    BY <1>1
  <2>3. (x + y) % M = m
    <3>1. M * (2 * q) = 2 * (M * q) /\ 2 * q \in Int
      OBVIOUS
    <3>2. x + y = M * (2 * q) + m
      BY <1>1, <2>1, <2>2, <3>1
    <3>3. (M * (2 * q) + m) % M = m
      BY <3>1, DivModUnique
    <3> QED
      BY <3>2, <3>3
  <2>4. <<x, y>> \in Own(n, M, m)
    BY <2>3 DEF Own
  <2>5. Place(M, q, n, s, x, y) = t
    <3>1. ~(y < M * q) /\ ~(x < M * q) /\ y - M * q = j
      BY <1>1, <2>2
    <3>2. Place(M, q, n, s, x, y) = q * n + q * s + (y - M * q)
      BY <3>1, Zenon DEF Place
    <3> QED
      BY <2>1, <3>1, <3>2
  <2> QED
    BY <2>4, <2>5 DEF OwnAt
<1> QED
  BY <1>2, <1>3, <1>4, <1>5

(* n tiles per dimension shared out to M managers; the largest share.        *)
Divided(n, M, q, s) == M \in Nat \ {0} /\ q \in Nat /\ s \in 0 .. M - 1 /\ n = M * q + s
FullShare(n, M, q, s, m) == Cardinality(Own(n, M, m)) = q * n + q * s + s

(* That manager has the largest share.                                       *)
LEMMA OwnReached ==
  ASSUME NEW n, NEW M, NEW q, NEW s, Divided(n, M, q, s), NEW m
  PROVE  m \in 0 .. M - 1 /\ (s = 0 \/ m = s - 1) => FullShare(n, M, q, s, m)
<1> SUFFICES ASSUME m \in 0 .. M - 1, s = 0 \/ m = s - 1
             PROVE  Cardinality(Own(n, M, m)) = q * n + q * s + s
  BY DEF FullShare
<1> M \in Nat \ {0} /\ q \in Nat /\ s \in 0 .. M - 1 /\ n = M * q + s
  BY DEF Divided
<1> DEFINE L == q * n + q * s + s
           f == [p \in Own(n, M, m) |-> Place(M, q, n, s, p[1], p[2])]
<1>1. n \in Nat
  OBVIOUS
<1>2. q * n \in Nat /\ q * s \in Nat /\ L \in Nat
  BY <1>1
<1>3. IsFiniteSet(Own(n, M, m)) /\ Cardinality(Own(n, M, m)) \in Nat /\ Cardinality(Own(n, M, m)) <= L
  BY OwnAtMost
<1>4. ASSUME NEW p \in Own(n, M, m) PROVE f[p] \in 0 .. L - 1
  <2>1. p[1] \in 0 .. n - 1 /\ p[2] \in 0 .. n - 1
    BY DEF Own
  <2>2. PlaceCase(M, q, n, s, p[1], p[2], f[p])
    BY <2>1, PlaceCases
  <2> HIDE DEF f
  <2> QED
    BY <1>2, <2>2 DEF PlaceCase
<1>5. \A t \in 0 .. L - 1 : \E p \in Own(n, M, m) : f[p] = t
  <2> TAKE t \in 0 .. L - 1
  <2>1. OwnAt(M, q, n, s, m, t)
    BY PlaceTaken
  <2> QED
    BY <2>1 DEF OwnAt
<1>6. f \in Surjection(Own(n, M, m), 0 .. L - 1)
  <2> HIDE DEF L
  <2>1. f \in [Own(n, M, m) -> 0 .. L - 1]
    BY <1>4
  <2> HIDE DEF f
  <2> QED
    BY <1>5, <2>1, Fun_IsSurj
<1>7. Cardinality(0 .. L - 1) = L
  <2> HIDE DEF L
  <2> QED
    BY <1>2, IntervalSize
<1>8. Cardinality(0 .. L - 1) <= Cardinality(Own(n, M, m))
  <2> HIDE DEF f, L
  <2> QED
    BY <1>3, <1>6, FS_Surjection
<1>9. L <= Cardinality(Own(n, M, m))
  <2> HIDE DEF L
  <2> QED
    BY <1>7, <1>8
<1> QED
  <2> HIDE DEF f
  <2> QED
    BY <1>2, <1>3, <1>9

(* Some manager has the largest share.                                       *)
LEMMA SomeFullShare ==
  ASSUME NEW n, NEW M, NEW q, NEW s, Divided(n, M, q, s)
  PROVE  \E m \in 0 .. M - 1 : FullShare(n, M, q, s, m)
<1>1. \E m \in 0 .. M - 1 : s = 0 \/ m = s - 1
  <2>1. s = 0 => 0 \in 0 .. M - 1
    BY DEF Divided
  <2>2. s # 0 => s - 1 \in 0 .. M - 1
    BY DEF Divided
  <2> QED
    BY <2>1, <2>2
<1> QED
  BY <1>1, OwnReached

(****************************************************************************)
(* The grid.                                                                 *)
(****************************************************************************)
(* The tiles per dimension are a power of two, or none (normalizeConfig).    *)
LEMMA GridSize ==
  ASSUME NEW c, IsConfig(c)
  PROVE  TilesPerDim(c) = 0 \/ \E K \in Nat : TilesPerDim(c) = Pow2[K]
<1>1. PICK a \in Nat : CountVertices(c) = Pow2[a]
  <2>1. c.vertices \in Nat \ {0}
    BY DEF IsConfig
  <2>2. Log2Up(c.vertices) \in Nat
    BY <2>1, Log2UpIs
  <2> QED
    BY <2>2 DEF CountVertices
<1>2. PICK b \in Nat : c.perTile = Pow2[b]
  BY DEF IsConfig
<1>3. TilesPerDim(c) = Pow2[a] \div Pow2[b]
  BY <1>1, <1>2 DEF TilesPerDim
<1>4. CASE b <= a
  <2>1. a - b \in Nat
    BY <1>4
  <2> QED
    BY <1>3, <1>4, <2>1, Pow2Div
<1>5. CASE a < b
  BY <1>3, <1>5, Pow2Div
<1> QED
  BY <1>4, <1>5

(* One traversal, there and back, n tiles per dimension.                     *)
BothWays(c, n) ==
  /\ \A x \in 0 .. n - 1, y \in 0 .. n - 1 :
       XY2D(c, x, y) \in 0 .. n * n - 1 /\ D2XY(c, XY2D(c, x, y)) = <<x, y>>
  /\ \A d \in 0 .. n * n - 1 : \E x \in 0 .. n - 1, y \in 0 .. n - 1 :
       D2XY(c, d) = <<x, y>> /\ XY2D(c, x, y) = d

(* Row and column of a tile number.                                          *)
LEMMA DigitsBack ==
  ASSUME NEW n \in Nat, NEW d \in 0 .. n * n - 1
  PROVE  /\ n \in Nat \ {0} /\ d \div n \in 0 .. n - 1 /\ d - (d \div n) * n \in 0 .. n - 1
         /\ (d \div n) * n + (d - (d \div n) * n) = d
<1>1. n \in Nat \ {0} /\ d \in Nat /\ n * n \in Nat
  OBVIOUS
<1>2. d < n * n
  BY <1>1
<1>3. PICK a \in Int, r \in 0 .. n - 1 : a = d \div n /\ d = n * a + r
  <2>1. d = n * (d \div n) + (d % n) /\ d \div n \in Int /\ d % n \in 0 .. n - 1
    BY <1>1, DivMod
  <2> QED
    BY <2>1
<1>4. d < n * n => d \div n \in 0 .. n - 1
  BY <1>1, QuotientBelow
<1>5. a * n \in Int /\ n * a = a * n
  OBVIOUS
<1>6. d - a * n = r /\ a * n + (d - a * n) = d
  BY <1>3, <1>5
<1> QED
  BY <1>1, <1>2, <1>3, <1>4, <1>6

(* The tile number of a row and a column.                                    *)
LEMMA DigitsForth ==
  ASSUME NEW n \in Nat, NEW x \in 0 .. n - 1, NEW y \in 0 .. n - 1
  PROVE  /\ y * n + x \in 0 .. n * n - 1
         /\ (y * n + x) \div n = y
         /\ (y * n + x) - ((y * n + x) \div n) * n = x
<1>1. n \in Nat \ {0} /\ y * n = n * y /\ n * y \in Int
  OBVIOUS
<1>2. n * y + x \in 0 .. n * n - 1
  BY DigitsBelow
<1>3. (n * y + x) \div n = y
  BY <1>1, DivModUnique
<1>4. (y * n + x) \div n = y
  BY <1>1, <1>3
<1>5. (y * n + x) - y * n = x
  BY <1>1
<1> QED
  BY <1>1, <1>2, <1>4, <1>5

(* Each of the three traversals is one to one, and knows the way back.       *)
LEMMA TraversalBothWays ==
  ASSUME NEW c, IsConfig(c), NEW n, n = TilesPerDim(c)
  PROVE  n \in Nat /\ BothWays(c, n)
<1>1. n = 0 \/ \E K \in Nat : n = Pow2[K]
  BY GridSize
<1>2. n \in Nat
  BY <1>1, Pow2Grows
<1>3. CASE n = 0
  BY <1>3 DEF BothWays
<1>4. CASE n # 0 /\ c.traversal = "hilbert"
  <2>1. PICK K \in Nat : n = Pow2[K]
    BY <1>1, <1>4
  <2>2. \A x, y : XY2D(c, x, y) = HilbertXY2D(n, x, y)
    BY <1>4 DEF XY2D
  <2>3. \A d : D2XY(c, d) = HilbertD2XY(n, d)
    BY <1>4 DEF D2XY
  <2> QED
    BY <1>2, <2>1, <2>2, <2>3, HilbertBothWays DEF BothWays
<1>5. CASE n # 0 /\ c.traversal = "row"
  <2>1. \A x, y : XY2D(c, x, y) = y * n + x
    BY <1>5 DEF XY2D, RowXY2D
  <2>2. \A d : D2XY(c, d) = <<d - (d \div n) * n, d \div n>>
    BY <1>5 DEF D2XY, RowD2XY
  <2>3. ASSUME NEW x \in 0 .. n - 1, NEW y \in 0 .. n - 1
        PROVE  XY2D(c, x, y) \in 0 .. n * n - 1 /\ D2XY(c, XY2D(c, x, y)) = <<x, y>>
    <3>1. /\ y * n + x \in 0 .. n * n - 1 /\ (y * n + x) \div n = y
          /\ (y * n + x) - ((y * n + x) \div n) * n = x
      BY <1>2, DigitsForth
    <3>2. D2XY(c, y * n + x) = <<x, y>>
      BY <2>2, <3>1, Zenon
    <3> QED
      BY <2>1, <3>1, <3>2, Zenon
  <2>4. ASSUME NEW d \in 0 .. n * n - 1
        PROVE  \E x \in 0 .. n - 1, y \in 0 .. n - 1 : D2XY(c, d) = <<x, y>> /\ XY2D(c, x, y) = d
    <3>1. PICK y \in 0 .. n - 1, x \in 0 .. n - 1 :
             y = d \div n /\ x = d - (d \div n) * n /\ y * n + x = d
      <4>1. /\ d \div n \in 0 .. n - 1 /\ d - (d \div n) * n \in 0 .. n - 1
            /\ (d \div n) * n + (d - (d \div n) * n) = d
        BY <1>2, DigitsBack, Zenon
      <4> QED
        BY <4>1, Zenon
    <3> QED
      BY <2>1, <2>2, <3>1, Zenon
  <2> QED
    BY <1>2, <2>3, <2>4 DEF BothWays
<1>6. CASE n # 0 /\ c.traversal = "column"
  <2>1. \A x, y : XY2D(c, x, y) = x * n + y
    BY <1>6 DEF XY2D, ColumnXY2D
  <2>2. \A d : D2XY(c, d) = <<d \div n, d - (d \div n) * n>>
    BY <1>6 DEF D2XY, ColumnD2XY
  <2>3. ASSUME NEW x \in 0 .. n - 1, NEW y \in 0 .. n - 1
        PROVE  XY2D(c, x, y) \in 0 .. n * n - 1 /\ D2XY(c, XY2D(c, x, y)) = <<x, y>>
    <3>1. /\ x * n + y \in 0 .. n * n - 1 /\ (x * n + y) \div n = x
          /\ (x * n + y) - ((x * n + y) \div n) * n = y
      BY <1>2, DigitsForth
    <3>2. D2XY(c, x * n + y) = <<x, y>>
      BY <2>2, <3>1, Zenon
    <3> QED
      BY <2>1, <3>1, <3>2, Zenon
  <2>4. ASSUME NEW d \in 0 .. n * n - 1
        PROVE  \E x \in 0 .. n - 1, y \in 0 .. n - 1 : D2XY(c, d) = <<x, y>> /\ XY2D(c, x, y) = d
    <3>1. PICK x \in 0 .. n - 1, y \in 0 .. n - 1 :
             x = d \div n /\ y = d - (d \div n) * n /\ x * n + y = d
      <4>1. /\ d \div n \in 0 .. n - 1 /\ d - (d \div n) * n \in 0 .. n - 1
            /\ (d \div n) * n + (d - (d \div n) * n) = d
        BY <1>2, DigitsBack, Zenon
      <4> QED
        BY <4>1, Zenon
    <3> QED
      BY <2>1, <2>2, <3>1, Zenon
  <2> QED
    BY <1>2, <2>3, <2>4 DEF BothWays
<1>7. c.traversal \in {"hilbert", "row", "column"}
  BY DEF IsConfig
<1> QED
  BY <1>2, <1>3, <1>4, <1>5, <1>6, <1>7

(* So the tile ids are those below countTiles, each of one tile.             *)
LEMMA CoversAll ==
  ASSUME NEW c, IsConfig(c)
  PROVE  /\ \A tile \in Tiles(c) : D2XY(c, XY2D(c, tile[1], tile[2])) = tile
         /\ {XY2D(c, tile[1], tile[2]) : tile \in Tiles(c)} = 0 .. CountTiles(c) - 1
<1>1. PICK n : n = TilesPerDim(c)
  OBVIOUS
<1>2. n \in Nat /\ BothWays(c, n)
  BY <1>1, TraversalBothWays
<1>3. Tiles(c) = (0 .. n - 1) \X (0 .. n - 1) /\ CountTiles(c) = n * n
  BY <1>1 DEF Tiles, CountTiles
<1>4. ASSUME NEW tile \in Tiles(c)
      PROVE  /\ D2XY(c, XY2D(c, tile[1], tile[2])) = tile
             /\ XY2D(c, tile[1], tile[2]) \in 0 .. n * n - 1
  <2>1. PICK x \in 0 .. n - 1, y \in 0 .. n - 1 : tile = <<x, y>>
    BY <1>3
  <2>2. XY2D(c, x, y) \in 0 .. n * n - 1 /\ D2XY(c, XY2D(c, x, y)) = <<x, y>>
    BY <1>2 DEF BothWays
  <2>3. tile[1] = x /\ tile[2] = y
    BY <2>1
  <2> QED
    BY <2>1, <2>2, <2>3, Zenon
<1>5. ASSUME NEW d \in 0 .. n * n - 1
      PROVE  \E tile \in Tiles(c) : XY2D(c, tile[1], tile[2]) = d
  <2>1. PICK x \in 0 .. n - 1, y \in 0 .. n - 1 : XY2D(c, x, y) = d
    BY <1>2 DEF BothWays
  <2>2. <<x, y>> \in Tiles(c) /\ <<x, y>>[1] = x /\ <<x, y>>[2] = y
    BY <1>3
  <2> QED
    BY <2>1, <2>2
<1> QED
  BY <1>3, <1>4, <1>5

(* Meta tiles overrun their array unless they cut the grid evenly.           *)
LEMMA OverrunIs ==
  ASSUME NEW c, IsConfig(c), TwoLevel(c)
  PROVE  Overrun(c) <=> TilesPerDim(c) % MetasPerDim(c) # 0
<1>1. PICK n \in Nat : n = TilesPerDim(c)
  BY TraversalBothWays
<1>2. PICK M \in Nat \ {0} : M = MetasPerDim(c) /\ M <= n
  BY <1>1 DEF TwoLevel, MetasPerDim, IsConfig
<1>3. PICK k \in Int, r \in 0 .. M - 1 : k = n \div M /\ r = n % M /\ n = M * k + r
  <2>1. n = M * (n \div M) + (n % M) /\ n \div M \in Int /\ n % M \in 0 .. M - 1
    BY DivMod
  <2> QED
    BY <2>1
<1>4. k \in Nat \ {0}
  <2> SUFFICES ASSUME k <= 0 PROVE FALSE
    OBVIOUS
  <2>1. M * k <= M * 0
    BY ProductRises
  <2>2. r = n /\ k = 0
    BY <1>2, <1>3, <2>1
  <2> QED
    BY <1>2, <2>2
<1>5. PICK b \in Nat \ {0}, a \in Nat, t \in Nat : b = k * k /\ a = M * M /\ t = n * n
  BY <1>4
<1>6. TilesPerMeta(c) = b /\ CountMetas(c) = a /\ CountTiles(c) = t
  BY <1>1, <1>2, <1>3, <1>5 DEF TilesPerMeta, CountMetas, CountTiles
<1>7. /\ \A tile \in Tiles(c) : XY2D(c, tile[1], tile[2]) \in 0 .. t - 1
      /\ \A d \in 0 .. t - 1 : \E tile \in Tiles(c) : XY2D(c, tile[1], tile[2]) = d
  <2>1. {XY2D(c, tile[1], tile[2]) : tile \in Tiles(c)} = 0 .. t - 1
    BY <1>6, CoversAll
  <2> QED
    BY <2>1
<1>8. Overrun(c) <=> \E d \in 0 .. t - 1 : d \div b >= a
  BY <1>6, <1>7 DEF Overrun, MetaTileId
<1>9. b * a = (M * k) * (M * k) /\ b * a \in Nat
  BY <1>5
<1>10. CASE r = 0
  <2>1. t = b * a
    BY <1>3, <1>5, <1>9, <1>10
  <2>2. \A d \in 0 .. t - 1 : ~(d \div b >= a)
    <3> TAKE d \in 0 .. t - 1
    <3>1. d \in Nat /\ d < b * a
      BY <2>1
    <3>2. d < b * a => d \div b \in 0 .. a - 1
      BY <3>1, QuotientBelow
    <3> QED
      BY <3>1, <3>2
  <2> QED
    BY <1>1, <1>2, <1>3, <1>8, <1>10, <2>2
<1>11. CASE r # 0
  <2>1. b * a \in 0 .. t - 1
    <3>1. PICK p \in Nat : p = M * k
      BY <1>4
    <3>2. n = p + r /\ r > 0 /\ b * a = p * p /\ p * r \in Nat /\ r * r \in Nat /\ r * r > 0
      BY <1>3, <1>9, <1>11, <3>1
    <3>3. t = p * p + 2 * (p * r) + r * r
      BY <1>5, <3>2
    <3>4. p * p \in Nat
      OBVIOUS
    <3> QED
      BY <3>2, <3>3, <3>4
  <2>2. (b * a) \div b = a
    BY <1>5, ProductDiv
  <2>3. \E d \in 0 .. t - 1 : d \div b >= a
    BY <1>5, <2>1, <2>2
  <2> QED
    BY <1>1, <1>2, <1>3, <1>8, <1>11, <2>3
<1> QED
  BY <1>10, <1>11

(* What a manager owns, as ids and as tiles.                                 *)
LEMMA OwnTilesAre ==
  ASSUME NEW c, IsConfig(c), NEW n, n = TilesPerDim(c), NEW m
  PROVE  /\ IsFiniteSet(OwnTiles(c, m))
         /\ Cardinality(OwnTiles(c, m)) = Cardinality(Own(n, c.managers, m))
<1> DEFINE O == OwnTiles(c, m)
           P == Own(n, c.managers, m)
           f == [id \in O |-> TileOfId(c, id)]
<1>1. n \in Nat /\ n * n \in Nat
  BY TraversalBothWays
<1>2. O = {id \in 0 .. n * n - 1 :
             ((id \div n) + (id - (id \div n) * n)) % c.managers = m}
  BY DEF OwnTiles, CountTiles, ManagerOf, TileOfId
<1>3. \A id : TileOfId(c, id) = <<id \div n, id - (id \div n) * n>>
  BY DEF TileOfId
<1>4. IsFiniteSet(O)
  <2>1. IsFiniteSet(0 .. n * n - 1)
    BY <1>1, FS_Interval
  <2>2. O \subseteq 0 .. n * n - 1
    BY <1>2
  <2> HIDE DEF O
  <2> QED
    BY <2>1, <2>2, FS_Subset
<1>5. ASSUME NEW id \in O PROVE f[id] \in P
  <2>1. id \in 0 .. n * n - 1
    BY <1>2
  <2>2. id \div n \in 0 .. n - 1 /\ id - (id \div n) * n \in 0 .. n - 1
    BY <1>1, <2>1, DigitsBack, Zenon
  <2>3. f[id] = <<id \div n, id - (id \div n) * n>>
    BY <1>3
  <2>4. ((id \div n) + (id - (id \div n) * n)) % c.managers = m
    BY <1>2
  <2> HIDE DEF f, O
  <2> QED
    BY <2>2, <2>3, <2>4 DEF Own
<1>6. ASSUME NEW a \in O, NEW b \in O, f[a] = f[b] PROVE a = b
  <2>1. a \in 0 .. n * n - 1 /\ b \in 0 .. n * n - 1
    BY <1>2
  <2>2. f[a] = <<a \div n, a - (a \div n) * n>> /\ f[b] = <<b \div n, b - (b \div n) * n>>
    BY <1>3
  <2>3. a \div n = b \div n /\ a - (a \div n) * n = b - (b \div n) * n
    <3>1. <<a \div n, a - (a \div n) * n>> = <<b \div n, b - (b \div n) * n>>
      <4> HIDE DEF f
      <4> QED
        BY <1>6, <2>2, Zenon
    <3>2. PICK i, j, k, l : i = a \div n /\ j = a - (a \div n) * n /\ k = b \div n /\ l = b - (b \div n) * n
      OBVIOUS
    <3>3. <<i, j>> = <<k, l>>
      BY <3>1, <3>2, Zenon
    <3> QED
      BY <3>2, <3>3, Zenon
  <2>4. (a \div n) * n + (a - (a \div n) * n) = a
    BY <1>1, <2>1, DigitsBack, Zenon
  <2>5. (b \div n) * n + (b - (b \div n) * n) = b
    BY <1>1, <2>1, DigitsBack, Zenon
  <2> QED
    BY <2>3, <2>4, <2>5, Zenon
<1>7. ASSUME NEW p \in P PROVE \E id \in O : f[id] = p
  <2>1. PICK x \in 0 .. n - 1, y \in 0 .. n - 1 : p = <<x, y>> /\ (x + y) % c.managers = m
    BY DEF Own
  <2>2. PICK id : id = x * n + y
    OBVIOUS
  <2>3. id \in 0 .. n * n - 1 /\ id \div n = x /\ id - (id \div n) * n = y
    BY <1>1, <2>2, DigitsForth, Zenon
  <2>4. ((id \div n) + (id - (id \div n) * n)) % c.managers = m
    BY <2>1, <2>3, Zenon
  <2>5. id \in O
    BY <1>2, <2>3, <2>4
  <2>6. TileOfId(c, id) = <<x, y>>
    BY <1>3, <2>3, Zenon
  <2> QED
    BY <2>1, <2>5, <2>6
<1>8. f \in Bijection(O, P)
  <2>1. f \in [O -> P]
    BY <1>5
  <2> HIDE DEF f, O, P
  <2> QED
    BY <1>6, <1>7, <2>1, Fun_IsBij
<1> HIDE DEF f, O, P
<1>9. ExistsBijection(O, P)
  BY <1>8 DEF ExistsBijection
<1>10. Cardinality(P) = Cardinality(O)
  BY <1>4, <1>9, FS_Bijection
<1> QED
  BY <1>4, <1>10 DEF O, P

(* A manager's list is too short exactly if the largest share is longer than *)
(* it.                                                                       *)
LEMMA SomeManagerDies ==
  ASSUME NEW c, IsConfig(c)
  PROVE  (\E m \in 0 .. c.managers - 1 : ManagerDies(c, m)) <=> LargestShare(c) > MappingSize(c)
<1>1. PICK n \in Nat, M \in Nat \ {0} : n = TilesPerDim(c) /\ M = c.managers
  BY TraversalBothWays DEF IsConfig
<1>2. PICK q \in Nat, s \in 0 .. M - 1 : q = n \div M /\ s = n % M /\ n = M * q + s
  <2>1. n = M * (n \div M) + (n % M) /\ n \div M \in Int /\ n % M \in 0 .. M - 1
    BY DivMod
  <2>2. PICK k \in Int : k = n \div M
    BY <2>1
  <2>3. k >= 0
    <3> SUFFICES ASSUME k <= -1 PROVE FALSE
      BY <2>2
    <3>1. M * k <= M * (-1)
      BY ProductRises
    <3> QED
      BY <2>1, <2>2, <3>1
  <2> QED
    BY <2>1, <2>2, <2>3
<1>3. PICK L : L = q * n + q * s + s
  OBVIOUS
<1>4. L \in Nat /\ LargestShare(c) = L
  <2>1. q * n \in Nat /\ q * s \in Nat
    BY <1>1
  <2>2. LargestShare(c) = q * n + q * s + s
    BY <1>1, <1>2, Zenon DEF LargestShare
  <2> QED
    BY <1>3, <2>1, <2>2
<1>5. MappingSize(c) \in Int
  <2>1. PICK t \in Nat : t = CountTiles(c)
    BY <1>1 DEF CountTiles
  <2>2. \A k \in Nat \ {0} : (t + k - 1) \div k \in Int
    OBVIOUS
  <2> QED
    BY <1>1, <2>1, <2>2 DEF MappingSize
<1>6. \A m : ManagerDies(c, m) <=> Cardinality(Own(n, M, m)) > MappingSize(c)
  BY <1>1, OwnTilesAre DEF ManagerDies
<1>7. \A m : Cardinality(Own(n, M, m)) \in Nat /\ Cardinality(Own(n, M, m)) <= L
  BY <1>2, <1>3, OwnAtMost
<1>8. \E m \in 0 .. M - 1 : Cardinality(Own(n, M, m)) = L
  <2>1. Divided(n, M, q, s)
    BY <1>2 DEF Divided
  <2>2. PICK m \in 0 .. M - 1 : FullShare(n, M, q, s, m)
    BY <2>1, SomeFullShare
  <2> QED
    BY <1>3, <2>2 DEF FullShare
<1> QED
  BY <1>1, <1>4, <1>5, <1>6, <1>7, <1>8

(* When start-up fails, for every configuration.                             *)
LEMMA ConfigLaidOut ==
  ASSUME NEW c, IsConfig(c)
  PROVE  /\ TwoLevel(c) => (Overrun(c) <=> TilesPerDim(c) % MetasPerDim(c) # 0)
         /\ Fails(c) <=> Overrun(c) \/ LargestShare(c) > MappingSize(c)
BY OverrunIs, SomeManagerDies DEF Fails

(* The configuration is chosen once.                                         *)
LEMMA ConfigKept ==
  Spec => [](g \in Configs)
<1>1. Init => g \in Configs
  BY DEF Init
<1>2. g \in Configs /\ [Next]_vars => (g \in Configs)'
  BY DEF Next, vars, Insert, Delete, Draw, EndInsert, CompactTile, End
<1> QED
  BY <1>1, <1>2, PTL DEF Spec

(* The traversal visits every tile once and knows the way back, and start-up *)
(* fails exactly when the meta tiles do not cut the grid evenly or the       *)
(* largest share is longer than the list of a manager, for a grid of any     *)
(* size (Hilbert, TileStore::init, MetaTileManager).                         *)
THEOREM GridLaidOut == Spec => []LaidOut
<1>1. ASSUME g \in Configs PROVE LaidOut
  <2>1. IsConfig(g)
    BY <1>1, StoreAssumption
  <2> QED
    BY <2>1, CoversAll, ConfigLaidOut DEF LaidOut
<1>2. g \in Configs => LaidOut
  BY <1>1
<1> QED
  BY <1>2, ConfigKept, PTL

(****************************************************************************)
(* Sorting.                                                                  *)
(****************************************************************************)
(* A sequence of the elements of S, each once, in order.                     *)
IsSorting(o, S, before) ==
  /\ Cardinality(S) \in Nat /\ o \in [1 .. Cardinality(S) -> S]
  /\ \A j \in 1 .. Cardinality(S), k \in 1 .. Cardinality(S) : <<o[j], o[k]>> \in before <=> j < k
  /\ \A x \in S : \E k \in 1 .. Cardinality(S) : o[k] = x

(* InOrder lists a finite set in order.                                      *)
LEMMA InOrderSorts ==
  ASSUME NEW S, IsFiniteSet(S), NEW before, IsOrder(S, before)
  PROVE  IsSorting(InOrder(S, before), S, before)
<1> DEFINE r == Rank(S, before)
           n == Cardinality(S)
           o == InOrder(S, before)
<1>1. n \in Nat
  BY FS_CardinalityType
<1>2. \A x \in S : /\ r[x] \in 0 .. n - 1
                   /\ \A y \in S : <<x, y>> \in before => r[x] < r[y]
  BY RankRises
<1>3. \A x \in S, y \in S : r[x] = r[y] => x = y
  BY RankOnto
<1>4. \A k \in 0 .. n - 1 : \E x \in S : r[x] = k
  BY RankOnto
<1>5. o = [k \in 1 .. n |-> CHOOSE x \in S : r[x] = k - 1]
  <2>1. \A x \in S : r[x] = Cardinality({y \in S : <<y, x>> \in before})
    BY DEF Rank, Before
  <2> DEFINE A(k) == CHOOSE x \in S : r[x] = k - 1
             B(k) == CHOOSE x \in S : Cardinality({y \in S : <<y, x>> \in before}) = k - 1
  <2>2. \A k : A(k) = B(k)
    <3> TAKE k
    <3> HIDE DEF r
    <3> QED
      BY <2>1
  <2>3. o = [k \in 1 .. n |-> B(k)]
    BY DEF InOrder
  <2>4. [k \in 1 .. n |-> A(k)] = [k \in 1 .. n |-> B(k)]
    <3> HIDE DEF A, B, n
    <3> QED
      BY <2>2
  <2> QED
    <3> HIDE DEF o, n, r
    <3> QED
      BY <2>3, <2>4, Zenon
<1> HIDE DEF r, n, o
<1>6. ASSUME NEW k \in 1 .. n PROVE o[k] \in S /\ r[o[k]] = k - 1
  <2>1. k - 1 \in 0 .. n - 1
    BY <1>1
  <2>2. \E x \in S : r[x] = k - 1
    BY <1>4, <2>1
  <2> QED
    BY <1>5, <2>2
<1>7. o \in [1 .. n -> S]
  <2>1. o = [k \in 1 .. n |-> o[k]]
    BY <1>5
  <2> QED
    BY <1>6, <2>1
<1>8. ASSUME NEW j \in 1 .. n, NEW k \in 1 .. n PROVE <<o[j], o[k]>> \in before <=> j < k
  <2>1. o[j] \in S /\ o[k] \in S /\ r[o[j]] = j - 1 /\ r[o[k]] = k - 1
    BY <1>6
  <2>2. j \in Int /\ k \in Int
    OBVIOUS
  <2>3. <<o[j], o[k]>> \in before => j < k
    <3>1. <<o[j], o[k]>> \in before => r[o[j]] < r[o[k]]
      BY <1>2, <2>1
    <3> QED
      BY <2>1, <2>2, <3>1
  <2>4. <<o[k], o[j]>> \in before => k < j
    <3>1. <<o[k], o[j]>> \in before => r[o[k]] < r[o[j]]
      BY <1>2, <2>1
    <3> QED
      BY <2>1, <2>2, <3>1
  <2>5. j < k => o[j] # o[k]
    BY <2>1, <2>2
  <2>6. o[j] = o[k] \/ <<o[j], o[k]>> \in before \/ <<o[k], o[j]>> \in before
    BY <2>1 DEF IsOrder
  <2> QED
    BY <2>2, <2>3, <2>4, <2>5, <2>6
<1>9. ASSUME NEW x \in S PROVE \E k \in 1 .. n : o[k] = x
  <2>1. PICK k \in 1 .. n : k - 1 = r[x]
    <3>1. r[x] \in 0 .. n - 1
      BY <1>2
    <3>2. r[x] + 1 \in 1 .. n /\ (r[x] + 1) - 1 = r[x]
      BY <1>1, <3>1
    <3> QED
      BY <3>2
  <2> QED
    BY <1>3, <1>6, <2>1
<1> QED
  BY <1>1, <1>7, <1>8, <1>9 DEF IsSorting, n, o

(* A finite set of numbers in ascending order.                               *)
IsAscending(o, S) ==
  /\ \E n \in Nat : o \in [1 .. n -> S] /\ \A j \in 1 .. n, k \in 1 .. n : o[j] < o[k] <=> j < k
  /\ \A x \in S : \E k \in DOMAIN o : o[k] = x

(* Ascending lists a finite set of numbers in ascending order.               *)
LEMMA AscendingSorts ==
  ASSUME NEW S \in SUBSET Int, IsFiniteSet(S)
  PROVE  IsAscending(Ascending(S), S)
<1> DEFINE before == {p \in S \X S : p[1] < p[2]}
           o == InOrder(S, before)
<1>1. \A x \in S, y \in S : <<x, y>> \in before <=> x < y
  OBVIOUS
<1>2. IsOrder(S, before)
  <2> HIDE DEF before
  <2> QED
    BY <1>1 DEF IsOrder
<1>3. IsSorting(o, S, before)
  <2> HIDE DEF before
  <2> QED
    BY <1>2, InOrderSorts
<1>4. PICK n \in Nat : n = Cardinality(S)
  BY FS_CardinalityType
<1>5. o \in [1 .. n -> S] /\ \A x \in S : \E k \in 1 .. n : o[k] = x
  <2> HIDE DEF o, before
  <2> QED
    BY <1>3, <1>4 DEF IsSorting
<1>6. ASSUME NEW j \in 1 .. n, NEW k \in 1 .. n PROVE o[j] < o[k] <=> j < k
  <2>1. <<o[j], o[k]>> \in before <=> j < k
    <3> HIDE DEF o, before
    <3> QED
      BY <1>3, <1>4 DEF IsSorting
  <2>2. o[j] \in S /\ o[k] \in S
    BY <1>5
  <2> QED
    <3> HIDE DEF o, before
    <3> QED
      BY <1>1, <2>1, <2>2
<1>7. IsAscending(o, S)
  <2> HIDE DEF o
  <2> QED
    BY <1>5, <1>6 DEF IsAscending
<1> QED
  BY <1>7 DEF Ascending

(* The positions of a list in the order of its edges.                        *)
EdgesSorted(o, all) ==
  LET n == Len(all)
  IN /\ o \in [1 .. n -> 1 .. n]
     /\ \A i \in 1 .. n : \E k \in 1 .. n : o[k] = i
     /\ \A j \in 1 .. n, k \in 1 .. n :
          j < k => EdgeBefore(all[o[j]], all[o[k]]) \/ all[o[j]] = all[o[k]]

(* Edges are ordered by source and then by target.                           *)
LEMMA EdgeOrder ==
  /\ \A a \in Nat \X Nat : ~EdgeBefore(a, a)
  /\ \A a \in Nat \X Nat, b \in Nat \X Nat : a = b \/ EdgeBefore(a, b) \/ EdgeBefore(b, a)
  /\ \A a \in Nat \X Nat, b \in Nat \X Nat, c \in Nat \X Nat :
       EdgeBefore(a, b) /\ EdgeBefore(b, c) => EdgeBefore(a, c)
<1>1. \A a \in Nat \X Nat : ~EdgeBefore(a, a)
  BY DEF EdgeBefore
<1>2. \A a \in Nat \X Nat, b \in Nat \X Nat : a = b \/ EdgeBefore(a, b) \/ EdgeBefore(b, a)
  <2> TAKE a \in Nat \X Nat, b \in Nat \X Nat
  <2>1. PICK i \in Nat, j \in Nat, k \in Nat, l \in Nat : a = <<i, j>> /\ b = <<k, l>>
    OBVIOUS
  <2>2. (i = k /\ j = l) \/ i < k \/ (i = k /\ j < l) \/ k < i \/ (k = i /\ l < j)
    OBVIOUS
  <2> QED
    BY <2>1, <2>2 DEF EdgeBefore
<1>3. \A a \in Nat \X Nat, b \in Nat \X Nat, c \in Nat \X Nat :
       EdgeBefore(a, b) /\ EdgeBefore(b, c) => EdgeBefore(a, c)
  <2> TAKE a \in Nat \X Nat, b \in Nat \X Nat, c \in Nat \X Nat
  <2>1. PICK i \in Nat, j \in Nat : i = a[1] /\ j = a[2]
    OBVIOUS
  <2>2. PICK k \in Nat, l \in Nat : k = b[1] /\ l = b[2]
    OBVIOUS
  <2>3. PICK m \in Nat, n \in Nat : m = c[1] /\ n = c[2]
    OBVIOUS
  <2> QED
    BY <2>1, <2>2, <2>3 DEF EdgeBefore
<1> QED
  BY <1>1, <1>2, <1>3

(* SortedPositions sorts a list of edges.                                    *)
LEMMA SortedPositionsSort ==
  ASSUME NEW all \in Seq(Nat \X Nat)
  PROVE  EdgesSorted(SortedPositions(all), all)
<1> DEFINE D == DOMAIN all
           Earlier(i, j) == EdgeBefore(all[i], all[j]) \/ (all[i] = all[j] /\ i < j)
           before == {p \in D \X D : Earlier(p[1], p[2])}
           o == InOrder(D, before)
<1>1. PICK n \in Nat : n = Len(all) /\ D = 1 .. n
  OBVIOUS
<1>2. IsFiniteSet(D) /\ Cardinality(D) = n
  <2>1. IsFiniteSet(1 .. n) /\ Cardinality(1 .. n) = n
    BY FS_Interval
  <2> HIDE DEF D
  <2> QED
    BY <1>1, <2>1
<1>3. \A i \in D : all[i] \in Nat \X Nat
  OBVIOUS
<1>4. \A i \in D, j \in D : <<i, j>> \in before <=> Earlier(i, j)
  OBVIOUS
<1>5. \A i \in D, j \in D : i \in Int /\ j \in Int
  BY <1>1
<1>6. IsOrder(D, before)
  <2> HIDE DEF before, D
  <2>1. \A i \in D : <<i, i>> \notin before
    BY <1>3, <1>4, <1>5, EdgeOrder
  <2>2. \A i \in D, j \in D : i = j \/ <<i, j>> \in before \/ <<j, i>> \in before
    <3> TAKE i \in D, j \in D
    <3>1. all[i] = all[j] \/ EdgeBefore(all[i], all[j]) \/ EdgeBefore(all[j], all[i])
      BY <1>3, EdgeOrder
    <3>2. i = j \/ i < j \/ j < i
      BY <1>5
    <3>3. i = j \/ Earlier(i, j) \/ Earlier(j, i)
      BY <3>1, <3>2
    <3> QED
      BY <1>4, <3>3
  <2>3. ASSUME NEW i \in D, NEW j \in D, NEW k \in D, <<i, j>> \in before, <<j, k>> \in before
        PROVE  <<i, k>> \in before
    <3>1. Earlier(i, j) /\ Earlier(j, k)
      BY <1>4, <2>3
    <3>2. all[i] = all[j] \/ EdgeBefore(all[i], all[j])
      BY <3>1
    <3>3. all[j] = all[k] \/ EdgeBefore(all[j], all[k])
      BY <3>1
    <3>4. all[i] = all[k] => all[i] = all[j] /\ all[j] = all[k]
      BY <1>3, <3>2, <3>3, EdgeOrder
    <3>5. all[i] = all[k] \/ EdgeBefore(all[i], all[k])
      BY <1>3, <3>2, <3>3, EdgeOrder
    <3>6. all[i] = all[k] => i < k
      BY <1>3, <1>5, <3>1, <3>4, EdgeOrder
    <3> QED
      BY <1>4, <3>5, <3>6
  <2> QED
    BY <2>1, <2>2, <2>3 DEF IsOrder
<1>7. IsSorting(o, D, before)
  <2> HIDE DEF before, D
  <2> QED
    BY <1>2, <1>6, InOrderSorts
<1>8. SortedPositions(all) = o
  BY DEF SortedPositions
<1> HIDE DEF o, before, D
<1>9. o \in [1 .. n -> 1 .. n] /\ \A i \in 1 .. n : \E k \in 1 .. n : o[k] = i
  BY <1>1, <1>2, <1>7 DEF IsSorting
<1>10. \A j \in 1 .. n, k \in 1 .. n :
         j < k => EdgeBefore(all[o[j]], all[o[k]]) \/ all[o[j]] = all[o[k]]
  <2> TAKE j \in 1 .. n, k \in 1 .. n
  <2> HAVE j < k
  <2>1. <<o[j], o[k]>> \in before
    BY <1>1, <1>2, <1>7 DEF IsSorting
  <2>2. o[j] \in D /\ o[k] \in D
    BY <1>1, <1>9
  <2> QED
    BY <1>4, <2>1, <2>2
<1> QED
  BY <1>1, <1>8, <1>9, <1>10 DEF EdgesSorted

(****************************************************************************)
(* What fillCSR keeps.                                                       *)
(****************************************************************************)
(* One step of fillCSR over the sorted list, and the fold of them.           *)
KeepStep(all, deleted, acc, i) ==
  IF all[i] \in deleted \/ all[i] = acc.previous THEN acc
  ELSE [previous |-> all[i], list |-> Append(acc.list, i)]

KeptRun(c, t, all, sorted) ==
  CHOOSE iter :
    iter = [s \in SUBSET DOMAIN sorted |->
              IF s = {} THEN [previous |-> <<c.idMax, c.idMax>>, list |-> <<>>]
              ELSE KeepStep(all, t.deleted, iter[s \ {Max(s)}], sorted[Max(s)])]

(* Kept is the last value of that fold.                                      *)
LEMMA KeptIsRun ==
  ASSUME NEW c, NEW t, NEW all, NEW sorted
  PROVE  Kept(c, t, all, sorted) = KeptRun(c, t, all, sorted)[DOMAIN sorted].list
BY DEF Kept, FoldLeft, MapThenFoldSet, KeptRun, KeepStep

(* The steps, one edge after the other.                                      *)
KeptRunOf(w, n, c, t, all, sorted) ==
  /\ DOMAIN w = 0 .. n /\ w[0] = [previous |-> <<c.idMax, c.idMax>>, list |-> <<>>]
  /\ \A i \in 1 .. n : w[i] = KeepStep(all, t.deleted, w[i - 1], sorted[i])

(* What they work on.                                                        *)
KeptPlaces(n) == [previous : Nat \X Nat, list : Seq(1 .. n)]

(* A step keeps positions positions.                                         *)
LEMMA KeepStepType ==
  ASSUME NEW n \in Nat, NEW all, \A i \in 1 .. n : all[i] \in Nat \X Nat,
         NEW deleted, NEW acc \in KeptPlaces(n), NEW i \in 1 .. n
  PROVE  KeepStep(all, deleted, acc, i) \in KeptPlaces(n)
<1>1. PICK p \in Nat \X Nat, l \in Seq(1 .. n) : acc = [previous |-> p, list |-> l]
  BY DEF KeptPlaces
<1>2. Append(l, i) \in Seq(1 .. n)
  OBVIOUS
<1>3. KeepStep(all, deleted, acc, i) = acc
      \/ KeepStep(all, deleted, acc, i) = [previous |-> all[i], list |-> Append(l, i)]
  BY <1>1 DEF KeepStep
<1>4. [previous |-> all[i], list |-> Append(l, i)] \in KeptPlaces(n)
  <2>1. all[i] \in Nat \X Nat
    OBVIOUS
  <2>2. PICK e \in Nat \X Nat, a \in Seq(1 .. n) : e = all[i] /\ a = Append(l, i)
    BY <1>2, <2>1
  <2> QED
    BY <2>2 DEF KeptPlaces
<1> QED
  BY <1>3, <1>4

(* What is kept is the last of the steps.                                    *)
KeptThrough(n, c, t, all, sorted) ==
  \E w : KeptRunOf(w, n, c, t, all, sorted) /\ Kept(c, t, all, sorted) = w[n].list

(* It is, for any list and any order.                                        *)
LEMMA KeptRunIs ==
  ASSUME NEW c, c.idMax \in Nat, NEW t, NEW n \in Nat,
         NEW all, \A i \in 1 .. n : all[i] \in Nat \X Nat,
         NEW sorted \in [1 .. n -> 1 .. n]
  PROVE  KeptThrough(n, c, t, all, sorted)
<1> DEFINE U == 1 .. n
           P == KeptPlaces(n)
           base == [previous |-> <<c.idMax, c.idMax>>, list |-> <<>>]
           step == [p \in U \X P |-> KeepStep(all, t.deleted, p[2], sorted[p[1]])]
           Runs(f) == f = [s \in SUBSET U |->
                             IF s = {} THEN base
                             ELSE KeepStep(all, t.deleted, f[s \ {Max(s)}], sorted[Max(s)])]
<1>3. step \in [U \X P -> P]
  <2> SUFFICES ASSUME NEW p \in U \X P
               PROVE  KeepStep(all, t.deleted, p[2], sorted[p[1]]) \in P
    OBVIOUS
  <2>1. p[2] \in P /\ sorted[p[1]] \in 1 .. n
    OBVIOUS
  <2> QED
    BY <2>1, KeepStepType
<1>4. base \in P
  <2>1. <<>> \in Seq(1 .. n)
    OBVIOUS
  <2> QED
    BY <2>1 DEF KeptPlaces
<1>5. PICK f : IsLeftFold(f, n, P, base, step)
  <2> HIDE DEF step, base, P
  <2> QED
    BY <1>3, <1>4, LeftFoldExists
<1>6. \A s \in SUBSET U : s # {} => Max(s) \in U /\ s \ {Max(s)} \in SUBSET U
  BY MaxIn
<1>7. Runs(f)
  <2>1. ASSUME NEW s \in SUBSET U, s # {}
        PROVE  f[s] = KeepStep(all, t.deleted, f[s \ {Max(s)}], sorted[Max(s)])
    <3>1. PICK i \in U, r \in P : i = Max(s) /\ r = f[s \ {Max(s)}]
      <4> HIDE DEF P
      <4> QED
        BY <1>5, <1>6, <2>1 DEF IsLeftFold
    <3>2. step[<<i, r>>] = KeepStep(all, t.deleted, r, sorted[i])
      OBVIOUS
    <3> HIDE DEF step, P
    <3> QED
      BY <1>5, <2>1, <3>1, <3>2 DEF IsLeftFold
  <2> HIDE DEF step, base, P
  <2> QED
    BY <1>5, <2>1 DEF IsLeftFold
<1> DEFINE r == KeptRun(c, t, all, sorted)
<1>8. DOMAIN sorted = U
  OBVIOUS
<1>9. Runs(r)
  <2> DEFINE Sized(h) == h = [s \in SUBSET DOMAIN sorted |->
                 IF s = {} THEN base
                 ELSE KeepStep(all, t.deleted, h[s \ {Max(s)}], sorted[Max(s)])]
  <2>1. \A h : Sized(h) <=> Runs(h)
    BY <1>8
  <2>2. r = CHOOSE h : Sized(h)
    BY DEF KeptRun
  <2> HIDE DEF Sized, Runs, r
  <2> QED
    BY <1>7, <2>1, <2>2
<1>10. r[1 .. 0] = base
       /\ \A k \in 1 .. n : r[1 .. k] = KeepStep(all, t.deleted, r[1 .. k - 1], sorted[k])
  <2> HIDE DEF r, base
  <2>1. \A s \in SUBSET U :
          r[s] = IF s = {} THEN base
                 ELSE KeepStep(all, t.deleted, r[s \ {Max(s)}], sorted[Max(s)])
    BY <1>9
  <2> HIDE DEF Runs
  <2>2. r[1 .. 0] = base
    BY <2>1, UpToEach
  <2>3. ASSUME NEW k \in 1 .. n
        PROVE  r[1 .. k] = KeepStep(all, t.deleted, r[1 .. k - 1], sorted[k])
    <3>1. /\ 1 .. k \in SUBSET U /\ 1 .. k # {}
          /\ Max(1 .. k) = k /\ (1 .. k) \ {k} = 1 .. k - 1
      BY UpToEach
    <3>2. r[1 .. k] = KeepStep(all, t.deleted, r[(1 .. k) \ {Max(1 .. k)}], sorted[Max(1 .. k)])
      BY <2>1, <3>1
    <3> QED
      BY <3>1, <3>2
  <2> QED
    BY <2>2, <2>3
<1> DEFINE w == [i \in 0 .. n |-> r[1 .. i]]
<1>11. KeptRunOf(w, n, c, t, all, sorted)
  <2> HIDE DEF r
  <2>1. \A i \in 1 .. n : i \in 0 .. n /\ i - 1 \in 0 .. n
    OBVIOUS
  <2> QED
    BY <1>10, <2>1 DEF KeptRunOf
<1>12. Kept(c, t, all, sorted) = r[1 .. n].list
  BY <1>8, KeptIsRun
<1> QED
  <2> HIDE DEF r
  <2> QED
    BY <1>11, <1>12 DEF KeptThrough

(* What is kept of the first i edges in order: no deleted one, each once, in *)
(* order, and none is missing but the pair of the largest ids.               *)
KeptSound(l, t, all, sorted, i) ==
  \A k \in 1 .. Len(l) : all[l[k]] \notin t.deleted /\ \E p \in 1 .. i : l[k] = sorted[p]
Rising(l, all) ==
  \A j \in 1 .. Len(l), k \in 1 .. Len(l) : j < k => EdgeBefore(all[l[j]], all[l[k]])
Covered(l, c, t, all, x) ==
  x \in t.deleted \/ x = <<c.idMax, c.idMax>> \/ \E k \in 1 .. Len(l) : all[l[k]] = x
KeptOf(l, c, t, all, sorted, i) ==
  /\ l \in Seq(DOMAIN all) /\ Len(l) <= i
  /\ KeptSound(l, t, all, sorted, i) /\ Rising(l, all)
  /\ \A p \in 1 .. i : Covered(l, c, t, all, all[sorted[p]])

KeptSoFar(acc, c, t, all, sorted, i) ==
  /\ KeptOf(acc.list, c, t, all, sorted, i)
  /\ acc.previous = IF Len(acc.list) = 0 THEN <<c.idMax, c.idMax>> ELSE all[acc.list[Len(acc.list)]]
  /\ acc \in KeptPlaces(Len(all))

(* One step more keeps that true.                                            *)
LEMMA KeptOneMore ==
  ASSUME NEW c, NEW t, NEW all \in Seq(Nat \X Nat), NEW sorted, EdgesSorted(sorted, all),
         NEW i \in Nat, i + 1 <= Len(all), NEW acc, KeptSoFar(acc, c, t, all, sorted, i)
  PROVE  KeptSoFar(KeepStep(all, t.deleted, acc, sorted[i + 1]), c, t, all, sorted, i + 1)
<1>1. PICK n \in Nat : n = Len(all) /\ DOMAIN all = 1 .. n /\ \A j \in 1 .. n : all[j] \in Nat \X Nat
  OBVIOUS
<1>2. /\ sorted \in [1 .. n -> 1 .. n] /\ i + 1 \in 1 .. n
      /\ \A j \in 1 .. n, k \in 1 .. n :
           j < k => EdgeBefore(all[sorted[j]], all[sorted[k]]) \/ all[sorted[j]] = all[sorted[k]]
  <2>1. sorted \in [1 .. n -> 1 .. n]
    BY <1>1 DEF EdgesSorted
  <2>2. i + 1 \in 1 .. n
    BY <1>1
  <2>3. \A j \in 1 .. n, k \in 1 .. n :
          j < k => EdgeBefore(all[sorted[j]], all[sorted[k]]) \/ all[sorted[j]] = all[sorted[k]]
    BY <1>1, Zenon DEF EdgesSorted
  <2> QED
    BY <2>1, <2>2, <2>3
<1>3. PICK x \in 1 .. n, e \in Nat \X Nat : x = sorted[i + 1] /\ e = all[x]
  BY <1>1, <1>2
<1>4. PICK l \in Seq(1 .. n), prev \in Nat \X Nat : l = acc.list /\ prev = acc.previous
  BY <1>1 DEF KeptSoFar, KeptPlaces
<1>5. PICK m \in Nat : m = Len(l) /\ m <= i /\ DOMAIN l = 1 .. m
  BY <1>4, SMTT(30) DEF KeptSoFar, KeptOf
<1>6. KeptSound(l, t, all, sorted, i) /\ Rising(l, all)
  BY <1>4 DEF KeptSoFar, KeptOf
<1>7. \A p \in 1 .. i : Covered(l, c, t, all, all[sorted[p]])
  BY <1>4 DEF KeptSoFar, KeptOf
<1>8. prev = IF m = 0 THEN <<c.idMax, c.idMax>> ELSE all[l[m]]
  BY <1>4, <1>5 DEF KeptSoFar
<1>9. \A p \in 1 .. i : p \in 1 .. i + 1
  OBVIOUS
<1>10. \A p \in 1 .. i + 1 : p \in 1 .. i \/ p = i + 1
  OBVIOUS
<1>11. CASE e \in t.deleted \/ e = prev
  <2>1. KeepStep(all, t.deleted, acc, sorted[i + 1]) = acc
    BY <1>3, <1>4, <1>11 DEF KeepStep
  <2>2. Covered(l, c, t, all, e)
    <3>1. CASE m = 0
      BY <1>8, <1>11, <3>1 DEF Covered
    <3>2. CASE m # 0
      <4>1. m \in 1 .. Len(l)
        BY <1>5, <3>2
      <4> QED
        BY <1>8, <1>11, <3>2, <4>1 DEF Covered
    <3> QED
      BY <3>1, <3>2
  <2>3. \A p \in 1 .. i + 1 : Covered(l, c, t, all, all[sorted[p]])
    BY <1>3, <1>7, <1>10, <2>2
  <2>4. KeptSound(l, t, all, sorted, i + 1)
    BY <1>6, <1>9 DEF KeptSound
  <2>5. l \in Seq(DOMAIN all) /\ Len(l) <= i + 1
    BY <1>1, <1>5
  <2>6. KeptOf(l, c, t, all, sorted, i + 1)
    BY <1>6, <2>3, <2>4, <2>5 DEF KeptOf
  <2> QED
    BY <1>4, <2>1, <2>6 DEF KeptSoFar
<1>12. CASE ~(e \in t.deleted \/ e = prev)
  <2>1. PICK a : a = Append(l, x)
    OBVIOUS
  <2>2. /\ a \in Seq(1 .. n) /\ Len(a) = m + 1 /\ a[m + 1] = x
        /\ \A k \in 1 .. m : a[k] = l[k]
    BY <1>5, <2>1
  <2>3. KeepStep(all, t.deleted, acc, sorted[i + 1]) = [previous |-> e, list |-> a]
    BY <1>3, <1>4, <1>12, <2>1, Zenon DEF KeepStep
  <2>4. \A k \in 1 .. m + 1 : k \in 1 .. m \/ k = m + 1
    OBVIOUS
  <2>5. \A j \in 1 .. m, k \in 1 .. m : j < k => EdgeBefore(all[l[j]], all[l[k]])
    BY <1>5, <1>6 DEF Rising
  <2>6. \A k \in 1 .. m : all[l[k]] \notin t.deleted /\ \E p \in 1 .. i : l[k] = sorted[p]
    BY <1>5, <1>6 DEF KeptSound
  <2>7. \A k \in 1 .. m : all[l[k]] \in Nat \X Nat
    <3>1. \A k \in 1 .. m : l[k] \in 1 .. n
      <4> TAKE k \in 1 .. m
      <4>1. k \in 1 .. Len(l)
        BY <1>5
      <4> QED
        BY <4>1, ElementOfSeq
    <3> QED
      BY <1>1, <3>1
  <2>8. ASSUME NEW k \in 1 .. m PROVE EdgeBefore(all[l[k]], e)
    <3>1. m \in 1 .. m /\ (k = m \/ k < m) /\ m # 0
      OBVIOUS
    <3>2. PICK p \in 1 .. i : l[m] = sorted[p]
      BY <2>6, <3>1
    <3>3. p < i + 1 /\ p \in 1 .. n
      BY <1>2
    <3>4. EdgeBefore(all[sorted[p]], all[sorted[i + 1]]) \/ all[sorted[p]] = all[sorted[i + 1]]
      BY <1>2, <3>3
    <3>5. EdgeBefore(all[l[m]], e)
      BY <1>3, <1>8, <1>12, <3>1, <3>2, <3>4, Zenon
    <3>6. CASE k < m
      <4>1. EdgeBefore(all[l[k]], all[l[m]])
        BY <2>5, <3>1, <3>6
      <4> QED
        BY <2>7, <3>1, <3>5, <4>1, EdgeOrder
    <3> QED
      BY <3>1, <3>5, <3>6
  <2>9. KeptSound(a, t, all, sorted, i + 1)
    <3> SUFFICES ASSUME NEW k \in 1 .. m + 1
                 PROVE  all[a[k]] \notin t.deleted /\ \E p \in 1 .. i + 1 : a[k] = sorted[p]
      BY <2>2 DEF KeptSound
    <3>1. CASE k \in 1 .. m
      <4>1. a[k] = l[k] /\ all[l[k]] \notin t.deleted
        BY <2>2, <2>6, <3>1
      <4>2. PICK p \in 1 .. i : l[k] = sorted[p]
        BY <2>6, <3>1
      <4>3. p \in 1 .. i + 1
        BY <1>9
      <4> QED
        BY <4>1, <4>2, <4>3
    <3>2. CASE k = m + 1
      <4>1. i + 1 \in 1 .. i + 1
        OBVIOUS
      <4> QED
        BY <1>3, <1>12, <2>2, <3>2, <4>1
    <3> QED
      BY <2>4, <3>1, <3>2
  <2>10. Rising(a, all)
    <3> SUFFICES ASSUME NEW j \in 1 .. m + 1, NEW k \in 1 .. m + 1, j < k
                 PROVE  EdgeBefore(all[a[j]], all[a[k]])
      BY <2>2 DEF Rising
    <3>1. j \in 1 .. m
      OBVIOUS
    <3>2. CASE k \in 1 .. m
      BY <2>2, <2>5, <3>1, <3>2
    <3>3. CASE k = m + 1
      BY <1>3, <2>2, <2>8, <3>1, <3>3
    <3> QED
      BY <2>4, <3>2, <3>3
  <2>11. ASSUME NEW p \in 1 .. i + 1 PROVE Covered(a, c, t, all, all[sorted[p]])
    <3>1. CASE p \in 1 .. i
      <4>1. Covered(l, c, t, all, all[sorted[p]])
        BY <1>7, <3>1
      <4>2. \A k \in 1 .. Len(l) : k \in 1 .. Len(a) /\ a[k] = l[k]
        BY <1>5, <2>2
      <4> QED
        BY <4>1, <4>2 DEF Covered
    <3>2. CASE p = i + 1
      <4>1. m + 1 \in 1 .. Len(a)
        BY <2>2
      <4>2. all[a[m + 1]] = all[sorted[p]]
        BY <1>3, <2>2, <3>2
      <4> QED
        BY <4>1, <4>2 DEF Covered
    <3> QED
      BY <1>10, <3>1, <3>2
  <2>12. a \in Seq(DOMAIN all) /\ Len(a) <= i + 1
    BY <1>1, <1>5, <2>2
  <2>13. KeptOf(a, c, t, all, sorted, i + 1)
    BY <2>9, <2>10, <2>11, <2>12 DEF KeptOf
  <2>14. PICK z : z = [previous |-> e, list |-> a]
    OBVIOUS
  <2>15. z \in KeptPlaces(n) /\ z.list = a /\ z.previous = e
    BY <2>2, <2>14 DEF KeptPlaces
  <2>16. z.previous = IF Len(z.list) = 0 THEN <<c.idMax, c.idMax>> ELSE all[z.list[Len(z.list)]]
    <3>1. Len(z.list) # 0 /\ z.list[Len(z.list)] = x
      <4>1. Len(z.list) = m + 1 /\ z.list[m + 1] = x
        BY <2>2, <2>15, Zenon
      <4> QED
        BY <4>1
    <3> QED
      BY <1>3, <2>15, <3>1, Zenon
  <2>17. KeptSoFar(z, c, t, all, sorted, i + 1)
    BY <1>1, <2>13, <2>15, <2>16, Zenon DEF KeptSoFar
  <2> QED
    BY <2>3, <2>14, <2>17
<1> QED
  BY <1>11, <1>12

(* So it is true of the whole list.                                          *)
LEMMA KeptIs ==
  ASSUME NEW c, c.idMax \in Nat, NEW t, NEW all \in Seq(Nat \X Nat), NEW sorted, EdgesSorted(sorted, all)
  PROVE  KeptOf(Kept(c, t, all, sorted), c, t, all, sorted, Len(all))
<1>1. PICK n \in Nat : n = Len(all) /\ DOMAIN all = 1 .. n /\ \A j \in 1 .. n : all[j] \in Nat \X Nat
  OBVIOUS
<1>2. sorted \in [1 .. n -> 1 .. n]
  BY <1>1 DEF EdgesSorted
<1>3. PICK w : KeptRunOf(w, n, c, t, all, sorted) /\ Kept(c, t, all, sorted) = w[n].list
  <2>1. KeptThrough(n, c, t, all, sorted)
    BY <1>1, <1>2, KeptRunIs
  <2> QED
    BY <2>1 DEF KeptThrough
<1> DEFINE S == {i \in Nat : i <= n => KeptSoFar(w[i], c, t, all, sorted, i)}
<1>4. 0 \in S
  <2>1. w[0] = [previous |-> <<c.idMax, c.idMax>>, list |-> <<>>]
    BY <1>3 DEF KeptRunOf
  <2>2. w[0] \in KeptPlaces(n) /\ w[0].list = <<>> /\ w[0].previous = <<c.idMax, c.idMax>>
    <3>1. <<>> \in Seq(1 .. n)
      OBVIOUS
    <3> QED
      BY <2>1, <3>1 DEF KeptPlaces
  <2>3. KeptOf(<<>>, c, t, all, sorted, 0)
    <3>1. <<>> \in Seq(1 .. n) /\ Len(<<>>) = 0
      OBVIOUS
    <3> QED
      BY <1>1, <3>1 DEF KeptOf, KeptSound, Rising
  <2> QED
    BY <1>1, <2>2, <2>3 DEF KeptSoFar
<1>5. \A i \in Nat : i \in S => i + 1 \in S
  <2> TAKE i \in Nat
  <2> HAVE i \in S
  <2> SUFFICES ASSUME i + 1 <= n PROVE KeptSoFar(w[i + 1], c, t, all, sorted, i + 1)
    OBVIOUS
  <2>1. i + 1 \in 1 .. n /\ (i + 1) - 1 = i /\ KeptSoFar(w[i], c, t, all, sorted, i)
    OBVIOUS
  <2>2. w[i + 1] = KeepStep(all, t.deleted, w[i], sorted[i + 1])
    BY <1>3, <2>1 DEF KeptRunOf
  <2> QED
    BY <1>1, <2>1, <2>2, KeptOneMore
<1>6. Nat \subseteq S
  <2> HIDE DEF S
  <2> QED
    BY <1>4, <1>5, SetInduction
<1>7. KeptSoFar(w[n], c, t, all, sorted, n)
  BY <1>6
<1> QED
  BY <1>1, <1>3, <1>7 DEF KeptSoFar

(****************************************************************************)
(* The CSR as runs of sources.                                               *)
(****************************************************************************)
(* A list of sources that does not fall, and a place up to which they are at *)
(* most x.                                                                   *)
Nondecreasing(src, N) ==
  /\ N \in Nat /\ src \in [1 .. N -> Int]
  /\ \A j \in 1 .. N, k \in 1 .. N : j < k => src[j] <= src[k]
CutAt(src, m, x, c) == \A k \in 1 .. m : src[k] <= x <=> k <= c

(* There is such a place for every x.                                        *)
LEMMA FirstAreBelow ==
  ASSUME NEW N, NEW src, Nondecreasing(src, N), NEW x \in Int
  PROVE  \E c \in 0 .. N : CutAt(src, N, x, c)
<1> DEFINE S == {m \in Nat : m <= N => \E c \in 0 .. m : CutAt(src, m, x, c)}
<1>0. N \in Nat /\ src \in [1 .. N -> Int]
  BY DEF Nondecreasing
<1>1. 0 \in S
  <2>1. CutAt(src, 0, x, 0) /\ 0 \in 0 .. 0
    BY DEF CutAt
  <2> QED
    BY <2>1
<1>2. \A m \in Nat : m \in S => m + 1 \in S
  <2> TAKE m \in Nat
  <2> HAVE m \in S
  <2> SUFFICES ASSUME m + 1 <= N
               PROVE  \E c \in 0 .. m + 1 : CutAt(src, m + 1, x, c)
    OBVIOUS
  <2>0. m <= N
    BY <1>0
  <2>1. PICK c \in 0 .. m : CutAt(src, m, x, c)
    BY <2>0
  <2>2. \A k \in 1 .. m + 1 : (k \in 1 .. m /\ k < m + 1) \/ k = m + 1
    OBVIOUS
  <2>3. CASE src[m + 1] <= x
    <3>1. ASSUME NEW k \in 1 .. m + 1 PROVE src[k] <= x
      <4>1. k = m + 1 \/ src[k] <= src[m + 1]
        BY <1>0 DEF Nondecreasing
      <4>2. src[k] \in Int /\ src[m + 1] \in Int
        BY <1>0
      <4> QED
        BY <2>3, <4>1, <4>2
    <3>2. CutAt(src, m + 1, x, m + 1)
      BY <3>1 DEF CutAt
    <3> QED
      BY <3>2
  <2>4. CASE ~(src[m + 1] <= x)
    <3>1. CutAt(src, m + 1, x, c)
      BY <2>1, <2>2, <2>4 DEF CutAt
    <3>2. c \in 0 .. m + 1
      OBVIOUS
    <3> QED
      BY <3>1, <3>2
  <2> QED
    BY <2>3, <2>4
<1>3. Nat \subseteq S
  <2> HIDE DEF S
  <2> QED
    BY <1>1, <1>2, SetInduction
<1>4. N \in S /\ N <= N
  BY <1>0, <1>3
<1> QED
  BY <1>4

(* The sources of a sorted list as runs of one source each.                  *)
RunsOf(runs, src, N) ==
  /\ Nondecreasing(src, N)
  /\ runs \in Seq([id : Int, count : Nat])
  /\ \A i \in 1 .. Len(runs), j \in 1 .. Len(runs) : i < j => runs[i].id < runs[j].id
  /\ \A k \in 1 .. N : \E i \in 1 .. Len(runs) : src[k] = runs[i].id
  /\ \A i \in 1 .. Len(runs) : runs[i].count = Cardinality({k \in 1 .. N : src[k] = runs[i].id})

(* Where the i-th run ends.                                                  *)
Cut(runs, src, N, i) ==
  IF i = 0 THEN 0 ELSE CHOOSE c \in 0 .. N : CutAt(src, N, runs[i].id, c)

(* It ends where the sources exceed its own.                                 *)
LEMMA CutIs ==
  ASSUME NEW N, NEW src, NEW runs, RunsOf(runs, src, N), NEW i \in 1 .. Len(runs)
  PROVE  /\ Cut(runs, src, N, i) \in 0 .. N
         /\ \A k \in 1 .. N : src[k] <= runs[i].id <=> k <= Cut(runs, src, N, i)
<1>1. runs[i].id \in Int /\ i # 0
  <2>1. runs \in Seq([id : Int, count : Nat])
    BY DEF RunsOf
  <2>2. runs[i] \in [id : Int, count : Nat]
    BY <2>1, ElementOfSeq
  <2> QED
    BY <2>2
<1>2. \E c \in 0 .. N : CutAt(src, N, runs[i].id, c)
  <2>1. Nondecreasing(src, N)
    BY DEF RunsOf
  <2> QED
    BY <1>1, <2>1, FirstAreBelow
<1>3. PICK c \in 0 .. N : c = Cut(runs, src, N, i) /\ CutAt(src, N, runs[i].id, c)
  BY <1>1, <1>2 DEF Cut
<1> QED
  BY <1>3 DEF CutAt

(* A run is as long as its count, and all of it is of its source.            *)
RunCut(runs, src, N, i) ==
  LET a == Cut(runs, src, N, i - 1)
      b == Cut(runs, src, N, i)
  IN /\ a \in 0 .. N /\ b \in 0 .. N /\ b = a + runs[i].count
     /\ \A k \in a + 1 .. b : src[k] = runs[i].id

(* Every run is.                                                             *)
LEMMA RunCutIs ==
  ASSUME NEW N, NEW src, NEW runs, RunsOf(runs, src, N), NEW i \in 1 .. Len(runs)
  PROVE  RunCut(runs, src, N, i)
<1>1. N \in Nat /\ src \in [1 .. N -> Int] /\ Len(runs) \in Nat
  BY DEF RunsOf, Nondecreasing
<1>2. PICK b \in 0 .. N : b = Cut(runs, src, N, i) /\ \A k \in 1 .. N : src[k] <= runs[i].id <=> k <= b
  BY CutIs
<1>3. \A j \in 1 .. Len(runs) : runs[j].id \in Int /\ runs[j].count \in Nat
  <2> TAKE j \in 1 .. Len(runs)
  <2>1. runs \in Seq([id : Int, count : Nat])
    BY DEF RunsOf
  <2>2. runs[j] \in [id : Int, count : Nat]
    BY <2>1, ElementOfSeq
  <2> QED
    BY <2>2
<1>4. \A j \in 1 .. Len(runs) : runs[j].id \in Int /\ (j < i => runs[j].id < runs[i].id)
                               /\ (i < j => runs[i].id < runs[j].id)
  BY <1>3 DEF RunsOf
<1>5. PICK a \in 0 .. N : /\ a = Cut(runs, src, N, i - 1)
                          /\ \A k \in 1 .. N : k <= a => src[k] < runs[i].id
                          /\ \A k \in 1 .. N : src[k] < runs[i].id => k <= a
  <2>1. CASE i = 1
    <3>1. Cut(runs, src, N, i - 1) = 0 /\ 0 \in 0 .. N
      BY <1>1, <2>1 DEF Cut
    <3>2. ASSUME NEW k \in 1 .. N, src[k] < runs[i].id PROVE FALSE
      <4>1. PICK j \in 1 .. Len(runs) : src[k] = runs[j].id
        BY DEF RunsOf
      <4>2. j = i \/ i < j
        BY <2>1
      <4> QED
        BY <1>4, <3>2, <4>1, <4>2
    <3> QED
      BY <3>1, <3>2
  <2>2. CASE i # 1
    <3>1. i - 1 \in 1 .. Len(runs) /\ i - 1 < i
      BY <2>2
    <3>2. PICK a \in 0 .. N : /\ a = Cut(runs, src, N, i - 1)
                              /\ \A k \in 1 .. N : src[k] <= runs[i - 1].id <=> k <= a
      BY <3>1, CutIs
    <3>3. runs[i - 1].id \in Int /\ runs[i - 1].id < runs[i].id
      BY <1>4, <3>1
    <3>4. ASSUME NEW k \in 1 .. N, src[k] < runs[i].id PROVE src[k] <= runs[i - 1].id
      <4>1. PICK j \in 1 .. Len(runs) : src[k] = runs[j].id
        BY DEF RunsOf
      <4>2. j < i
        <5>1. j = i \/ i < j \/ j < i
          OBVIOUS
        <5> QED
          BY <1>3, <1>4, <3>4, <4>1, <5>1
      <4>3. j = i - 1 \/ j < i - 1
        BY <4>2
      <4>4. j < i - 1 => runs[j].id < runs[i - 1].id
        BY <3>1 DEF RunsOf
      <4> QED
        BY <1>4, <3>1, <4>1, <4>3, <4>4
    <3>5. \A k \in 1 .. N : src[k] \in Int
      BY <1>1
    <3>6. \A k \in 1 .. N : k <= a => src[k] < runs[i].id
      BY <1>3, <3>2, <3>3, <3>5, SMTT(30)
    <3>7. \A k \in 1 .. N : src[k] < runs[i].id => k <= a
      BY <3>2, <3>4
    <3> QED
      BY <3>2, <3>6, <3>7
  <2> QED
    BY <2>1, <2>2
<1>6. \A k \in 1 .. N : src[k] \in Int
  BY <1>1
<1>7. a <= b
  <2>1. CASE a = 0
    BY <2>1
  <2>2. CASE a # 0
    <3>1. a \in 1 .. N
      BY <2>2
    <3> QED
      BY <1>2, <1>3, <1>5, <1>6, <3>1
  <2> QED
    BY <2>1, <2>2
<1>8. {k \in 1 .. N : src[k] = runs[i].id} = a + 1 .. b
  <2>1. ASSUME NEW k \in 1 .. N PROVE src[k] = runs[i].id <=> k \in a + 1 .. b
    <3>1. src[k] = runs[i].id <=> src[k] <= runs[i].id /\ ~(src[k] < runs[i].id)
      BY <1>3, <1>6
    <3>2. src[k] = runs[i].id <=> k <= b /\ ~(k <= a)
      BY <1>2, <1>5, <3>1
    <3> QED
      BY <3>2
  <2>2. a + 1 .. b \subseteq 1 .. N
    BY <1>1
  <2> QED
    BY <2>1, <2>2
<1>9. Cardinality(a + 1 .. b) = b - a
  <2>1. a + 1 \in Int /\ b \in Int /\ (a + 1 > b <=> b - a = 0) /\ b - (a + 1) + 1 = b - a
    BY <1>7
  <2> QED
    BY <2>1, FS_Interval
<1>10. runs[i].count = b - a
  BY <1>8, <1>9 DEF RunsOf
<1>11. \A k \in a + 1 .. b : src[k] = runs[i].id
  BY <1>8
<1>12. b = a + runs[i].count
  BY <1>10
<1> QED
  BY <1>2, <1>5, <1>11, <1>12 DEF RunCut

(* The runs written out, and joined as SequencesExt joins them.              *)
RunSeqs(runs) == [i \in DOMAIN runs |-> [j \in 1 .. runs[i].count |-> runs[i].id]]

FlattenRun(runs) ==
  CHOOSE h : h = [i \in 1 .. Len(RunSeqs(runs)) |->
                    IF i = 1 THEN RunSeqs(runs)[i] ELSE h[i - 1] \o RunSeqs(runs)[i]]

(* FlattenSeq is the last value of that recursion.                           *)
LEMMA FlattenIs ==
  ASSUME NEW runs
  PROVE  FlattenSeq(RunSeqs(runs))
           = IF Len(RunSeqs(runs)) = 0 THEN RunSeqs(runs)
             ELSE FlattenRun(runs)[Len(RunSeqs(runs))]
BY DEF FlattenSeq, FlattenRun

(* The first k values of a function.                                         *)
Firsts(src, k) == [i \in 1 .. k |-> src[i]]

Times(n, x) == [j \in 1 .. n |-> x]
RunAfter(src, N, a, b, n, x) ==
  /\ N \in Nat /\ src \in [1 .. N -> Int] /\ a \in 0 .. N /\ b \in 0 .. N
  /\ n \in Nat /\ x \in Int /\ b = a + n /\ \A k \in a + 1 .. b : src[k] = x

(* The first values and one run more.                                        *)
LEMMA FirstsPlusRun ==
  ASSUME NEW N, NEW src, NEW a, NEW b, NEW n, NEW x, RunAfter(src, N, a, b, n, x)
  PROVE  Firsts(src, a) \o Times(n, x) = Firsts(src, b)
<1> DEFINE p == Firsts(src, a)
           q == [j \in 1 .. n |-> x]
           r == Firsts(src, b)
<1>0. /\ N \in Nat /\ src \in [1 .. N -> Int] /\ a \in 0 .. N /\ b \in 0 .. N
      /\ n \in Nat /\ x \in Int /\ b = a + n /\ \A k \in a + 1 .. b : src[k] = x
  BY DEF RunAfter
<1>1. /\ p \in Seq(Int) /\ Len(p) = a /\ \A k \in 1 .. a : p[k] = src[k]
      /\ r \in Seq(Int) /\ Len(r) = b /\ \A k \in 1 .. b : r[k] = src[k]
  BY <1>0 DEF Firsts
<1>2. q \in Seq(Int) /\ Len(q) = n /\ \A k \in 1 .. n : q[k] = x
  BY <1>0
<1> HIDE DEF p, q, r
<1>3. PICK s : s = p \o q
  OBVIOUS
<1>4. /\ s \in Seq(Int) /\ Len(s) = b
      /\ \A k \in 1 .. b : s[k] = IF k <= a THEN p[k] ELSE q[k - a]
  <2>1. s \in Seq(Int) /\ Len(s) = Len(p) + Len(q)
        /\ \A i \in 1 .. Len(p) + Len(q) : s[i] = IF i <= Len(p) THEN p[i] ELSE q[i - Len(p)]
    BY <1>1, <1>2, <1>3, ConcatProperties
  <2> QED
    BY <1>0, <1>1, <1>2, <2>1
<1>5. \A k \in 1 .. b : s[k] = r[k]
  <2> TAKE k \in 1 .. b
  <2>1. CASE k <= a
    BY <1>0, <1>1, <1>4, <2>1
  <2>2. CASE ~(k <= a)
    <3>1. k - a \in 1 .. n /\ k \in a + 1 .. b
      BY <1>0, <2>2
    <3> QED
      BY <1>0, <1>1, <1>2, <1>4, <2>2, <3>1
  <2> QED
    BY <2>1, <2>2
<1>6. s = r
  BY <1>0, <1>1, <1>4, <1>5, SeqEqual
<1> QED
  BY <1>3, <1>6 DEF p, q, r, Times

(* The runs written out and joined are the sources again.                    *)
LEMMA RunsFlatten ==
  ASSUME NEW N, NEW src, NEW runs, RunsOf(runs, src, N)
  PROVE  FlattenSeq(RunSeqs(runs)) = src
<1> DEFINE seqs == RunSeqs(runs)
           h == [i \in 1 .. Len(runs) |-> Firsts(src, Cut(runs, src, N, i))]
           f == FlattenRun(runs)
           Flat(e) == e = [i \in 1 .. Len(runs) |-> IF i = 1 THEN seqs[i] ELSE e[i - 1] \o seqs[i]]
<1>1. PICK R \in Nat : R = Len(runs) /\ DOMAIN runs = 1 .. R /\ runs \in Seq([id : Int, count : Nat])
  BY DEF RunsOf
<1>2. N \in Nat /\ src \in [1 .. N -> Int]
  BY DEF RunsOf, Nondecreasing
<1>3. \A i \in 1 .. R : runs[i] \in [id : Int, count : Nat]
  BY <1>1, ElementOfSeq
<1>4. \A i \in 1 .. R : /\ runs[i].id \in Int /\ runs[i].count \in Nat
                        /\ seqs[i] = [j \in 1 .. runs[i].count |-> runs[i].id]
  BY <1>1, <1>3 DEF RunSeqs
<1>5. seqs \in Seq(Seq(Int)) /\ Len(seqs) = R
  <2>1. \A i \in 1 .. R : [j \in 1 .. runs[i].count |-> runs[i].id] \in Seq(Int)
    BY <1>4
  <2>2. DOMAIN seqs = 1 .. R
    BY <1>1 DEF RunSeqs
  <2>3. seqs \in [1 .. R -> Seq(Int)]
    <3>1. seqs = [i \in 1 .. R |-> seqs[i]]
      BY <1>1 DEF RunSeqs
    <3> HIDE DEF seqs
    <3> QED
      BY <1>4, <2>1, <3>1
  <2> HIDE DEF seqs
  <2> QED
    BY <2>3
<1>6. \A i \in 1 .. R : RunCut(runs, src, N, i)
  BY <1>1, RunCutIs
<1>7. ASSUME NEW i \in 1 .. R
      PROVE  Firsts(src, Cut(runs, src, N, i - 1)) \o seqs[i] = Firsts(src, Cut(runs, src, N, i))
  <2>1. PICK a \in 0 .. N, b \in 0 .. N :
             /\ a = Cut(runs, src, N, i - 1) /\ b = Cut(runs, src, N, i)
             /\ b = a + runs[i].count /\ \A k \in a + 1 .. b : src[k] = runs[i].id
    BY <1>6 DEF RunCut
  <2>2. Firsts(src, a) \o [j \in 1 .. runs[i].count |-> runs[i].id] = Firsts(src, b)
    <3>1. PICK n \in Nat, x \in Int : n = runs[i].count /\ x = runs[i].id
      BY <1>4
    <3>2. RunAfter(src, N, a, b, n, x)
      BY <1>2, <2>1, <3>1 DEF RunAfter
    <3>3. Firsts(src, a) \o Times(n, x) = Firsts(src, b)
      BY <3>2, FirstsPlusRun
    <3> QED
      BY <3>1, <3>3 DEF Times
  <2> QED
    BY <1>4, <2>1, <2>2
<1>8. \A i \in 1 .. R : h[i] = Firsts(src, Cut(runs, src, N, i))
  BY <1>1
<1>9. ASSUME NEW i \in 1 .. R, i # 1 PROVE h[i - 1] \o seqs[i] = h[i]
  <2>1. i - 1 \in 1 .. R
    BY <1>9
  <2> HIDE DEF h, seqs
  <2> QED
    BY <1>7, <1>8, <2>1
<1>10. 1 \in 1 .. R => h[1] = seqs[1]
  <2> SUFFICES ASSUME 1 \in 1 .. R PROVE h[1] = seqs[1]
    OBVIOUS
  <2>1. Cut(runs, src, N, 1 - 1) = 0
    BY DEF Cut
  <2>2. Firsts(src, 0) = <<>>
    BY DEF Firsts
  <2>3. seqs[1] \in Seq(Int)
    <3> HIDE DEF seqs
    <3> QED
      BY <1>5, ElementOfSeq
  <2>4. <<>> \o seqs[1] = seqs[1]
    <3> HIDE DEF seqs
    <3> QED
      BY <2>3
  <2>5. Firsts(src, Cut(runs, src, N, 1 - 1)) \o seqs[1] = Firsts(src, Cut(runs, src, N, 1))
    BY <1>7
  <2> HIDE DEF h, seqs
  <2> QED
    BY <1>8, <2>1, <2>2, <2>4, <2>5
<1>11. Flat(h)
  <2>1. DOMAIN h = 1 .. Len(runs)
    OBVIOUS
  <2>2. h = [i \in 1 .. Len(runs) |-> h[i]]
    OBVIOUS
  <2> HIDE DEF h, seqs
  <2> QED
    BY <1>1, <1>9, <1>10, <2>2
<1>12. Flat(f)
  <2>1. f = CHOOSE e : Flat(e)
    <3>1. Len(RunSeqs(runs)) = Len(runs)
      BY <1>1, <1>5
    <3> QED
      BY <3>1 DEF FlattenRun
  <2> HIDE DEF f, h, Flat
  <2> QED
    BY <1>11, <2>1
<1> HIDE DEF f, h, seqs
<1> DEFINE S == {i \in Nat : i \in 1 .. R => f[i] = h[i]}
<1>13. 0 \in S
  OBVIOUS
<1>14. \A i \in Nat : i \in S => i + 1 \in S
  <2> TAKE i \in Nat
  <2> HAVE i \in S
  <2> SUFFICES ASSUME i + 1 \in 1 .. R PROVE f[i + 1] = h[i + 1]
    OBVIOUS
  <2>1. f[i + 1] = IF i + 1 = 1 THEN seqs[i + 1] ELSE f[(i + 1) - 1] \o seqs[i + 1]
    BY <1>1, <1>12
  <2>2. h[i + 1] = IF i + 1 = 1 THEN seqs[i + 1] ELSE h[(i + 1) - 1] \o seqs[i + 1]
    BY <1>1, <1>11
  <2>3. (i + 1) - 1 = i /\ (i + 1 = 1 \/ i \in 1 .. R)
    OBVIOUS
  <2> QED
    BY <2>1, <2>2, <2>3
<1>15. Nat \subseteq S
  <2> HIDE DEF S
  <2> QED
    BY <1>13, <1>14, SetInduction
<1>16. CASE R = 0
  <2>1. N = 0
    BY <1>1, <1>2, <1>16 DEF RunsOf
  <2>2. src = <<>>
    BY <1>2, <2>1
  <2>3. seqs = <<>>
    BY <1>5, <1>16
  <2> QED
    BY <1>5, <1>16, <2>2, <2>3, FlattenIs DEF seqs
<1>17. CASE R # 0
  <2>1. R \in 1 .. R
    BY <1>17
  <2>2. f[R] = h[R]
    BY <1>15, <2>1
  <2>3. Cut(runs, src, N, R) = N
    <3>1. PICK c \in 0 .. N : c = Cut(runs, src, N, R) /\ \A k \in 1 .. N : src[k] <= runs[R].id <=> k <= c
      BY <1>1, <2>1, CutIs
    <3>2. \A k \in 1 .. N : src[k] <= runs[R].id
      <4> TAKE k \in 1 .. N
      <4>1. PICK i \in 1 .. R : src[k] = runs[i].id
        BY <1>1 DEF RunsOf
      <4>2. runs[i].id \in Int /\ runs[R].id \in Int
        BY <1>4, <2>1
      <4>3. CASE i = R
        BY <4>1, <4>2, <4>3
      <4>4. CASE i # R
        <5>1. i < R
          BY <4>4
        <5>2. runs[i].id < runs[R].id
          BY <1>1, <2>1, <5>1 DEF RunsOf
        <5> QED
          BY <4>1, <4>2, <5>2
      <4> QED
        BY <4>3, <4>4
    <3>3. CASE N = 0
      BY <3>1, <3>3
    <3>4. CASE N # 0
      <4>1. N \in 1 .. N
        BY <1>2, <3>4
      <4> QED
        BY <3>1, <3>2, <4>1
    <3> QED
      BY <3>1, <3>3, <3>4
  <2>4. Firsts(src, N) = src
    BY <1>2 DEF Firsts
  <2>5. h[R] = src
    BY <1>8, <2>1, <2>3, <2>4
  <2>6. FlattenSeq(RunSeqs(runs)) = f[R]
    BY <1>5, <1>17, FlattenIs DEF seqs, f
  <2> QED
    BY <2>2, <2>5, <2>6
<1> QED
  BY <1>16, <1>17

(* The edges of a tile by local ids, and the runs of a CSR.                  *)
Locals(c) == (0 .. c.perTile - 1) \X (0 .. c.perTile - 1)
Run == [id : Int, count : Nat]

(* The edges of a CSR, in order.                                             *)
RisingEdges(l) ==
  \A j \in 1 .. Len(l), k \in 1 .. Len(l) : j < k => EdgeBefore(l[j], l[k])
(* The CSR of a tile holds the list l of edges.                              *)
Sources(l) == [k \in 1 .. Len(l) |-> l[k][1]]
CsrOf(c, t, l) ==
  /\ l \in Seq(Locals(c)) /\ RisingEdges(l)
  /\ t.targets \in Seq(Int) /\ Len(t.targets) = Len(l)
  /\ \A k \in 1 .. Len(l) : t.targets[k] = l[k][2]
  /\ RunsOf(SourceCounts(c, t), Sources(l), Len(l))

(* Then it is read as that list.                                             *)
LEMMA CsrIs ==
  ASSUME NEW c, NEW t, NEW l, CsrOf(c, t, l)
  PROVE  CSREdges(c, t) = l /\ Len(CSRSources(c, t)) = Len(l)
<1>1. PICK N \in Nat : N = Len(l) /\ DOMAIN l = 1 .. N /\ l \in Seq(Locals(c))
  BY DEF CsrOf
<1>2. CSRSources(c, t) = FlattenSeq(RunSeqs(SourceCounts(c, t)))
  BY DEF CSRSources, RunSeqs
<1>3. CSRSources(c, t) = Sources(l)
  BY <1>2, RunsFlatten DEF CsrOf
<1>4. PICK s : s = CSRSources(c, t) /\ s = [k \in 1 .. N |-> l[k][1]]
  BY <1>1, <1>3 DEF Sources
<1>5. Len(s) = N /\ DOMAIN s = 1 .. N
  BY <1>4
<1>6. CSREdges(c, t) = [k \in 1 .. N |-> <<s[k], t.targets[k]>>]
  BY <1>4, <1>5 DEF CSREdges
<1>7. \A k \in 1 .. N : <<s[k], t.targets[k]>> = l[k]
  <2> TAKE k \in 1 .. N
  <2>1. l[k] \in Locals(c)
    BY <1>1
  <2>2. PICK a, b : l[k] = <<a, b>>
    BY <2>1 DEF Locals
  <2>3. s[k] = a /\ t.targets[k] = b
    BY <1>1, <1>4, <2>2 DEF CsrOf
  <2> QED
    BY <2>2, <2>3
<1>8. l = [k \in 1 .. N |-> l[k]]
  BY <1>1
<1>9. [k \in 1 .. N |-> <<s[k], t.targets[k]>>] = [k \in 1 .. N |-> l[k]]
  BY <1>7
<1> QED
  BY <1>1, <1>4, <1>5, <1>6, <1>8, <1>9

(* The numbers 1 .. N are N.                                                 *)
LEMMA NatRange ==
  ASSUME NEW N \in Nat
  PROVE  IsFiniteSet(1 .. N) /\ Cardinality(1 .. N) = N
<1>1. (1 > N <=> N = 0) /\ N - 1 + 1 = N
  OBVIOUS
<1> QED
  BY <1>1, FS_Interval

(* Some of the numbers 1 .. N are finite and at most N.                      *)
LEMMA CountIn ==
  ASSUME NEW N \in Nat, NEW S \in SUBSET (1 .. N)
  PROVE  IsFiniteSet(S) /\ Cardinality(S) \in Nat /\ Cardinality(S) <= N
<1>1. IsFiniteSet(1 .. N) /\ Cardinality(1 .. N) = N
  BY NatRange
<1>2. IsFiniteSet(S) /\ Cardinality(S) <= Cardinality(1 .. N)
  BY <1>1, FS_Subset
<1> QED
  BY <1>1, <1>2, FS_CardinalityType

(* The sources of a rising list are in order.                                *)
LEMMA SourcesInOrder ==
  ASSUME NEW c, c.perTile \in Nat, NEW l \in Seq(Locals(c)), RisingEdges(l)
  PROVE  Nondecreasing(Sources(l), Len(l))
<1>1. PICK N \in Nat : N = Len(l) /\ DOMAIN l = 1 .. N
  OBVIOUS
<1>2. \A k \in 1 .. N : l[k] \in Locals(c)
  BY <1>1
<1>3. \A k \in 1 .. N : l[k][1] \in Int /\ Sources(l)[k] = l[k][1]
  BY <1>1, <1>2 DEF Locals, Sources
<1>4. \A j \in 1 .. N, k \in 1 .. N : j < k => l[j][1] <= l[k][1]
  BY <1>1, <1>3 DEF RisingEdges, EdgeBefore
<1>5. Sources(l) \in [1 .. N -> Int]
  BY <1>1, <1>3 DEF Sources
<1> QED
  BY <1>1, <1>3, <1>4, <1>5 DEF Nondecreasing

(* How many edges of a list have the source v.                               *)
CountFrom(l, v) == Cardinality({k \in 1 .. Len(l) : l[k][1] = v})

(* The runs of sources by id, and one for each id of the tile.               *)
LEMMA RunsById ==
  ASSUME NEW c, c.perTile \in Nat, NEW l \in Seq(Locals(c)), RisingEdges(l),
         NEW S \in SUBSET Int, IsFiniteSet(S), \A k \in 1 .. Len(l) : l[k][1] \in S,
         NEW ids, ids = Ascending(S)
  PROVE  RunsOf([i \in DOMAIN ids |-> [id |-> ids[i], count |-> CountFrom(l, ids[i])]], Sources(l), Len(l))
<1>1. IsAscending(ids, S)
  BY AscendingSorts
<1>2. PICK n \in Nat : /\ ids \in [1 .. n -> S]
                       /\ \A j \in 1 .. n, k \in 1 .. n : ids[j] < ids[k] <=> j < k
  BY <1>1 DEF IsAscending
<1>3. \A x \in S : \E k \in 1 .. n : ids[k] = x
  BY <1>1, <1>2 DEF IsAscending
<1>4. PICK N \in Nat : N = Len(l)
  OBVIOUS
<1>5. PICK runs : runs = [i \in 1 .. n |-> [id |-> ids[i], count |-> CountFrom(l, ids[i])]]
  OBVIOUS
<1>6. \A v : CountFrom(l, v) \in Nat
  BY <1>4, CountIn DEF CountFrom
<1>7. /\ runs \in Seq(Run) /\ Len(runs) = n
      /\ \A i \in 1 .. n : runs[i].id = ids[i] /\ runs[i].count = CountFrom(l, ids[i])
  <2>1. \A i \in 1 .. n : ids[i] \in Int
    BY <1>2
  <2> QED
    BY <1>5, <1>6, <2>1 DEF Run
<1>8. Nondecreasing(Sources(l), Len(l))
  BY SourcesInOrder
<1>9. \A k \in 1 .. N : Sources(l)[k] = l[k][1]
  BY <1>4 DEF Sources
<1>10. ASSUME NEW k \in 1 .. N PROVE \E i \in 1 .. n : Sources(l)[k] = runs[i].id
  <2>1. k \in 1 .. Len(l)
    BY <1>4
  <2>2. l[k][1] \in S
    BY <2>1
  <2>3. PICK i \in 1 .. n : ids[i] = l[k][1]
    BY <1>3, <2>2
  <2>4. runs[i].id = Sources(l)[k]
    BY <1>7, <1>9, <2>3
  <2> QED
    BY <2>4
<1>11. ASSUME NEW i \in 1 .. n
       PROVE  runs[i].count = Cardinality({k \in 1 .. N : Sources(l)[k] = runs[i].id})
  <2>1. {k \in 1 .. N : Sources(l)[k] = runs[i].id} = {k \in 1 .. N : l[k][1] = ids[i]}
    BY <1>7, <1>9
  <2> QED
    BY <1>4, <1>7, <2>1 DEF CountFrom
<1>12. \A i \in 1 .. n, j \in 1 .. n : i < j => runs[i].id < runs[j].id
  BY <1>2, <1>7
<1>13. RunsOf(runs, Sources(l), Len(l))
  BY <1>4, <1>7, <1>8, <1>10, <1>11, <1>12 DEF RunsOf, Run
<1> QED
  BY <1>2, <1>5, <1>13

(* One run for each id of the tile, as the compact form counts them.         *)
AllRuns(n, counts) == [i \in 1 .. n |-> [id |-> i - 1, count |-> counts[i - 1]]]

(* They are the runs of the sources too.                                     *)
LEMMA RunsOfAll ==
  ASSUME NEW c, c.perTile \in Nat, NEW l \in Seq(Locals(c)), RisingEdges(l),
         NEW counts, \A v \in 0 .. c.perTile - 1 : counts[v] = CountFrom(l, v)
  PROVE  RunsOf(AllRuns(c.perTile, counts), Sources(l), Len(l))
<1>1. PICK n \in Nat : n = c.perTile
  OBVIOUS
<1>4. PICK N \in Nat : N = Len(l) /\ DOMAIN l = 1 .. N
  OBVIOUS
<1>5. PICK runs : runs = [i \in 1 .. n |-> [id |-> i - 1, count |-> counts[i - 1]]]
  OBVIOUS
<1>6. \A v : CountFrom(l, v) \in Nat
  BY <1>4, CountIn DEF CountFrom
<1>7. /\ runs \in Seq(Run) /\ Len(runs) = n
      /\ \A i \in 1 .. n : runs[i].id = i - 1 /\ runs[i].count = CountFrom(l, i - 1)
  <2>1. \A i \in 1 .. n : i - 1 \in 0 .. n - 1
    OBVIOUS
  <2>2. \A i \in 1 .. n : counts[i - 1] = CountFrom(l, i - 1)
    BY <1>1, <2>1
  <2> QED
    BY <1>5, <1>6, <2>1, <2>2 DEF Run
<1>8. Nondecreasing(Sources(l), Len(l))
  BY SourcesInOrder
<1>9. \A k \in 1 .. N : Sources(l)[k] = l[k][1]
  BY <1>4 DEF Sources
<1>10. ASSUME NEW k \in 1 .. N PROVE \E i \in 1 .. n : Sources(l)[k] = runs[i].id
  <2>1. l[k] \in Locals(c)
    BY <1>4
  <2>2. PICK v \in 0 .. n - 1 : v = l[k][1]
    BY <1>1, <2>1 DEF Locals
  <2>3. v + 1 \in 1 .. n /\ (v + 1) - 1 = v
    OBVIOUS
  <2> QED
    BY <1>7, <1>9, <2>2, <2>3
<1>11. ASSUME NEW i \in 1 .. n
       PROVE  runs[i].count = Cardinality({k \in 1 .. N : Sources(l)[k] = runs[i].id})
  <2>1. {k \in 1 .. N : Sources(l)[k] = runs[i].id} = {k \in 1 .. N : l[k][1] = i - 1}
    BY <1>7, <1>9
  <2> QED
    BY <1>4, <1>7, <2>1 DEF CountFrom
<1>12. \A i \in 1 .. n, j \in 1 .. n : i < j => runs[i].id < runs[j].id
  BY <1>7
<1>13. RunsOf(runs, Sources(l), Len(l))
  BY <1>4, <1>7, <1>8, <1>10, <1>11, <1>12 DEF RunsOf, Run
<1> QED
  BY <1>1, <1>5, <1>13 DEF AllRuns

(****************************************************************************)
(* The operations of a tile.                                                 *)
(****************************************************************************)
(* The types of the fields of a tile.                                        *)
TileType(c, t) ==
  /\ DOMAIN t = {"edges", "weights", "bitset", "deleted", "compact", "counts", "idCounts",
                 "targets", "csrWeights", "next", "compactions", "dead"}
  /\ t.edges \in Seq(Locals(c)) /\ t.weights \in Seq(Int) /\ t.bitset \in Seq(BOOLEAN)
  /\ t.deleted \in SUBSET Locals(c) /\ t.compact \in BOOLEAN
  /\ t.csrWeights \in Seq(Int) /\ t.next \in Nat /\ t.compactions \in Nat /\ t.dead \in BOOLEAN

(* What a list of edges comes to in a CSR: nothing is made up, brought back  *)
(* or lost but the pair of the largest ids.                                  *)
KeptInCsr(l, c, t, all) ==
  /\ l \in Seq(Locals(c)) /\ Len(l) <= Len(all) /\ RisingEdges(l)
  /\ \A k \in 1 .. Len(l) : l[k] \notin t.deleted /\ \E i \in 1 .. Len(all) : l[k] = all[i]
  /\ \A i \in 1 .. Len(all) :
       \/ all[i] \in t.deleted \/ all[i] = <<c.idMax, c.idMax>>
       \/ \E k \in 1 .. Len(l) : all[i] = l[k]

(* Some vertex has as many targets as the ids of a tile can count.           *)
Full(c, l) == \E v \in 0 .. c.perTile - 1 : CountFrom(l, v) >= c.idMax

(* What fillCSR makes of a tile and a list of edges.                         *)
Filled(f, c, t, all, count, l) ==
  /\ TileType(c, f) /\ CsrOf(c, f, l) /\ KeptInCsr(l, c, t, all)
  /\ f.edges = t.edges /\ f.weights = t.weights /\ f.bitset = t.bitset /\ f.deleted = t.deleted
  /\ f.compactions = t.compactions /\ f.dead = Full(c, l)
  /\ Weighted => /\ Len(f.csrWeights) = count + Len(l)
                 /\ \A k \in 1 .. count : f.csrWeights[k] = 0

FilledSome(f, c, t, all, count) == \E l : Filled(f, c, t, all, count, l)

(* The positions kept are those of such a list.                              *)
LEMMA KeptEdges ==
  ASSUME NEW c, c.idMax \in Nat, c.perTile \in Nat, NEW t, NEW all \in Seq(Locals(c)),
         NEW kept, kept = Kept(c, t, all, SortedPositions(all))
  PROVE  /\ kept \in Seq(1 .. Len(all))
         /\ KeptInCsr([k \in 1 .. Len(kept) |-> all[kept[k]]], c, t, all)
<1>1. PICK n \in Nat : n = Len(all) /\ DOMAIN all = 1 .. n
  OBVIOUS
<1>2. \A i \in 1 .. n : all[i] \in Locals(c)
  BY <1>1
<1>3. all \in Seq(Nat \X Nat)
  <2>1. \A i \in 1 .. n : all[i] \in Nat \X Nat
    BY <1>2 DEF Locals
  <2> QED
    BY <1>1, <2>1
<1>4. PICK sorted : sorted = SortedPositions(all) /\ EdgesSorted(sorted, all)
  BY <1>3, SortedPositionsSort
<1>5. KeptOf(kept, c, t, all, sorted, n)
  BY <1>1, <1>3, <1>4, KeptIs
<1>6. kept \in Seq(1 .. n) /\ Len(kept) <= n /\ KeptSound(kept, t, all, sorted, n) /\ Rising(kept, all)
  BY <1>1, <1>5 DEF KeptOf
<1>7. PICK N \in Nat : N = Len(kept) /\ DOMAIN kept = 1 .. N
  BY <1>6
<1>8. \A k \in 1 .. N : kept[k] \in 1 .. n
  BY <1>6, <1>7
<1>9. PICK l : l = [k \in 1 .. N |-> all[kept[k]]]
  OBVIOUS
<1>10. /\ l \in Seq(Locals(c)) /\ Len(l) = N
       /\ \A k \in 1 .. N : l[k] = all[kept[k]]
  BY <1>2, <1>8, <1>9
<1>11. RisingEdges(l)
  BY <1>6, <1>7, <1>10 DEF RisingEdges, Rising
<1>12. ASSUME NEW k \in 1 .. N PROVE l[k] \notin t.deleted /\ \E i \in 1 .. n : l[k] = all[i]
  BY <1>6, <1>7, <1>8, <1>10 DEF KeptSound
<1>13. ASSUME NEW i \in 1 .. n
       PROVE  \/ all[i] \in t.deleted \/ all[i] = <<c.idMax, c.idMax>>
              \/ \E k \in 1 .. N : all[i] = l[k]
  <2>1. PICK p \in 1 .. n : sorted[p] = i
    BY <1>1, <1>4 DEF EdgesSorted
  <2>2. Covered(kept, c, t, all, all[sorted[p]])
    BY <1>5 DEF KeptOf
  <2>3. Covered(kept, c, t, all, all[i])
    BY <2>1, <2>2
  <2> QED
    BY <1>7, <1>10, <2>3 DEF Covered
<1>14. KeptInCsr(l, c, t, all)
  BY <1>1, <1>6, <1>7, <1>10, <1>11, <1>12, <1>13 DEF KeptInCsr
<1> QED
  BY <1>1, <1>6, <1>7, <1>9, <1>14

(* fillCSR makes a CSR of what it keeps, in either form, with as many zeros  *)
(* before the weights as there were edges.                                   *)
LEMMA FillIs ==
  ASSUME NEW c, c.idMax \in Nat, c.perTile \in Nat, NEW t, TileType(c, t),
         NEW all \in Seq(Locals(c)), NEW ws, Weighted => ws \in Seq(Int) /\ Len(ws) = Len(all),
         all # <<>>, NEW count \in Nat
  PROVE  FilledSome(FillCSR(c, t, all, ws, count), c, t, all, count)
<1>1. PICK n \in Nat : n = Len(all) /\ DOMAIN all = 1 .. n /\ \A i \in 1 .. n : all[i] \in Locals(c)
  OBVIOUS
<1>2. PICK kept : kept = Kept(c, t, all, SortedPositions(all))
  OBVIOUS
<1>3. PICK l : /\ l = [k \in 1 .. Len(kept) |-> all[kept[k]]]
               /\ kept \in Seq(1 .. n) /\ KeptInCsr(l, c, t, all)
  BY <1>1, <1>2, KeptEdges
<1>4. PICK N \in Nat : N = Len(kept) /\ DOMAIN kept = 1 .. N
  BY <1>3
<1>5. \A k \in 1 .. N : kept[k] \in 1 .. n
  BY <1>3, <1>4
<1>6. /\ l \in Seq(Locals(c)) /\ Len(l) = N /\ DOMAIN l = 1 .. N /\ RisingEdges(l)
      /\ \A k \in 1 .. N : l[k] = all[kept[k]] /\ l[k] \in Locals(c)
  BY <1>1, <1>3, <1>4, <1>5 DEF KeptInCsr
<1> DEFINE first == all[SortedPositions(all)[1]][1]
           ids == Ascending({first} \union {all[kept[k]][1] : k \in DOMAIN kept})
           From(v) == Cardinality({k \in DOMAIN kept : all[kept[k]][1] = v})
           before == CountsReset(c, t)
           added == [v \in DOMAIN before |-> before[v] + From(v)]
           byId == [i \in DOMAIN ids |-> [id |-> ids[i], count |-> From(ids[i])]]
           kws == [k \in DOMAIN kept |-> ws[kept[k]]]
           zeros == [i \in 1 .. count |-> 0]
           compact == CompactForm(c, t, all, first)
           f == FillCSR(c, t, all, ws, count)
<1>7. \A v : From(v) = CountFrom(l, v)
  <2> TAKE v
  <2>1. {k \in DOMAIN kept : all[kept[k]][1] = v} = {k \in 1 .. Len(l) : l[k][1] = v}
    BY <1>4, <1>6
  <2> QED
    BY <2>1 DEF CountFrom
<1>8. f = [t EXCEPT
             !.compact = compact,
             !.counts = IF compact THEN added ELSE @,
             !.idCounts = IF compact THEN Append(@, [id |-> first, count |-> 0]) ELSE byId,
             !.targets = [k \in DOMAIN kept |-> all[kept[k]][2]],
             !.csrWeights = IF Weighted THEN zeros \o kws ELSE @,
             !.dead = \E v \in 0 .. c.perTile - 1 : From(v) >= c.idMax]
  BY <1>2 DEF FillCSR
<1>9. first \in Int
  <2>1. n \in Nat \ {0}
    BY <1>1
  <2>2. all \in Seq(Nat \X Nat)
    <3>1. \A i \in 1 .. n : all[i] \in Nat \X Nat
      BY <1>1 DEF Locals
    <3> QED
      BY <1>1, <3>1
  <2>3. EdgesSorted(SortedPositions(all), all)
    BY <2>2, SortedPositionsSort
  <2>4. SortedPositions(all)[1] \in 1 .. n
    BY <1>1, <2>1, <2>3 DEF EdgesSorted
  <2>5. all[SortedPositions(all)[1]] \in Locals(c)
    BY <1>1, <2>4
  <2> QED
    BY <2>5 DEF Locals
<1> HIDE DEF first
<1>10. RunsOf(byId, Sources(l), Len(l))
  <2>1. PICK S : S = {first} \union {all[kept[k]][1] : k \in DOMAIN kept}
    OBVIOUS
  <2>2. S = {first} \union {l[k][1] : k \in 1 .. N}
    BY <1>4, <1>6, <2>1
  <2>3. \A k \in 1 .. N : l[k][1] \in Int
    BY <1>6 DEF Locals
  <2>4. S \in SUBSET Int /\ \A k \in 1 .. Len(l) : l[k][1] \in S
    BY <1>6, <1>9, <2>2, <2>3
  <2>5. IsFiniteSet(S)
    <3> DEFINE h == [k \in 1 .. N |-> l[k][1]]
    <3>1. IsFiniteSet(1 .. N)
      BY NatRange
    <3>2. h \in Surjection(1 .. N, {l[k][1] : k \in 1 .. N})
      <4>1. h \in [1 .. N -> {l[k][1] : k \in 1 .. N}]
        OBVIOUS
      <4>2. \A x \in {l[k][1] : k \in 1 .. N} : \E k \in 1 .. N : h[k] = x
        OBVIOUS
      <4> HIDE DEF h
      <4> QED
        BY <4>1, <4>2, Fun_IsSurj
    <3>3. IsFiniteSet({l[k][1] : k \in 1 .. N})
      BY <3>1, <3>2, FS_Surjection
    <3>4. IsFiniteSet({first})
      BY FS_Singleton
    <3> QED
      BY <2>2, <3>3, <3>4, FS_Union
  <2>6. PICK a : a = Ascending(S)
    OBVIOUS
  <2>7. RunsOf([i \in DOMAIN a |-> [id |-> a[i], count |-> CountFrom(l, a[i])]], Sources(l), Len(l))
    BY <1>6, <2>4, <2>5, <2>6, RunsById
  <2>8. ids = a
    BY <2>1, <2>6
  <2> HIDE DEF ids, From
  <2>9. byId = [i \in DOMAIN a |-> [id |-> a[i], count |-> CountFrom(l, a[i])]]
    BY <1>7, <2>8
  <2> QED
    BY <2>7, <2>9
<1>11. \A v \in 0 .. c.perTile - 1 : added[v] = CountFrom(l, v)
  <2>1. before = [v \in 0 .. c.perTile - 1 |-> 0]
    BY DEF CountsReset
  <2>2. \A v : CountFrom(l, v) \in Nat
    BY <1>6, CountIn DEF CountFrom
  <2> HIDE DEF From, before
  <2>3. \A v \in 0 .. c.perTile - 1 : added[v] = before[v] + From(v)
    BY <2>1
  <2>4. \A v \in 0 .. c.perTile - 1 : added[v] = 0 + CountFrom(l, v)
    <3> HIDE DEF added
    <3> QED
      BY <1>7, <2>1, <2>3
  <2> QED
    <3> HIDE DEF added
    <3> QED
      BY <2>2, <2>4
<1>12. (\E v \in 0 .. c.perTile - 1 : From(v) >= c.idMax) = Full(c, l)
  <2> HIDE DEF From
  <2> QED
    BY <1>7 DEF Full
<1>13. compact \in BOOLEAN
  BY DEF CompactForm
<1>14. Weighted => zeros \o kws \in Seq(Int) /\ Len(zeros \o kws) = count + N
                  /\ \A k \in 1 .. count : (zeros \o kws)[k] = 0
  <2> SUFFICES ASSUME Weighted
               PROVE  /\ zeros \o kws \in Seq(Int) /\ Len(zeros \o kws) = count + N
                      /\ \A k \in 1 .. count : (zeros \o kws)[k] = 0
    OBVIOUS
  <2>1. zeros \in Seq(Int) /\ Len(zeros) = count /\ \A k \in 1 .. count : zeros[k] = 0
    OBVIOUS
  <2>2. kws \in Seq(Int) /\ Len(kws) = N
    <3>1. \A k \in 1 .. N : ws[kept[k]] \in Int
      BY <1>1, <1>5
    <3> QED
      BY <1>4, <3>1
  <2>3. PICK y : y = zeros \o kws
    OBVIOUS
  <2> HIDE DEF zeros, kws
  <2>4. y \in Seq(Int) /\ Len(y) = Len(zeros) + Len(kws)
        /\ \A i \in 1 .. Len(zeros) + Len(kws) :
             y[i] = IF i <= Len(zeros) THEN zeros[i] ELSE kws[i - Len(zeros)]
    BY <2>1, <2>2, <2>3, ConcatProperties
  <2>5. \A k \in 1 .. count : y[k] = 0
    BY <2>1, <2>2, <2>4
  <2> QED
    BY <2>1, <2>2, <2>3, <2>4, <2>5
<1> DEFINE ys == zeros \o kws
           ts == [k \in DOMAIN kept |-> all[kept[k]][2]]
           isDead == \E v \in 0 .. c.perTile - 1 : From(v) >= c.idMax
           more == Append(t.idCounts, [id |-> first, count |-> 0])
<1>15. ts \in Seq(Int) /\ Len(ts) = N /\ \A k \in 1 .. N : ts[k] = l[k][2]
  <2>1. \A k \in 1 .. N : l[k][2] \in Int /\ all[kept[k]][2] = l[k][2]
    <3> TAKE k \in 1 .. N
    <3>1. l[k] \in Locals(c) /\ l[k] = all[kept[k]]
      BY <1>6
    <3>2. l[k][2] \in Int
      BY <3>1 DEF Locals
    <3> QED
      BY <3>1, <3>2, Zenon
  <2> QED
    BY <1>4, <2>1
<1> HIDE DEF f, added, byId, compact, ys, ts, isDead, more
<1>16. /\ DOMAIN f = DOMAIN t
       /\ f.compact = compact
       /\ f.counts = IF compact THEN added ELSE t.counts
       /\ f.idCounts = IF compact THEN more ELSE byId
       /\ f.targets = ts /\ f.dead = isDead
       /\ f.csrWeights = IF Weighted THEN ys ELSE t.csrWeights
       /\ f.edges = t.edges /\ f.weights = t.weights /\ f.bitset = t.bitset
       /\ f.deleted = t.deleted /\ f.next = t.next /\ f.compactions = t.compactions
  BY <1>8 DEF TileType, ys, ts, isDead, more
<1>17. TileType(c, f)
  <2>1. f.csrWeights \in Seq(Int)
    BY <1>14, <1>16 DEF ys, TileType
  <2>2. f.dead \in BOOLEAN
    BY <1>16 DEF isDead
  <2> QED
    BY <1>13, <1>16, <2>1, <2>2 DEF TileType
<1>18. CsrOf(c, f, l)
  <2>1. RunsOf(SourceCounts(c, f), Sources(l), Len(l))
    <3>1. CASE compact
      <4>1. SourceCounts(c, f) = AllRuns(c.perTile, added)
        BY <1>16, <3>1 DEF SourceCounts, AllRuns
      <4>2. PICK counts : counts = added
        OBVIOUS
      <4>3. RunsOf(AllRuns(c.perTile, counts), Sources(l), Len(l))
        BY <1>6, <1>11, <4>2, RunsOfAll
      <4> QED
        BY <4>1, <4>2, <4>3
    <3>2. CASE ~compact
      BY <1>10, <1>16, <3>2 DEF SourceCounts
    <3> QED
      BY <3>1, <3>2
  <2> QED
    BY <1>6, <1>15, <1>16, <2>1 DEF CsrOf
<1>19. Filled(f, c, t, all, count, l)
  <2>1. f.dead = Full(c, l)
    BY <1>12, <1>16 DEF isDead
  <2>2. Weighted => /\ Len(f.csrWeights) = count + Len(l)
                    /\ \A k \in 1 .. count : f.csrWeights[k] = 0
    BY <1>6, <1>14, <1>16 DEF ys
  <2> QED
    BY <1>3, <1>16, <1>17, <1>18, <2>1, <2>2 DEF Filled
<1> QED
  BY <1>19 DEF FilledSome, f

(* The weights of the list are as many as the list, those of the CSR are     *)
(* zeros.                                                                    *)
WeightsKept(t) ==
  Weighted => /\ Len(t.weights) = Len(t.edges) /\ Len(t.targets) <= Len(t.csrWeights)
              /\ \A k \in 1 .. Len(t.targets) : t.csrWeights[k] = 0
(* The invariant of one tile.                                                *)
TileInv(c, t) ==
  /\ TileType(c, t) /\ \E l : CsrOf(c, t, l)
  /\ WeightsKept(t)
  /\ Len(t.targets) = 0 \/ t.compactions > 0
  /\ CountEdges(t) <= Len(t.bitset)

(* The edges a tile stores, marked or not.                                   *)
EdgesOf(c, t) == ToSet(t.edges) \union ToSet(CSREdges(c, t))

(* It holds of a new tile.                                                   *)
LEMMA NewTileInv ==
  ASSUME NEW c, c.perTile \in Nat
  PROVE  TileInv(c, NewTile) /\ EdgesOf(c, NewTile) = {} /\ ~NewTile.dead /\ CountEdges(NewTile) = 0
<1>1. TileType(c, NewTile)
  <2>1. <<>> \in Seq(Locals(c)) /\ <<>> \in Seq(Int) /\ <<>> \in Seq(BOOLEAN) /\ {} \in SUBSET Locals(c)
    OBVIOUS
  <2>2. FirstCompaction \in Nat
    BY TileAssumption
  <2> QED
    BY <2>1, <2>2 DEF TileType, NewTile
<1>2. CsrOf(c, NewTile, <<>>)
  <2>1. /\ <<>> \in Seq(Locals(c)) /\ <<>> \in Seq(Int) /\ Len(<<>>) = 0
        /\ <<>> \in Seq([id : Int, count : Nat])
    OBVIOUS
  <2>2. NewTile.targets = <<>> /\ SourceCounts(c, NewTile) = <<>>
    BY DEF NewTile, SourceCounts
  <2>3. Sources(<<>>) = <<>> /\ RisingEdges(<<>>)
    BY <2>1 DEF Sources, RisingEdges
  <2>4. Nondecreasing(<<>>, 0)
    <3>1. <<>> \in [1 .. 0 -> Int]
      OBVIOUS
    <3> QED
      BY <3>1 DEF Nondecreasing
  <2>5. RunsOf(<<>>, <<>>, 0)
    BY <2>1, <2>4 DEF RunsOf
  <2> QED
    BY <2>1, <2>2, <2>3, <2>5 DEF CsrOf
<1>3. Len(<<>>) = 0
  OBVIOUS
<1>4. NewTile.edges = <<>> /\ NewTile.targets = <<>> /\ NewTile.bitset = <<>> /\ NewTile.weights = <<>>
      /\ NewTile.csrWeights = <<>> /\ NewTile.dead = FALSE
  BY DEF NewTile
<1>5. CountEdges(NewTile) = 0
  BY <1>3, <1>4 DEF CountEdges
<1>6. CSREdges(c, NewTile) = <<>>
  BY <1>2, CsrIs
<1>7. EdgesOf(c, NewTile) = {}
  BY <1>4, <1>6 DEF EdgesOf, ToSet
<1> QED
  BY <1>1, <1>2, <1>3, <1>4, <1>5, <1>7 DEF TileInv, WeightsKept

(* What compaction makes of a tile.                                          *)
Compacted(r, c, t) ==
  /\ TileInv(c, r) /\ r.bitset = t.bitset /\ r.deleted = t.deleted
  /\ CountEdges(r) <= CountEdges(t)
  /\ EdgesOf(c, r) \subseteq EdgesOf(c, t)
  /\ \A x \in EdgesOf(c, t) : x \in t.deleted \/ x = <<c.idMax, c.idMax>> \/ x \in EdgesOf(c, r)
  /\ CountEdges(t) = 0 => /\ r.edges = t.edges /\ r.weights = t.weights /\ r.dead = t.dead
  /\ CountEdges(t) # 0 => /\ r.edges = <<>> /\ r.compactions > 0
                          /\ r.dead = Full(c, CSREdges(c, r))

(* A sequence of what two sequences hold.                                    *)
Joined(S, p, q, s) ==
  s \in Seq(S) /\ Len(s) = Len(p) + Len(q) /\ ToSet(s) = ToSet(p) \union ToSet(q)

(* Their concatenation is one.                                               *)
LEMMA EdgesListed ==
  ASSUME NEW S, NEW p \in Seq(S), NEW q \in Seq(S), NEW s, s = p \o q
  PROVE  Joined(S, p, q, s)
<1>1. PICK m \in Nat, n \in Nat : m = Len(p) /\ n = Len(q) /\ DOMAIN p = 1 .. m /\ DOMAIN q = 1 .. n
  OBVIOUS
<1>2. /\ s \in Seq(S) /\ Len(s) = m + n
      /\ \A i \in 1 .. m + n : s[i] = IF i <= m THEN p[i] ELSE q[i - m]
  BY <1>1, ConcatProperties
<1>3. DOMAIN s = 1 .. m + n
  BY <1>2
<1>4. ASSUME NEW i \in 1 .. m + n PROVE s[i] \in ToSet(p) \union ToSet(q)
  <2>1. CASE i <= m
    BY <1>1, <1>2, <2>1, SMTT(30) DEF ToSet
  <2>2. CASE ~(i <= m)
    <3>1. i - m \in 1 .. n
      BY <2>2
    <3> QED
      BY <1>1, <1>2, <2>2, <3>1 DEF ToSet
  <2> QED
    BY <2>1, <2>2
<1>5. ASSUME NEW i \in 1 .. m PROVE p[i] \in ToSet(s)
  <2>1. i \in 1 .. m + n /\ i <= m
    OBVIOUS
  <2>2. s[i] = p[i]
    BY <1>2, <2>1
  <2> QED
    BY <1>3, <2>1, <2>2 DEF ToSet
<1>6. ASSUME NEW i \in 1 .. n PROVE q[i] \in ToSet(s)
  <2>1. PICK k \in 1 .. m + n : k = m + i /\ ~(k <= m) /\ k - m = i
    OBVIOUS
  <2>2. s[k] = q[i]
    BY <1>2, <2>1
  <2> QED
    BY <1>3, <2>2 DEF ToSet
<1>7. ToSet(s) \subseteq ToSet(p) \union ToSet(q)
  BY <1>3, <1>4 DEF ToSet
<1>8. ToSet(p) \subseteq ToSet(s)
  BY <1>1, <1>5 DEF ToSet
<1>9. ToSet(q) \subseteq ToSet(s)
  BY <1>1, <1>6 DEF ToSet
<1> QED
  BY <1>1, <1>2, <1>7, <1>8, <1>9 DEF Joined

(* compactStorage once the compaction is counted.                            *)
Storage(c, t) ==
  LET copied == CSREdges(c, t)
      all == t.edges \o copied
      allWeights == t.weights \o (IF Weighted THEN SubSeq(t.csrWeights, 1, Len(copied)) ELSE <<>>)
  IN IF CountEdges(t) = 0 THEN t
     ELSE IF Len(copied) # Len(t.targets) THEN [t EXCEPT !.dead = TRUE]
     ELSE ListEmptied(FillCSR(c, t, all, allWeights, CountEdges(t)))

(* It is all of compactStorage.                                              *)
LEMMA StorageIs ==
  ASSUME NEW c, NEW t
  PROVE  CompactStorage(c, t) = Storage(c, [t EXCEPT !.compactions = @ + 1])
BY DEF CompactStorage, Storage

(* compactStorage loses nothing but deleted edges and the pair of the        *)
(* largest ids, makes nothing up, and dies of nothing but a full vertex.     *)
LEMMA CompactIs ==
  ASSUME NEW c, c.idMax \in Nat, c.perTile \in Nat, NEW t0, TileInv(c, t0)
  PROVE  Compacted(CompactStorage(c, t0), c, t0)
<1>1. PICK t : t = [t0 EXCEPT !.compactions = @ + 1]
  OBVIOUS
<1>2. /\ TileType(c, t) /\ t.compactions > 0
      /\ t.edges = t0.edges /\ t.weights = t0.weights /\ t.bitset = t0.bitset
      /\ t.deleted = t0.deleted /\ t.compact = t0.compact /\ t.counts = t0.counts
      /\ t.idCounts = t0.idCounts /\ t.targets = t0.targets /\ t.csrWeights = t0.csrWeights
      /\ t.dead = t0.dead
  BY <1>1 DEF TileInv, TileType
<1>3. PICK l : CsrOf(c, t, l)
  BY <1>2 DEF TileInv, CsrOf, SourceCounts
<1>4. CSREdges(c, t) = l /\ l \in Seq(Locals(c)) /\ Len(l) = Len(t.targets)
  BY <1>3, CsrIs DEF CsrOf
<1>5. CSREdges(c, t) = CSREdges(c, t0)
  BY <1>2 DEF CSREdges, CSRSources, SourceCounts
<1>6. CountEdges(t) = CountEdges(t0) /\ CountEdges(t) = Len(t.edges) + Len(l) /\ CountEdges(t) \in Nat
  <2>1. Len(t.edges) \in Nat
    BY <1>2 DEF TileType
  <2>2. Len(l) \in Nat
    BY <1>4
  <2>3. t.edges = t0.edges /\ t.targets = t0.targets
    BY <1>2
  <2>4. CountEdges(t) = CountEdges(t0)
    BY <2>3, Zenon DEF CountEdges
  <2>5. CountEdges(t) = Len(t.edges) + Len(l)
    BY <1>4, Zenon DEF CountEdges
  <2> QED
    BY <2>1, <2>2, <2>4, <2>5
<1>7. EdgesOf(c, t) = EdgesOf(c, t0)
  BY <1>2, <1>5 DEF EdgesOf
<1>8. TileInv(c, t)
  BY <1>2, <1>3, <1>6 DEF TileInv, WeightsKept
<1>9. CASE CountEdges(t) = 0
  <2>1. CompactStorage(c, t0) = t
    BY <1>1, <1>9 DEF CompactStorage
  <2> QED
    BY <1>2, <1>6, <1>7, <1>8, <1>9, <2>1 DEF Compacted
<1>10. CASE CountEdges(t) # 0
  <2>1. PICK all : all = t.edges \o l
    OBVIOUS
  <2>2. all \in Seq(Locals(c)) /\ Len(all) = CountEdges(t) /\ ToSet(all) = EdgesOf(c, t)
    <3>1. t.edges \in Seq(Locals(c))
      BY <1>2 DEF TileType
    <3>2. Joined(Locals(c), t.edges, l, all)
      BY <1>4, <2>1, <3>1, EdgesListed
    <3> QED
      BY <1>4, <1>6, <3>2 DEF EdgesOf, Joined
  <2>3. PICK ws : ws = t.weights \o (IF Weighted THEN SubSeq(t.csrWeights, 1, Len(l)) ELSE <<>>)
    OBVIOUS
  <2>4. Weighted => ws \in Seq(Int) /\ Len(ws) = Len(all)
    <3> SUFFICES ASSUME Weighted PROVE ws \in Seq(Int) /\ Len(ws) = Len(all)
      OBVIOUS
    <3>1. t.csrWeights \in Seq(Int) /\ t.weights \in Seq(Int)
      BY <1>2 DEF TileType
    <3>2. Len(t.weights) = Len(t.edges) /\ Len(l) <= Len(t.csrWeights)
      BY <1>4, <1>8 DEF TileInv, WeightsKept
    <3>3. PICK n \in Nat : n = Len(l)
      BY <1>4
    <3>4. PICK s : s = SubSeq(t.csrWeights, 1, n)
      OBVIOUS
    <3>5. s \in Seq(Int) /\ Len(s) = n
      BY <3>1, <3>2, <3>3, <3>4
    <3>6. ws = t.weights \o s
      BY <2>3, <3>3, <3>4
    <3>7. Joined(Int, t.weights, s, ws)
      BY <3>1, <3>5, <3>6, EdgesListed
    <3> QED
      BY <1>6, <2>2, <3>2, <3>3, <3>5, <3>7 DEF Joined
  <2>5. PICK f : f = FillCSR(c, t, all, ws, CountEdges(t))
    OBVIOUS
  <2>6. all # <<>>
    BY <1>10, <2>2
  <2>7. FilledSome(f, c, t, all, CountEdges(t))
    BY <1>2, <1>6, <2>2, <2>4, <2>5, <2>6, FillIs
  <2>8. PICK m : Filled(f, c, t, all, CountEdges(t), m)
    BY <2>7 DEF FilledSome
  <2>9. PICK r : r = ListEmptied(f)
    OBVIOUS
  <2>10. CompactStorage(c, t0) = r
    <3>1. CompactStorage(c, t0) =
            IF CountEdges(t) = 0 THEN t
            ELSE IF Len(l) # Len(t.targets) THEN [t EXCEPT !.dead = TRUE]
            ELSE ListEmptied(FillCSR(c, t, all, ws, CountEdges(t)))
      <4>1. CompactStorage(c, t0) = Storage(c, t)
        BY <1>1, StorageIs, Zenon
      <4> QED
        BY <1>4, <2>1, <2>3, <4>1, Zenon DEF Storage
    <3> QED
      BY <1>4, <1>10, <2>5, <2>9, <3>1
  <2>11. TileType(c, f)
    BY <2>8 DEF Filled
  <2>12. /\ TileType(c, r) /\ r.edges = <<>> /\ r.weights = <<>>
         /\ r.bitset = f.bitset /\ r.deleted = f.deleted /\ r.compact = f.compact
         /\ r.counts = f.counts /\ r.idCounts = f.idCounts /\ r.targets = f.targets
         /\ r.csrWeights = f.csrWeights /\ r.compactions = f.compactions /\ r.dead = f.dead
    <3>1. <<>> \in Seq(Locals(c)) /\ <<>> \in Seq(Int)
      OBVIOUS
    <3> QED
      BY <2>9, <2>11, <3>1 DEF ListEmptied, TileType
  <2>13. CsrOf(c, f, m) /\ KeptInCsr(m, c, t, all)
    BY <2>8 DEF Filled
  <2>14. CsrOf(c, r, m)
    BY <2>12, <2>13 DEF CsrOf, SourceCounts
  <2>15. CSREdges(c, r) = m /\ m \in Seq(Locals(c)) /\ Len(m) = Len(r.targets)
    BY <2>14, CsrIs DEF CsrOf
  <2>16. PICK n \in Nat : n = Len(m) /\ DOMAIN m = 1 .. n
    BY <2>15
  <2>17. CountEdges(r) = n /\ n <= CountEdges(t)
    <3>1. Len(<<>>) = 0
      OBVIOUS
    <3>2. n <= CountEdges(t)
      BY <2>2, <2>13, <2>16 DEF KeptInCsr
    <3>3. CountEdges(r) = 0 + n
      BY <2>12, <2>15, <2>16, <3>1 DEF CountEdges
    <3> QED
      BY <3>2, <3>3
  <2>18. EdgesOf(c, r) = ToSet(m)
    BY <2>12, <2>15 DEF EdgesOf, ToSet
  <2>19. WeightsKept(r)
    <3> SUFFICES ASSUME Weighted
                 PROVE  /\ Len(r.weights) = Len(r.edges) /\ Len(r.targets) <= Len(r.csrWeights)
                        /\ \A k \in 1 .. Len(r.targets) : r.csrWeights[k] = 0
      BY DEF WeightsKept
    <3>1. /\ Len(f.csrWeights) = CountEdges(t) + Len(m)
          /\ \A k \in 1 .. CountEdges(t) : f.csrWeights[k] = 0
      BY <2>8 DEF Filled
    <3>2. PICK k \in Nat : k = CountEdges(t)
      BY <1>6
    <3>3. Len(r.targets) = n /\ r.csrWeights = f.csrWeights /\ n <= k
      BY <2>12, <2>15, <2>16, <2>17, <3>2
    <3>4. Len(r.weights) = Len(r.edges)
      BY <2>12
    <3>5. Len(r.csrWeights) = k + n /\ \A j \in 1 .. k : r.csrWeights[j] = 0
      BY <2>16, <3>1, <3>2, <3>3
    <3> QED
      BY <3>3, <3>4, <3>5
  <2>20. r.bitset = t.bitset /\ r.deleted = t.deleted /\ r.compactions = t.compactions /\ r.dead = Full(c, m)
    BY <2>8, <2>12 DEF Filled
  <2>21. TileInv(c, r)
    <3>1. CountEdges(t) <= Len(t.bitset) /\ Len(r.bitset) \in Nat
      BY <1>8, <2>12, SMTT(30) DEF TileInv, TileType
    <3>2. CountEdges(r) <= Len(r.bitset)
      BY <1>6, <2>17, <2>20, <3>1
    <3> QED
      BY <1>2, <2>12, <2>14, <2>19, <2>20, <3>2 DEF TileInv
  <2>22. DOMAIN all = 1 .. Len(all)
    BY <2>2
  <2>23. ToSet(m) \subseteq ToSet(all)
    BY <2>13, <2>16, <2>22 DEF KeptInCsr, ToSet
  <2>24. \A x \in ToSet(all) : x \in t.deleted \/ x = <<c.idMax, c.idMax>> \/ x \in ToSet(m)
    <3> TAKE x \in ToSet(all)
    <3>1. PICK i \in 1 .. Len(all) : x = all[i]
      BY <2>22 DEF ToSet
    <3>2. \/ all[i] \in t.deleted \/ all[i] = <<c.idMax, c.idMax>>
          \/ \E k \in 1 .. Len(m) : all[i] = m[k]
      BY <2>13, Zenon DEF KeptInCsr
    <3> QED
      BY <2>16, <3>1, <3>2 DEF ToSet
  <2>25. Compacted(r, c, t0)
    <3>1. r.bitset = t0.bitset /\ r.deleted = t0.deleted /\ r.compactions > 0
      BY <1>2, <2>20
    <3>2. EdgesOf(c, r) \subseteq EdgesOf(c, t0)
      BY <1>7, <2>2, <2>18, <2>23
    <3>3. \A x \in EdgesOf(c, t0) : x \in t0.deleted \/ x = <<c.idMax, c.idMax>> \/ x \in EdgesOf(c, r)
      BY <1>2, <1>7, <2>2, <2>18, <2>24
    <3> QED
      BY <1>6, <1>10, <2>12, <2>15, <2>17, <2>20, <2>21, <3>1, <3>2, <3>3 DEF Compacted
  <2> QED
    BY <2>10, <2>25
<1> QED
  BY <1>9, <1>10

(* Tiles that differ only in what an executor does not walk.                 *)
SameStorage(r, t) ==
  /\ r.edges = t.edges /\ r.weights = t.weights /\ r.targets = t.targets /\ r.dead = t.dead
  /\ r.compact = t.compact /\ r.counts = t.counts /\ r.idCounts = t.idCounts
  /\ r.csrWeights = t.csrWeights /\ r.compactions = t.compactions

(* The edges of a tile are counted by a natural number.                      *)
LEMMA CountIsNat ==
  ASSUME NEW c, NEW t, TileInv(c, t)
  PROVE  CountEdges(t) \in Nat
<1>1. PICK l : CsrOf(c, t, l)
  BY DEF TileInv
<1>2. PICK m \in Nat, n \in Nat : m = Len(t.edges) /\ n = Len(t.targets)
  BY <1>1 DEF CsrOf, TileInv, TileType
<1>3. CountEdges(t) = m + n
  BY <1>2, Zenon DEF CountEdges
<1> QED
  BY <1>3

(* Such a tile stores the same edges.                                        *)
LEMMA SameStorageInv ==
  ASSUME NEW c, NEW t, TileInv(c, t), NEW r, TileType(c, r), SameStorage(r, t),
         Len(r.bitset) = Len(t.bitset)
  PROVE  /\ TileInv(c, r) /\ EdgesOf(c, r) = EdgesOf(c, t) /\ CSREdges(c, r) = CSREdges(c, t)
         /\ CountEdges(r) = CountEdges(t)
<1>1. SourceCounts(c, r) = SourceCounts(c, t)
  BY DEF SourceCounts, SameStorage
<1>2. CSREdges(c, r) = CSREdges(c, t)
  BY <1>1 DEF CSREdges, CSRSources, SameStorage
<1>3. EdgesOf(c, r) = EdgesOf(c, t)
  BY <1>2 DEF EdgesOf, SameStorage
<1>4. CountEdges(r) = CountEdges(t)
  BY DEF CountEdges, SameStorage
<1>5. \E l : CsrOf(c, r, l)
  BY <1>1 DEF CsrOf, SameStorage, TileInv
<1>6. WeightsKept(r)
  BY DEF WeightsKept, SameStorage, TileInv
<1>7. Len(r.targets) = 0 \/ r.compactions > 0
  BY DEF SameStorage, TileInv
<1>8. CountEdges(r) <= Len(r.bitset)
  BY <1>4 DEF TileInv
<1> QED
  BY <1>2, <1>3, <1>4, <1>5, <1>6, <1>7, <1>8 DEF TileInv

(* deleteEdge changes the set of deleted edges only.                         *)
LEMMA DeleteIs ==
  ASSUME NEW c, NEW t, TileInv(c, t), NEW e, GetLocalEdge(c, e) \in Locals(c)
  PROVE  LET r == DeleteEdge(c, t, e)
         IN /\ TileType(c, r) /\ SameStorage(r, t) /\ r.bitset = t.bitset
            /\ r.deleted = t.deleted \union {GetLocalEdge(c, e)}
<1>1. PICK x : x = GetLocalEdge(c, e) /\ x \in Locals(c)
  OBVIOUS
<1>2. PICK r : r = DeleteEdge(c, t, e)
  OBVIOUS
<1>3. r = [t EXCEPT !.deleted = @ \union {x}]
  BY <1>1, <1>2 DEF DeleteEdge
<1>4. TileType(c, t)
  BY DEF TileInv
<1>5. TileType(c, r) /\ r.deleted = t.deleted \union {x}
  BY <1>1, <1>3, <1>4 DEF TileType
<1>6. SameStorage(r, t) /\ r.bitset = t.bitset
  BY <1>3, <1>4 DEF TileType, SameStorage
<1> QED
  BY <1>1, <1>2, <1>5, <1>6

(* deleteRandomEdge sets one bit only.                                       *)
LEMMA DeleteRandomIs ==
  ASSUME NEW c, NEW t, TileInv(c, t), NEW i \in 1 .. CountEdges(t)
  PROVE  LET r == DeleteRandomEdge(t, i)
         IN /\ TileType(c, r) /\ SameStorage(r, t) /\ r.deleted = t.deleted
            /\ Len(r.bitset) = Len(t.bitset)
            /\ r.bitset = [t.bitset EXCEPT ![i] = TRUE]
<1>1. TileType(c, t)
  BY DEF TileInv
<1>2. PICK b : b = t.bitset /\ b \in Seq(BOOLEAN)
  BY <1>1 DEF TileType
<1>3. PICK d : d = [b EXCEPT ![i] = TRUE]
  OBVIOUS
<1>4. d \in Seq(BOOLEAN) /\ Len(d) = Len(b)
  <2>1. PICK n \in Nat : n = Len(b) /\ b \in [1 .. n -> BOOLEAN]
    BY <1>2
  <2>2. d \in [1 .. n -> BOOLEAN]
    BY <1>3, <2>1
  <2> QED
    BY <2>1, <2>2
<1>5. PICK r : r = DeleteRandomEdge(t, i)
  OBVIOUS
<1>6. r = [t EXCEPT !.bitset = d]
  BY <1>2, <1>3, <1>5 DEF DeleteRandomEdge
<1>7. TileType(c, r) /\ SameStorage(r, t) /\ r.deleted = t.deleted /\ r.bitset = d
  BY <1>1, <1>4, <1>6 DEF TileType, SameStorage
<1> QED
  BY <1>2, <1>3, <1>4, <1>5, <1>7

(* What a sequence holds after an append.                                    *)
LEMMA ToSetAppend ==
  ASSUME NEW S, NEW s \in Seq(S), NEW x \in S
  PROVE  Append(s, x) \in Seq(S) /\ ToSet(Append(s, x)) = ToSet(s) \union {x}
<1>1. PICK m \in Nat : m = Len(s) /\ DOMAIN s = 1 .. m
  OBVIOUS
<1>2. PICK a : a = Append(s, x)
  OBVIOUS
<1>3. a \in Seq(S) /\ DOMAIN a = 1 .. m + 1 /\ a[m + 1] = x /\ \A k \in 1 .. m : a[k] = s[k]
  BY <1>1, <1>2
<1>4. \A k \in 1 .. m + 1 : k \in 1 .. m \/ k = m + 1
  OBVIOUS
<1>5. m + 1 \in 1 .. m + 1 /\ \A k \in 1 .. m : k \in 1 .. m + 1
  OBVIOUS
<1>6. ToSet(a) \subseteq ToSet(s) \union {x}
  BY <1>1, <1>3, <1>4 DEF ToSet
<1>7. ToSet(s) \subseteq ToSet(a)
  BY <1>1, <1>3, <1>5 DEF ToSet
<1>8. x \in ToSet(a)
  BY <1>3, <1>5 DEF ToSet
<1> QED
  BY <1>2, <1>3, <1>6, <1>7, <1>8

(* An edge appended to the list.                                             *)
Appended(t, x, w) ==
  [t EXCEPT !.edges = Append(@, x), !.bitset = Append(@, FALSE),
            !.weights = IF Weighted THEN Append(@, w) ELSE @]

(* What appending to the list makes of a tile.                               *)
AppendedTo(r, c, t, x, w) ==
  /\ TileInv(c, r) /\ r.deleted = t.deleted /\ r.bitset = Append(t.bitset, FALSE)
  /\ r.edges = Append(t.edges, x) /\ (Weighted => r.weights = Append(t.weights, w))
  /\ CSREdges(c, r) = CSREdges(c, t) /\ r.dead = t.dead /\ r.targets = t.targets
  /\ r.csrWeights = t.csrWeights
  /\ EdgesOf(c, r) = EdgesOf(c, t) \union {x} /\ CountEdges(r) = CountEdges(t) + 1

(* Appending does.                                                           *)
LEMMA AppendIs ==
  ASSUME NEW c, NEW t, TileInv(c, t), NEW x \in Locals(c), NEW w \in Int
  PROVE  AppendedTo(Appended(t, x, w), c, t, x, w)
<1>1. TileType(c, t)
  BY DEF TileInv
<1>2. PICK es, bs, ws : /\ es = Append(t.edges, x) /\ bs = Append(t.bitset, FALSE)
                        /\ ws = IF Weighted THEN Append(t.weights, w) ELSE t.weights
  OBVIOUS
<1>3. es \in Seq(Locals(c)) /\ Len(es) = Len(t.edges) + 1
  BY <1>1, <1>2 DEF TileType
<1>4. bs \in Seq(BOOLEAN) /\ Len(bs) = Len(t.bitset) + 1
  BY <1>1, <1>2 DEF TileType
<1>5. ws \in Seq(Int) /\ (Weighted => Len(ws) = Len(t.weights) + 1)
  BY <1>1, <1>2 DEF TileType
<1>6. PICK r : r = Appended(t, x, w)
  OBVIOUS
<1>7. r = [t EXCEPT !.edges = es, !.bitset = bs, !.weights = ws]
  BY <1>2, <1>6 DEF Appended
<1>8. /\ TileType(c, r) /\ r.edges = es /\ r.bitset = bs /\ r.weights = ws
      /\ r.deleted = t.deleted /\ r.compact = t.compact /\ r.counts = t.counts
      /\ r.idCounts = t.idCounts /\ r.targets = t.targets /\ r.csrWeights = t.csrWeights
      /\ r.compactions = t.compactions /\ r.dead = t.dead
  BY <1>1, <1>3, <1>4, <1>5, <1>7 DEF TileType
<1>9. SourceCounts(c, r) = SourceCounts(c, t)
  BY <1>8 DEF SourceCounts
<1>10. CSREdges(c, r) = CSREdges(c, t)
  BY <1>8, <1>9 DEF CSREdges, CSRSources
<1>11. PICK l : CsrOf(c, t, l)
  BY DEF TileInv
<1>12. CsrOf(c, r, l) /\ Len(t.targets) \in Nat
  BY <1>8, <1>9, <1>11 DEF CsrOf
<1>13. PICK m \in Nat, n \in Nat : m = Len(t.edges) /\ n = Len(t.targets)
  BY <1>1, <1>12 DEF TileType
<1>14. CountEdges(r) = m + 1 + n /\ CountEdges(t) = m + n
  BY <1>3, <1>8, <1>13 DEF CountEdges
<1>15. CountEdges(r) <= Len(r.bitset)
  <2>1. m + n <= Len(t.bitset) /\ Len(t.bitset) \in Nat
    BY <1>1, <1>14 DEF TileInv, TileType
  <2> QED
    BY <1>4, <1>8, <1>14, <2>1
<1>16. WeightsKept(r)
  <2> SUFFICES ASSUME Weighted
               PROVE  /\ Len(r.weights) = Len(r.edges) /\ Len(r.targets) <= Len(r.csrWeights)
                      /\ \A k \in 1 .. Len(r.targets) : r.csrWeights[k] = 0
    BY DEF WeightsKept
  <2>1. /\ Len(t.weights) = Len(t.edges) /\ Len(t.targets) <= Len(t.csrWeights)
        /\ \A k \in 1 .. Len(t.targets) : t.csrWeights[k] = 0
    BY DEF TileInv, WeightsKept
  <2>2. Len(r.weights) = Len(r.edges)
    BY <1>3, <1>5, <1>8, <2>1
  <2> QED
    BY <1>8, <2>1, <2>2
<1>17. TileInv(c, r)
  <2>1. Len(r.targets) = 0 \/ r.compactions > 0
    BY <1>8 DEF TileInv
  <2> QED
    BY <1>8, <1>12, <1>15, <1>16, <2>1 DEF TileInv
<1>18. ToSet(es) = ToSet(t.edges) \union {x}
  BY <1>1, <1>2, ToSetAppend DEF TileType
<1>19. EdgesOf(c, r) = EdgesOf(c, t) \union {x}
  BY <1>8, <1>10, <1>18 DEF EdgesOf
<1>20. AppendedTo(r, c, t, x, w)
  <2>1. CountEdges(r) = CountEdges(t) + 1
    BY <1>14
  <2> QED
    BY <1>2, <1>8, <1>10, <1>17, <1>19, <2>1 DEF AppendedTo
<1> QED
  BY <1>6, <1>20

(* The edge is appended, and then the tile may be compacted.                 *)
InsertedInto(r, c, t, x, w, dynamic) ==
  \/ AppendedTo(r, c, t, x, w)
  \/ dynamic /\ \E a : AppendedTo(a, c, t, x, w) /\ Compacted(r, c, a) /\ CountEdges(a) # 0

(* insertEdge does.                                                          *)
LEMMA InsertIs ==
  ASSUME NEW c, c.idMax \in Nat, c.perTile \in Nat, NEW t, TileInv(c, t), NEW e,
         NEW x \in Locals(c), x = GetLocalEdge(c, e), NEW w \in Int, NEW dynamic \in BOOLEAN
  PROVE  InsertedInto(InsertEdge(c, t, e, w, dynamic), c, t, x, w, dynamic)
<1>1. PICK a : a = Appended(t, x, w)
  OBVIOUS
<1>2. AppendedTo(a, c, t, x, w)
  BY <1>1, AppendIs
<1>3. PICK b : b = [a EXCEPT !.next = 2 * @]
  OBVIOUS
<1>4. InsertEdge(c, t, e, w, dynamic) =
        IF dynamic /\ CountEdges(a) >= a.next THEN CompactStorage(c, b) ELSE a
  BY <1>1, <1>3 DEF InsertEdge, Appended
<1>5. CASE dynamic /\ CountEdges(a) >= a.next
  <2>1. TileInv(c, a) /\ TileType(c, a)
    BY <1>2 DEF AppendedTo, TileInv
  <2>2. /\ TileType(c, b) /\ SameStorage(b, a) /\ b.bitset = a.bitset /\ b.deleted = a.deleted
    BY <1>3, <2>1 DEF TileType, SameStorage
  <2>3. /\ TileInv(c, b) /\ EdgesOf(c, b) = EdgesOf(c, a) /\ CSREdges(c, b) = CSREdges(c, a)
        /\ CountEdges(b) = CountEdges(a)
    BY <2>1, <2>2, SameStorageInv
  <2>4. AppendedTo(b, c, t, x, w)
    BY <1>2, <2>2, <2>3 DEF AppendedTo, SameStorage
  <2>5. Compacted(CompactStorage(c, b), c, b)
    BY <2>3, CompactIs
  <2>6. CountEdges(b) # 0
    <3>1. CountEdges(t) \in Nat
      BY CountIsNat
    <3> QED
      BY <2>4, <3>1 DEF AppendedTo
  <2> QED
    BY <1>4, <1>5, <2>4, <2>5, <2>6 DEF InsertedInto
<1>6. CASE ~(dynamic /\ CountEdges(a) >= a.next)
  BY <1>2, <1>4, <1>6 DEF InsertedInto
<1> QED
  BY <1>5, <1>6

(****************************************************************************)
(* The grid and its tiles.                                                   *)
(****************************************************************************)
(* Edges and their tiles.                                                    *)
LEMMA TileSide ==
  ASSUME NEW c, IsConfig(c)
  PROVE  /\ c.perTile \in Nat \ {0} /\ c.idMax \in Nat
         /\ CountVertices(c) \in Nat
         /\ TilesPerDim(c) # 0 => CountVertices(c) = c.perTile * TilesPerDim(c)
<1>1. PICK a \in Nat : CountVertices(c) = Pow2[a]
  <2>1. c.vertices \in Nat \ {0}
    BY DEF IsConfig
  <2>2. Log2Up(c.vertices) \in Nat
    BY <2>1, Log2UpIs
  <2> QED
    BY <2>2 DEF CountVertices
<1>2. PICK b \in Nat : c.perTile = Pow2[b]
  BY DEF IsConfig
<1>3. Pow2[b] \in Nat \ {0} /\ Pow2[a] \in Nat \ {0}
  BY Pow2Grows
<1>4. TilesPerDim(c) = Pow2[a] \div Pow2[b]
  BY <1>1, <1>2 DEF TilesPerDim
<1>5. CASE b <= a
  <2>1. PICK k \in Nat : k = a - b /\ a = b + k
    BY <1>5
  <2>2. Pow2[a] \div Pow2[b] = Pow2[k]
    BY <1>5, <2>1, Pow2Div
  <2>3. Pow2[a] = Pow2[b] * Pow2[k]
    BY <2>1, Pow2Plus
  <2> QED
    BY <1>1, <1>2, <1>3, <1>4, <2>2, <2>3 DEF IsConfig
<1>6. CASE a < b
  <2>1. TilesPerDim(c) = 0
    BY <1>4, <1>6, Pow2Div
  <2> QED
    BY <1>1, <1>2, <1>3, <2>1 DEF IsConfig
<1> QED
  BY <1>5, <1>6

(* An edge is in its tile by its local ids, and they lead back to it.        *)
HasTile(c, e, tile) ==
  /\ GetLocalEdge(c, e) \in Locals(c)
  /\ GetGlobalEdge(c, TileOfEdge(c, e), GetLocalEdge(c, e)) = e
  /\ TileOfEdge(c, e) = tile

(* Every edge in range is in a tile of the grid.                             *)
LEMMA EdgeHasTile ==
  ASSUME NEW c, IsConfig(c), NEW e \in Nat \X Nat
  PROVE  /\ HasTile(c, e, TileOfEdge(c, e))
         /\ InRange(c, e) /\ TilesPerDim(c) # 0 => TileOfEdge(c, e) \in Tiles(c)
<1>1. PICK b \in Nat \ {0} : b = c.perTile
  BY TileSide
<1>2. PICK x \in Nat, y \in Nat : e = <<x, y>>
  OBVIOUS
<1>3. ASSUME NEW a \in Nat
      PROVE  /\ a % b \in 0 .. b - 1 /\ a \div b \in Nat /\ (a \div b) * b + (a % b) = a
             /\ \A n \in Nat : a < b * n => a \div b \in 0 .. n - 1
  <2>1. a = b * (a \div b) + (a % b) /\ a % b \in 0 .. b - 1
    BY DivMod
  <2>2. PICK q \in Nat : q = a \div b
    BY <2>1
  <2>3. b * q = q * b
    BY <2>2
  <2>4. \A n \in Nat : a < b * n => a \div b \in 0 .. n - 1
    BY QuotientBelow
  <2> QED
    BY <2>1, <2>2, <2>3, <2>4
<1>4. GetLocalEdge(c, e) = <<x % b, y % b>> /\ TileOfEdge(c, e) = <<x \div b, y \div b>>
  BY <1>1, <1>2 DEF GetLocalEdge, TileOfEdge
<1>5. GetLocalEdge(c, e) \in Locals(c)
  BY <1>1, <1>3, <1>4 DEF Locals
<1>6. GetGlobalEdge(c, TileOfEdge(c, e), GetLocalEdge(c, e)) = <<(x \div b) * b + (x % b), (y \div b) * b + (y % b)>>
  BY <1>1, <1>4 DEF GetGlobalEdge
<1>7. GetGlobalEdge(c, TileOfEdge(c, e), GetLocalEdge(c, e)) = e
  BY <1>2, <1>3, <1>6
<1>8. ASSUME InRange(c, e), TilesPerDim(c) # 0 PROVE TileOfEdge(c, e) \in Tiles(c)
  <2>1. PICK n \in Nat : n = TilesPerDim(c)
    BY TraversalBothWays
  <2>2. x < b * n /\ y < b * n
    BY <1>1, <1>2, <1>8, <2>1, TileSide DEF InRange
  <2>3. x \div b \in 0 .. n - 1 /\ y \div b \in 0 .. n - 1
    BY <1>3, <2>1, <2>2
  <2> QED
    BY <1>4, <2>1, <2>3 DEF Tiles
<1> QED
  BY <1>5, <1>7, <1>8 DEF HasTile

(* Every pair of local ids of a tile is an edge of it.                       *)
LEMMA TileHasEdges ==
  ASSUME NEW c, IsConfig(c), NEW tile \in Tiles(c), NEW l \in Locals(c),
         NEW e, e = GetGlobalEdge(c, tile, l)
  PROVE  TileOfEdge(c, e) = tile /\ GetLocalEdge(c, e) = l
<1>1. PICK b \in Nat \ {0}, n \in Nat : b = c.perTile /\ n = TilesPerDim(c)
  BY TileSide, TraversalBothWays
<1>2. PICK x \in 0 .. n - 1, y \in 0 .. n - 1 : tile = <<x, y>>
  BY <1>1 DEF Tiles
<1>3. PICK u \in 0 .. b - 1, v \in 0 .. b - 1 : l = <<u, v>>
  BY <1>1 DEF Locals
<1>4. e = <<x * b + u, y * b + v>>
  BY <1>1, <1>2, <1>3 DEF GetGlobalEdge
<1>5. ASSUME NEW q \in 0 .. n - 1, NEW r \in 0 .. b - 1
      PROVE  (q * b + r) \div b = q /\ (q * b + r) % b = r
  <2>1. q \in Int /\ q * b = b * q
    OBVIOUS
  <2>2. (b * q + r) \div b = q /\ (b * q + r) % b = r
    BY <2>1, DivModUnique
  <2> QED
    BY <2>1, <2>2
<1>6. TileOfEdge(c, e) = <<(x * b + u) \div b, (y * b + v) \div b>>
      /\ GetLocalEdge(c, e) = <<(x * b + u) % b, (y * b + v) % b>>
  BY <1>1, <1>4 DEF TileOfEdge, GetLocalEdge
<1> QED
  BY <1>2, <1>3, <1>5, <1>6

(* Every tile id is of a tile.                                               *)
LEMMA TileOfIdIn ==
  ASSUME NEW c, IsConfig(c), NEW id \in 0 .. CountTiles(c) - 1
  PROVE  TileOfId(c, id) \in Tiles(c)
<1>1. PICK n \in Nat : n = TilesPerDim(c)
  BY TraversalBothWays
<1>2. id \in 0 .. n * n - 1
  BY <1>1 DEF CountTiles
<1>3. id \div n \in 0 .. n - 1 /\ id - (id \div n) * n \in 0 .. n - 1
  BY <1>2, DigitsBack
<1> QED
  BY <1>1, <1>3 DEF TileOfId, Tiles

(* Tiles drawn are tiles.                                                    *)
LEMMA DrawnIn ==
  ASSUME NEW c, IsConfig(c), NEW m
  PROVE  DrawnTiles(c, m) \subseteq Tiles(c)
<1>1. \A id \in OwnTiles(c, m) : TileOfId(c, id) \in Tiles(c)
  BY TileOfIdIn DEF OwnTiles
<1> QED
  BY <1>1 DEF DrawnTiles

(* A grid with a tile has tile ids.                                          *)
LEMMA SomeTile ==
  ASSUME NEW c, IsConfig(c), Tiles(c) # {}
  PROVE  0 < CountTiles(c) /\ CountTiles(c) \in Nat /\ TilesPerDim(c) # 0
<1>1. PICK n \in Nat : n = TilesPerDim(c)
  BY TraversalBothWays
<1>2. n # 0
  BY <1>1 DEF Tiles
<1>3. n * n > 0 /\ n * n \in Nat
  BY <1>2
<1> QED
  BY <1>1, <1>2, <1>3 DEF CountTiles

(* Where a tile counts.                                                      *)
LEMMA CountsAt ==
  ASSUME NEW c, IsConfig(c), NEW tile \in Tiles(c)
  PROVE  /\ ManagerOf(c, tile) \in 0 .. c.managers - 1
         /\ TwoLevel(c) /\ ~Overrun(c) => MetaTileId(c, tile) \in 0 .. CountMetas(c) - 1
<1>1. PICK n \in Nat : n = TilesPerDim(c) /\ BothWays(c, n)
  BY TraversalBothWays
<1>2. PICK x \in 0 .. n - 1, y \in 0 .. n - 1 : tile = <<x, y>>
  BY <1>1 DEF Tiles
<1>3. ManagerOf(c, tile) \in 0 .. c.managers - 1
  <2>1. PICK M \in Nat \ {0} : M = c.managers
    BY DEF IsConfig
  <2>2. (x + y) % M \in 0 .. M - 1
    <3>1. x + y \in Int
      OBVIOUS
    <3> QED
      BY <2>1, <3>1, DivMod
  <2> QED
    BY <1>2, <2>1, <2>2 DEF ManagerOf
<1>4. ASSUME TwoLevel(c), ~Overrun(c) PROVE MetaTileId(c, tile) \in 0 .. CountMetas(c) - 1
  <2>1. PICK d \in 0 .. n * n - 1 : d = XY2D(c, x, y)
    BY <1>1 DEF BothWays
  <2>2. PICK k \in Nat : k = MetasPerDim(c) /\ k >= 1 /\ k <= n
    BY <1>1, <1>4 DEF TwoLevel, MetasPerDim, IsConfig
  <2>3. n \div k \in Nat \ {0}
    <3>1. n = k * (n \div k) + (n % k) /\ n \div k \in Int /\ n % k \in 0 .. k - 1
      <4>1. k \in Nat \ {0} /\ n \in Int
        BY <2>2
      <4> QED
        BY <4>1, DivMod
    <3>2. PICK q \in Int : q = n \div k
      BY <3>1
    <3>3. q >= 1
      <4> SUFFICES ASSUME q <= 0 PROVE FALSE
        BY <3>2
      <4>1. k * q <= k * 0
        BY <2>2, ProductRises
      <4> QED
        BY <2>2, <3>1, <3>2, <4>1
    <3> QED
      BY <3>2, <3>3
  <2>4. PICK T \in Nat \ {0} : T = TilesPerMeta(c)
    <3>1. PICK q \in Nat \ {0} : q = n \div k
      BY <2>3
    <3>2. q * q \in Nat \ {0}
      BY <3>1
    <3> QED
      BY <1>1, <2>2, <3>1, <3>2 DEF TilesPerMeta
  <2>5. MetaTileId(c, tile) = d \div T
    BY <1>2, <2>1, <2>4 DEF MetaTileId
  <2>6. ~(MetaTileId(c, tile) >= CountMetas(c))
    BY <1>4 DEF Overrun
  <2>7. d \div T \in Nat
    <3>1. d \in Nat
      BY <2>1
    <3> QED
      BY <2>4, <3>1
  <2>8. CountMetas(c) \in Nat
    BY <2>2 DEF CountMetas
  <2> QED
    BY <2>5, <2>6, <2>7, <2>8
<1> QED
  BY <1>3, <1>4

(****************************************************************************)
(* A tile and its log.                                                       *)
(****************************************************************************)
(* The log of a tile: what was inserted into it.                             *)
Entry == [edge : Edges, weight : Int]
Logged(c, tile, entries) ==
  entries \in Seq(Entry) /\ \A x \in ToSet(entries) : TileOfEdge(c, x.edge) = tile
(* The edges of a log by local ids.                                          *)
GivenTo(c, entries) == {GetLocalEdge(c, x.edge) : x \in ToSet(entries)}
(* Every edge of the list is in the log with its weight.                     *)
WeighedBy(c, t, entries) ==
  Weighted => \A i \in 1 .. Len(t.edges) : \E x \in ToSet(entries) :
                t.edges[i] = GetLocalEdge(c, x.edge) /\ t.weights[i] = x.weight
(* A tile that keeps its invariant and holds nothing but what is in its log. *)
TileStored(c, tile, t, entries) ==
  /\ TileInv(c, t) /\ Logged(c, tile, entries)
  /\ EdgesOf(c, t) \subseteq GivenTo(c, entries) /\ WeighedBy(c, t, entries)

(* A new tile does.                                                          *)
LEMMA NewStored ==
  ASSUME NEW c, IsConfig(c), NEW tile
  PROVE  TileStored(c, tile, NewTile, <<>>)
<1>1. TileInv(c, NewTile) /\ EdgesOf(c, NewTile) = {}
  BY TileSide, NewTileInv
<1>2. Logged(c, tile, <<>>)
  BY DEF Logged, ToSet
<1>3. WeighedBy(c, NewTile, <<>>)
  BY DEF WeighedBy, NewTile
<1> QED
  BY <1>1, <1>2, <1>3 DEF TileStored

(* So does one whose marks change.                                           *)
LEMMA SameStored ==
  ASSUME NEW c, NEW tile, NEW t, NEW entries, TileStored(c, tile, t, entries),
         NEW r, TileType(c, r), SameStorage(r, t), Len(r.bitset) = Len(t.bitset)
  PROVE  /\ TileStored(c, tile, r, entries) /\ CountEdges(r) = CountEdges(t)
         /\ CSREdges(c, r) = CSREdges(c, t) /\ r.dead = t.dead
<1>1. /\ TileInv(c, r) /\ EdgesOf(c, r) = EdgesOf(c, t) /\ CSREdges(c, r) = CSREdges(c, t)
      /\ CountEdges(r) = CountEdges(t)
  BY SameStorageInv DEF TileStored
<1>2. WeighedBy(c, r, entries)
  BY DEF WeighedBy, SameStorage, TileStored
<1> QED
  BY <1>1, <1>2 DEF TileStored, SameStorage

(* So does one that is compacted, with no more edges than before.            *)
LEMMA CompactStored ==
  ASSUME NEW c, IsConfig(c), NEW tile, NEW t, NEW entries, TileStored(c, tile, t, entries),
         NEW r, Compacted(r, c, t)
  PROVE  /\ TileStored(c, tile, r, entries) /\ CountEdges(r) <= CountEdges(t)
         /\ r.dead = t.dead \/ r.dead = Full(c, CSREdges(c, r))
<1>1. TileInv(c, r) /\ EdgesOf(c, r) \subseteq EdgesOf(c, t) /\ CountEdges(r) <= CountEdges(t)
  BY DEF Compacted
<1>2. WeighedBy(c, r, entries) /\ (r.dead = t.dead \/ r.dead = Full(c, CSREdges(c, r)))
  <2>1. CASE CountEdges(t) = 0
    BY <2>1 DEF Compacted, TileStored, WeighedBy
  <2>2. CASE CountEdges(t) # 0
    <3>1. r.edges = <<>> /\ r.dead = Full(c, CSREdges(c, r))
      BY <2>2 DEF Compacted
    <3>2. Len(<<>>) = 0
      OBVIOUS
    <3> QED
      BY <3>1, <3>2 DEF WeighedBy
  <2> QED
    BY <2>1, <2>2
<1> QED
  BY <1>1, <1>2 DEF TileStored

(* So does one that an edge is appended to, with the edge in its log.        *)
LEMMA AppendStored ==
  ASSUME NEW c, IsConfig(c), NEW tile, NEW t, NEW entries, TileStored(c, tile, t, entries),
         NEW e \in Edges, TileOfEdge(c, e) = tile, NEW w \in Int,
         NEW x, x = GetLocalEdge(c, e), NEW r, AppendedTo(r, c, t, x, w)
  PROVE  TileStored(c, tile, r, Append(entries, [edge |-> e, weight |-> w]))
<1>0. PICK y : y = [edge |-> e, weight |-> w]
  OBVIOUS
<1>1. y \in Entry /\ y.edge = e /\ y.weight = w
  BY <1>0 DEF Entry
<1>2. PICK more : more = Append(entries, y)
  OBVIOUS
<1>3. more \in Seq(Entry) /\ ToSet(more) = ToSet(entries) \union {y}
  BY <1>1, <1>2, ToSetAppend DEF TileStored, Logged
<1>4. Logged(c, tile, more)
  BY <1>1, <1>3 DEF TileStored, Logged
<1>5. GivenTo(c, more) = GivenTo(c, entries) \union {x}
  BY <1>1, <1>3 DEF GivenTo
<1>6. EdgesOf(c, r) \subseteq GivenTo(c, more)
  BY <1>5 DEF AppendedTo, TileStored
<1>7. WeighedBy(c, r, more)
  <2> SUFFICES ASSUME Weighted, NEW i \in 1 .. Len(r.edges)
               PROVE  \E z \in ToSet(more) : r.edges[i] = GetLocalEdge(c, z.edge) /\ r.weights[i] = z.weight
    BY DEF WeighedBy
  <2>0. PICK es, ws : es = t.edges /\ ws = t.weights
    OBVIOUS
  <2>1. PICK m \in Nat : /\ es = t.edges /\ ws = t.weights /\ m = Len(es)
                         /\ es \in Seq(Locals(c)) /\ ws \in Seq(Int) /\ Len(ws) = m
    BY <2>0 DEF TileStored, TileInv, TileType, WeightsKept
  <2>2. r.edges = Append(es, x) /\ r.weights = Append(ws, w)
    BY <2>1 DEF AppendedTo
  <2>3. i \in 1 .. m + 1
    BY <2>1, <2>2
  <2>4. CASE i = m + 1
    <3>1. r.edges[i] = x /\ r.weights[i] = w
      BY <2>1, <2>2, <2>4
    <3> QED
      BY <1>1, <1>3, <3>1
  <2>5. CASE i # m + 1
    <3>1. i \in 1 .. m
      BY <2>3, <2>5
    <3>2. r.edges[i] = es[i] /\ r.weights[i] = ws[i]
      BY <2>1, <2>2, <3>1
    <3>3. PICK z \in ToSet(entries) : es[i] = GetLocalEdge(c, z.edge) /\ ws[i] = z.weight
      BY <2>1, <3>1 DEF TileStored, WeighedBy
    <3> QED
      BY <1>3, <3>2, <3>3
  <2> QED
    BY <2>4, <2>5
<1>8. TileStored(c, tile, r, more)
  BY <1>4, <1>6, <1>7 DEF TileStored, AppendedTo
<1> QED
  BY <1>0, <1>2, <1>8

(* So does one that an edge is inserted into, compacted or not.              *)
LEMMA InsertStored ==
  ASSUME NEW c, IsConfig(c), NEW tile, NEW t, NEW entries, TileStored(c, tile, t, entries),
         NEW e \in Edges, TileOfEdge(c, e) = tile, NEW w \in Int,
         NEW dynamic \in BOOLEAN, NEW r, r = InsertEdge(c, t, e, w, dynamic)
  PROVE  /\ TileStored(c, tile, r, Append(entries, [edge |-> e, weight |-> w]))
         /\ InsertedInto(r, c, t, GetLocalEdge(c, e), w, dynamic)
         /\ r.dead = t.dead \/ r.dead = Full(c, CSREdges(c, r))
<1>1. PICK x \in Locals(c) : x = GetLocalEdge(c, e)
  BY StoreAssumption, EdgeHasTile DEF HasTile
<1>2. c.idMax \in Nat /\ c.perTile \in Nat /\ TileInv(c, t)
  BY TileSide DEF TileStored
<1>3. InsertedInto(r, c, t, x, w, dynamic)
  BY <1>1, <1>2, InsertIs
<1>4. CASE AppendedTo(r, c, t, x, w)
  <2>1. TileStored(c, tile, r, Append(entries, [edge |-> e, weight |-> w]))
    BY <1>1, <1>4, AppendStored
  <2> QED
    BY <1>1, <1>3, <1>4, <2>1 DEF AppendedTo
<1>5. CASE ~AppendedTo(r, c, t, x, w)
  <2>1. PICK a : AppendedTo(a, c, t, x, w) /\ Compacted(r, c, a)
    BY <1>3, <1>5 DEF InsertedInto
  <2>2. TileStored(c, tile, a, Append(entries, [edge |-> e, weight |-> w]))
    BY <1>1, <2>1, AppendStored
  <2>3. /\ TileStored(c, tile, r, Append(entries, [edge |-> e, weight |-> w]))
        /\ r.dead = a.dead \/ r.dead = Full(c, CSREdges(c, r))
    BY <2>1, <2>2, CompactStored
  <2> QED
    BY <1>1, <1>3, <2>1, <2>3 DEF AppendedTo
<1> QED
  BY <1>4, <1>5

(****************************************************************************)
(* The store.                                                                *)
(****************************************************************************)
(* Every tile is sound, its edges come from its log, its manager counts it,  *)
(* and a dead tile has a vertex with too many targets.                       *)
CountedTile(c, tile, t, counts) ==
  TwoLevel(c) /\ ~Overrun(c) /\ CountEdges(t) > 0 =>
    counts[ManagerOf(c, tile)][MetaTileId(c, tile)] >= 1
(* A tile dies of a full vertex only.                                        *)
DiedFull(c, t) == t.dead => Full(c, CSREdges(c, t))

(* The phases of the store.                                                  *)
PhaseInv ==
  /\ g \in Configs /\ phase \in {"insert", "compact", "done", "dead"}
  /\ phase # "dead" => ~Overrun(g)
  /\ at \in Nat /\ (phase = "insert" => at = 0)
  /\ phase = "compact" /\ Tiles(g) # {} => at < CountTiles(g)
(* The counts of the managers.                                               *)
CountsInv == metaCounts \in [Managers -> [0 .. CountMetas(g) - 1 -> Nat]]
(* The tiles.                                                                *)
TilesInv ==
  /\ DOMAIN tiles = Tiles(g) /\ DOMAIN log = Tiles(g)
  /\ \A tile \in Tiles(g) :
       /\ TileStored(g, tile, tiles[tile], log[tile])
       /\ CountedTile(g, tile, tiles[tile], metaCounts)
       /\ DiedFull(g, tiles[tile]) /\ (tiles[tile].dead => phase = "dead")
(* The inductive invariant.                                                  *)
StoreInv == PhaseInv /\ CountsInv /\ TilesInv

(* It holds at the start.                                                    *)
LEMMA StoreInit ==
  Init => StoreInv
<1> SUFFICES ASSUME Init PROVE StoreInv
  OBVIOUS
<1>1. g \in Configs /\ IsConfig(g)
  BY StoreAssumption DEF Init
<1>2. PhaseInv
  BY <1>1, SomeTile DEF Init, PhaseInv, Fails
<1>3. CountsInv
  BY DEF Init, CountsInv
<1>4. TilesInv
  <2>1. tiles = [tile \in Tiles(g) |-> NewTile] /\ log = [tile \in Tiles(g) |-> <<>>]
    BY DEF Init
  <2>2. ASSUME NEW tile \in Tiles(g)
        PROVE  /\ TileStored(g, tile, NewTile, <<>>)
               /\ CountedTile(g, tile, NewTile, metaCounts)
               /\ ~NewTile.dead
    <3>1. NewTile.dead = FALSE /\ CountEdges(NewTile) = 0
      BY <1>1, TileSide, NewTileInv
    <3> QED
      BY <1>1, <3>1, NewStored DEF CountedTile
  <2> QED
    BY <2>1, <2>2 DEF TilesInv, DiedFull
<1> QED
  BY <1>2, <1>3, <1>4 DEF StoreInv

(* One tile of the store becomes another.                                    *)
TileBecomes(tile, t, entries) ==
  /\ TileStored(g, tile, t, entries) /\ CountedTile(g, tile, t, metaCounts')
  /\ DiedFull(g, t) /\ (t.dead => phase' = "dead")

(* Counts that grow still count a tile.                                      *)
LEMMA CountsLater ==
  ASSUME CountsInv, g \in Configs, NEW tile \in Tiles(g), NEW t, NEW counts,
         CountedTile(g, tile, t, metaCounts),
         \A m \in Managers, i \in 0 .. CountMetas(g) - 1 : counts[m][i] \in Nat /\ counts[m][i] >= metaCounts[m][i]
  PROVE  CountedTile(g, tile, t, counts)
<1> SUFFICES ASSUME TwoLevel(g), ~Overrun(g), CountEdges(t) > 0
             PROVE  counts[ManagerOf(g, tile)][MetaTileId(g, tile)] >= 1
  BY DEF CountedTile
<1>1. PICK m \in Managers, i \in 0 .. CountMetas(g) - 1 : m = ManagerOf(g, tile) /\ i = MetaTileId(g, tile)
  BY StoreAssumption, CountsAt DEF Managers
<1>2. metaCounts[m][i] >= 1 /\ metaCounts[m][i] \in Nat
  BY <1>1 DEF CountedTile, CountsInv
<1>3. counts[m][i] \in Nat /\ counts[m][i] >= metaCounts[m][i]
  OBVIOUS
<1> QED
  BY <1>1, <1>2, <1>3

(* One tile becomes another and no other tile changes.                       *)
StoreBecomes(a, t, entries) ==
  /\ tiles' = [tiles EXCEPT ![a] = t] /\ DOMAIN log' = Tiles(g)
  /\ \A tile \in Tiles(g) : log'[tile] = IF tile = a THEN entries ELSE log[tile]
  /\ a \in Tiles(g) => TileBecomes(a, t, entries)
(* No count of a manager falls.                                              *)
CountsGrow ==
  /\ CountsInv'
  /\ \A m \in Managers, i \in 0 .. CountMetas(g) - 1 : metaCounts'[m][i] >= metaCounts[m][i]

(* A step of one tile keeps the tiles sound.                                 *)
LEMMA TilesStep ==
  ASSUME StoreInv, g' = g, phase = "dead" => phase' = "dead", CountsGrow,
         NEW a, NEW t, NEW entries, StoreBecomes(a, t, entries)
  PROVE  TilesInv'
<1>1. DOMAIN tiles' = Tiles(g) /\ DOMAIN log' = Tiles(g)
  BY DEF StoreInv, TilesInv, StoreBecomes
<1>2. ASSUME NEW tile \in Tiles(g)
      PROVE  /\ TileStored(g, tile, tiles'[tile], log'[tile])
             /\ CountedTile(g, tile, tiles'[tile], metaCounts')
             /\ DiedFull(g, tiles'[tile]) /\ (tiles'[tile].dead => phase' = "dead")
  <2>1. CASE tile = a
    <3>1. tiles'[tile] = t /\ log'[tile] = entries
      BY <2>1 DEF StoreInv, TilesInv, StoreBecomes
    <3> QED
      BY <2>1, <3>1 DEF TileBecomes, StoreBecomes
  <2>2. CASE tile # a
    <3>1. tiles'[tile] = tiles[tile] /\ log'[tile] = log[tile]
      BY <2>2 DEF StoreInv, TilesInv, StoreBecomes
    <3>2. /\ TileStored(g, tile, tiles[tile], log[tile])
          /\ CountedTile(g, tile, tiles[tile], metaCounts)
          /\ DiedFull(g, tiles[tile]) /\ (tiles[tile].dead => phase = "dead")
      BY DEF StoreInv, TilesInv
    <3>3. \A m \in Managers, i \in 0 .. CountMetas(g) - 1 :
            metaCounts'[m][i] \in Nat /\ metaCounts'[m][i] >= metaCounts[m][i]
      BY DEF CountsInv, Managers, CountsGrow
    <3>4. CountsInv /\ g \in Configs
      BY DEF StoreInv, PhaseInv
    <3>5. CountedTile(g, tile, tiles[tile], metaCounts')
      BY <3>2, <3>3, <3>4, CountsLater
    <3> QED
      BY <3>1, <3>2, <3>5
  <2> QED
    BY <2>1, <2>2
<1> QED
  BY <1>1, <1>2 DEF TilesInv

(* insertEdge keeps the invariant.                                           *)
LEMMA InsertKeeps ==
  ASSUME StoreInv, NEW e \in Edges, Insert(e)
  PROVE  StoreInv'
<1> DEFINE a == TileOfEdge(g, e)
           w == Len(log[a]) + 1
           r == InsertEdge(g, tiles[a], e, w, g.dynamic)
           entries == Append(log[a], [edge |-> e, weight |-> w])
<1>1. g \in Configs /\ IsConfig(g) /\ g' = g /\ phase = "insert" /\ at' = at
  BY StoreAssumption DEF StoreInv, PhaseInv, Insert
<1>2. phase' = (IF r.dead THEN "dead" ELSE phase)
  BY DEF Insert, Alive
<1>3. PhaseInv'
  BY <1>1, <1>2 DEF StoreInv, PhaseInv
<1>4. a \in Tiles(g) \/ TilesPerDim(g) = 0
  BY <1>1, StoreAssumption, EdgeHasTile DEF Insert
<1>5. TwoLevel(g) => a \in Tiles(g)
  BY <1>1, <1>4 DEF TwoLevel, MetasPerDim, IsConfig
<1>6. TwoLevel(g) => ManagerOf(g, a) \in Managers /\ MetaTileId(g, a) \in 0 .. CountMetas(g) - 1
  BY <1>1, <1>5, CountsAt DEF StoreInv, PhaseInv, Managers
<1>7. /\ CountsInv'
      /\ \A m \in Managers, i \in 0 .. CountMetas(g) - 1 : metaCounts'[m][i] >= metaCounts[m][i]
      /\ TwoLevel(g) => metaCounts'[ManagerOf(g, a)][MetaTileId(g, a)] >= 1
  <2>1. metaCounts \in [Managers -> [0 .. CountMetas(g) - 1 -> Nat]]
    BY DEF StoreInv, CountsInv
  <2>2. Managers' = Managers
    BY <1>1 DEF Managers
  <2>3. CASE TwoLevel(g)
    <3>1. PICK m \in Managers, i \in 0 .. CountMetas(g) - 1 : m = ManagerOf(g, a) /\ i = MetaTileId(g, a)
      BY <1>6, <2>3
    <3>2. metaCounts' = [metaCounts EXCEPT ![m][i] = @ + 1]
      BY <2>3, <3>1 DEF Insert
    <3>3. metaCounts' \in [Managers -> [0 .. CountMetas(g) - 1 -> Nat]]
      <4>1. metaCounts[m] \in [0 .. CountMetas(g) - 1 -> Nat]
        BY <2>1
      <4>2. PICK row : row = [metaCounts[m] EXCEPT ![i] = @ + 1]
        OBVIOUS
      <4>3. row \in [0 .. CountMetas(g) - 1 -> Nat]
        <5>1. PICK f \in [0 .. CountMetas(g) - 1 -> Nat] : f = metaCounts[m]
          BY <4>1
        <5>2. PICK k \in Nat : k = f[i] + 1
          OBVIOUS
        <5>3. row = [f EXCEPT ![i] = k]
          BY <4>2, <5>1, <5>2
        <5> QED
          BY <5>3
      <4>4. metaCounts' = [metaCounts EXCEPT ![m] = row]
        BY <3>2, <4>2
      <4> QED
        BY <2>1, <4>3, <4>4
    <3>4. \A n \in Managers, j \in 0 .. CountMetas(g) - 1 :
            metaCounts'[n][j] = IF n = m /\ j = i THEN metaCounts[n][j] + 1 ELSE metaCounts[n][j]
      BY <2>1, <3>2
    <3>5. \A n \in Managers, j \in 0 .. CountMetas(g) - 1 : metaCounts[n][j] \in Nat
      BY <2>1
    <3>6. metaCounts'[m][i] >= 1
      BY <3>4, <3>5
    <3> QED
      BY <1>1, <2>2, <3>1, <3>3, <3>4, <3>5, <3>6 DEF CountsInv
  <2>4. CASE ~TwoLevel(g)
    <3>1. metaCounts' = metaCounts
      BY <2>4 DEF Insert
    <3>2. \A n \in Managers, j \in 0 .. CountMetas(g) - 1 : metaCounts[n][j] \in Nat
      BY <2>1
    <3> QED
      BY <1>1, <2>1, <2>2, <2>4, <3>1, <3>2 DEF CountsInv
  <2> QED
    BY <2>3, <2>4
<1>8. /\ tiles' = [tiles EXCEPT ![a] = r] /\ DOMAIN log' = Tiles(g)
      /\ \A tile \in Tiles(g) : log'[tile] = IF tile = a THEN entries ELSE log[tile]
  BY DEF Insert, StoreInv, TilesInv
<1>9. ASSUME a \in Tiles(g) PROVE TileBecomes(a, r, entries)
  <2>1. TileStored(g, a, tiles[a], log[a]) /\ tiles[a].dead = FALSE
    <3>1. tiles[a].dead \in BOOLEAN
      BY <1>9 DEF StoreInv, TilesInv, TileStored, TileInv, TileType
    <3> QED
      BY <1>1, <1>9, <3>1 DEF StoreInv, TilesInv
  <2>2. w \in Int
    BY <2>1 DEF TileStored, Logged
  <2>3. g.dynamic \in BOOLEAN
    BY <1>1 DEF IsConfig
  <2> HIDE DEF w, r
  <2>4. TileStored(g, a, r, entries) /\ (r.dead = tiles[a].dead \/ r.dead = Full(g, CSREdges(g, r)))
    <3>1. PICK b, s : b = a /\ s = r
      OBVIOUS
    <3>2. s = InsertEdge(g, tiles[b], e, w, g.dynamic) /\ TileOfEdge(g, e) = b
      BY <3>1 DEF r
    <3>3. /\ TileStored(g, b, s, Append(log[b], [edge |-> e, weight |-> w]))
          /\ s.dead = tiles[b].dead \/ s.dead = Full(g, CSREdges(g, s))
      BY <1>1, <2>1, <2>2, <2>3, <3>1, <3>2, InsertStored
    <3> QED
      BY <3>1, <3>3
  <2>5. DiedFull(g, r)
    BY <2>1, <2>4 DEF DiedFull
  <2>6. r.dead => phase' = "dead"
    BY <1>2 DEF r
  <2>7. CountedTile(g, a, r, metaCounts')
    BY <1>7 DEF CountedTile
  <2> QED
    BY <2>4, <2>5, <2>6, <2>7 DEF TileBecomes
<1> HIDE DEF a, r, entries
<1>10. TilesInv'
  <2>1. phase = "dead" => phase' = "dead"
    BY <1>1
  <2>2. PICK b, t, es : b = a /\ t = r /\ es = entries
    OBVIOUS
  <2>3. /\ tiles' = [tiles EXCEPT ![b] = t] /\ DOMAIN log' = Tiles(g)
        /\ \A tile \in Tiles(g) : log'[tile] = IF tile = b THEN es ELSE log[tile]
    BY <1>8, <2>2
  <2>4. b \in Tiles(g) => TileBecomes(b, t, es)
    BY <1>9, <2>2
  <2>5. StoreBecomes(b, t, es) /\ CountsGrow
    BY <1>7, <2>3, <2>4 DEF StoreBecomes, CountsGrow
  <2> QED
    BY <1>1, <2>1, <2>5, TilesStep
<1> QED
  BY <1>3, <1>7, <1>10 DEF StoreInv

(* Counts that stay do not fall.                                             *)
LEMMA SameCounts ==
  ASSUME StoreInv, g' = g, metaCounts' = metaCounts
  PROVE  CountsGrow
<1>1. metaCounts \in [Managers -> [0 .. CountMetas(g) - 1 -> Nat]]
  BY DEF StoreInv, CountsInv
<1>2. Managers' = Managers
  BY DEF Managers
<1>3. \A n \in Managers, j \in 0 .. CountMetas(g) - 1 : metaCounts[n][j] \in Nat
  BY <1>1
<1> QED
  BY <1>1, <1>2, <1>3 DEF CountsInv, CountsGrow

(* One tile changes, and its log and its count do not.                       *)
LEMMA TileStep ==
  ASSUME StoreInv, g' = g, metaCounts' = metaCounts, log' = log, phase = "dead" => phase' = "dead",
         NEW a, NEW t, tiles' = [tiles EXCEPT ![a] = t],
         a \in Tiles(g) => /\ TileStored(g, a, t, log[a]) /\ CountEdges(t) <= CountEdges(tiles[a])
                          /\ DiedFull(g, t) /\ (t.dead => phase' = "dead")
  PROVE  TilesInv' /\ CountsInv'
<1>1. CountsGrow
  BY SameCounts
<1>2. /\ DOMAIN log' = Tiles(g)
      /\ \A tile \in Tiles(g) : log'[tile] = IF tile = a THEN log[a] ELSE log[tile]
  BY DEF StoreInv, TilesInv
<1>3. ASSUME a \in Tiles(g) PROVE TileBecomes(a, t, log[a])
  <2>1. CountedTile(g, a, tiles[a], metaCounts) /\ TileInv(g, tiles[a])
    BY <1>3 DEF StoreInv, TilesInv, TileStored
  <2>2. CountEdges(t) > 0 => CountEdges(tiles[a]) > 0
    BY <1>3, <2>1, CountIsNat DEF TileStored
  <2>3. CountedTile(g, a, t, metaCounts')
    BY <2>1, <2>2 DEF CountedTile
  <2> QED
    BY <1>3, <2>3 DEF TileBecomes
<1>4. StoreBecomes(a, t, log[a])
  BY <1>2, <1>3 DEF StoreBecomes
<1>5. TilesInv'
  BY <1>1, <1>4, TilesStep
<1> QED
  BY <1>1, <1>5 DEF CountsGrow

(* deleteEdge keeps the invariant.                                           *)
LEMMA DeleteKeeps ==
  ASSUME StoreInv, NEW e \in Edges, Delete(e)
  PROVE  StoreInv'
<1>1. PICK a, r : a = TileOfEdge(g, e) /\ r = DeleteEdge(g, tiles[a], e)
  OBVIOUS
<1>2. g \in Configs /\ IsConfig(g) /\ g' = g /\ at' = at /\ phase' = phase
  BY StoreAssumption DEF StoreInv, PhaseInv, Delete
<1>3. PhaseInv'
  BY <1>2 DEF StoreInv, PhaseInv
<1>4. tiles' = [tiles EXCEPT ![a] = r] /\ metaCounts' = metaCounts /\ log' = log
  BY <1>1 DEF Delete
<1>5. ASSUME a \in Tiles(g)
      PROVE  /\ TileStored(g, a, r, log[a]) /\ CountEdges(r) = CountEdges(tiles[a])
             /\ CountEdges(r) \in Nat /\ DiedFull(g, r) /\ (r.dead => phase' = "dead")
  <2>1. TileStored(g, a, tiles[a], log[a]) /\ DiedFull(g, tiles[a]) /\ (tiles[a].dead => phase = "dead")
    BY <1>5 DEF StoreInv, TilesInv
  <2>2. GetLocalEdge(g, e) \in Locals(g)
    BY <1>2, StoreAssumption, EdgeHasTile DEF HasTile
  <2>3. TileType(g, r) /\ SameStorage(r, tiles[a]) /\ r.bitset = tiles[a].bitset
    BY <1>1, <2>1, <2>2, DeleteIs DEF TileStored
  <2>4. /\ TileStored(g, a, r, log[a]) /\ CountEdges(r) = CountEdges(tiles[a])
        /\ CSREdges(g, r) = CSREdges(g, tiles[a]) /\ r.dead = tiles[a].dead
    BY <2>1, <2>3, SameStored
  <2>5. CountEdges(r) \in Nat
    BY <2>4, CountIsNat DEF TileStored
  <2> QED
    BY <1>2, <2>1, <2>4, <2>5 DEF DiedFull
<1>6. a \in Tiles(g) => /\ TileStored(g, a, r, log[a]) /\ CountEdges(r) <= CountEdges(tiles[a])
                       /\ DiedFull(g, r) /\ (r.dead => phase' = "dead")
  BY <1>5
<1>7. TilesInv' /\ CountsInv'
  BY <1>2, <1>4, <1>6, TileStep
<1> QED
  BY <1>3, <1>7 DEF StoreInv

(* A random deletion keeps the invariant.                                    *)
LEMMA DrawKeeps ==
  ASSUME StoreInv, NEW m \in Managers, Draw(m)
  PROVE  StoreInv'
<1>1. g \in Configs /\ IsConfig(g) /\ g' = g /\ at' = at /\ metaCounts' = metaCounts /\ log' = log
  BY StoreAssumption DEF StoreInv, PhaseInv, Draw
<1>2. phase' = phase \/ phase' = "dead"
  BY DEF Draw
<1>3. PhaseInv'
  BY <1>1, <1>2 DEF StoreInv, PhaseInv
<1>4. CASE tiles' = tiles
  <2>1. CountsInv'
    BY <1>1, SameCounts DEF CountsGrow
  <2>2. TilesInv'
    BY <1>1, <1>2, <1>4 DEF StoreInv, TilesInv
  <2> QED
    BY <1>3, <2>1, <2>2 DEF StoreInv
<1>5. CASE \E tile \in DrawnTiles(g, m) : \E i \in 1 .. CountEdges(tiles[tile]) :
             tiles' = [tiles EXCEPT ![tile] = DeleteRandomEdge(@, i)]
  <2>0. PICK a \in Tiles(g) : \E i \in 1 .. CountEdges(tiles[a]) :
          tiles' = [tiles EXCEPT ![a] = DeleteRandomEdge(@, i)]
    BY <1>1, <1>5, DrawnIn
  <2>1. PICK i \in 1 .. CountEdges(tiles[a]) :
          tiles' = [tiles EXCEPT ![a] = DeleteRandomEdge(@, i)]
    BY <2>0
  <2>2. PICK r : r = DeleteRandomEdge(tiles[a], i)
    OBVIOUS
  <2>3. tiles' = [tiles EXCEPT ![a] = r]
    BY <2>1, <2>2 DEF StoreInv, TilesInv
  <2>4. TileStored(g, a, tiles[a], log[a]) /\ DiedFull(g, tiles[a]) /\ (tiles[a].dead => phase = "dead")
    BY DEF StoreInv, TilesInv
  <2>5. TileType(g, r) /\ SameStorage(r, tiles[a]) /\ Len(r.bitset) = Len(tiles[a].bitset)
    BY <2>2, <2>4, DeleteRandomIs DEF TileStored
  <2>6. /\ TileStored(g, a, r, log[a]) /\ CountEdges(r) = CountEdges(tiles[a])
        /\ CSREdges(g, r) = CSREdges(g, tiles[a]) /\ r.dead = tiles[a].dead
    BY <2>4, <2>5, SameStored
  <2>7. CountEdges(r) \in Nat
    BY <2>6, CountIsNat DEF TileStored
  <2>8. CountEdges(r) <= CountEdges(tiles[a]) /\ DiedFull(g, r) /\ (r.dead => phase' = "dead")
    BY <1>2, <2>4, <2>6, <2>7 DEF DiedFull
  <2>9. TilesInv' /\ CountsInv'
    BY <1>1, <1>2, <2>3, <2>6, <2>8, TileStep
  <2> QED
    BY <1>3, <2>9 DEF StoreInv
<1> QED
  BY <1>4, <1>5 DEF Draw

(* The end of insertion keeps the invariant.                                 *)
LEMMA EndInsertKeeps ==
  ASSUME StoreInv, EndInsert
  PROVE  StoreInv'
<1>1. g \in Configs /\ IsConfig(g) /\ g' = g /\ at' = at /\ phase = "insert"
      /\ (phase' = "compact" \/ phase' = "done")
  BY StoreAssumption DEF StoreInv, PhaseInv, EndInsert
<1>2. PhaseInv'
  BY <1>1, SomeTile DEF StoreInv, PhaseInv
<1>3. CountsInv'
  BY <1>1 DEF StoreInv, CountsInv, EndInsert, Managers
<1>4. TilesInv'
  BY <1>1 DEF StoreInv, TilesInv, EndInsert
<1> QED
  BY <1>2, <1>3, <1>4 DEF StoreInv

(* The compaction of a tile keeps the invariant.                             *)
LEMMA CompactKeeps ==
  ASSUME StoreInv, CompactTile
  PROVE  StoreInv'
<1>1. PICK a, r : a = TileOfId(g, at) /\ r = CompactStorage(g, tiles[a])
  OBVIOUS
<1>2. g \in Configs /\ IsConfig(g) /\ g' = g /\ at' = at + 1 /\ at \in Nat /\ phase = "compact"
  BY StoreAssumption DEF StoreInv, PhaseInv, CompactTile
<1>3. phase' = IF r.dead THEN "dead" ELSE IF at' = CountTiles(g) THEN "done" ELSE phase
  BY <1>1 DEF CompactTile
<1>4. PhaseInv'
  <2>1. Tiles(g) # {} => at < CountTiles(g) /\ CountTiles(g) \in Nat
    BY <1>2, SomeTile DEF StoreInv, PhaseInv
  <2>2. ~Overrun(g)
    BY <1>2 DEF StoreInv, PhaseInv
  <2> QED
    BY <1>2, <1>3, <2>1, <2>2 DEF PhaseInv
<1>5. tiles' = [tiles EXCEPT ![a] = r] /\ metaCounts' = metaCounts /\ log' = log
  BY <1>1 DEF CompactTile
<1>6. ASSUME a \in Tiles(g)
      PROVE  /\ TileStored(g, a, r, log[a]) /\ CountEdges(r) <= CountEdges(tiles[a])
             /\ DiedFull(g, r) /\ (r.dead => phase' = "dead")
  <2>1. TileStored(g, a, tiles[a], log[a]) /\ DiedFull(g, tiles[a]) /\ (tiles[a].dead => phase = "dead")
    BY <1>6 DEF StoreInv, TilesInv
  <2>2. Compacted(r, g, tiles[a])
    BY <1>1, <1>2, <2>1, TileSide, CompactIs DEF TileStored
  <2>3. /\ TileStored(g, a, r, log[a]) /\ CountEdges(r) <= CountEdges(tiles[a])
        /\ r.dead = tiles[a].dead \/ r.dead = Full(g, CSREdges(g, r))
    BY <1>2, <2>1, <2>2, CompactStored
  <2>4. DiedFull(g, r)
    <3>1. tiles[a].dead \in BOOLEAN
      BY <2>1 DEF TileStored, TileInv, TileType
    <3> QED
      BY <1>2, <2>1, <2>3, <3>1 DEF DiedFull
  <2> QED
    BY <1>3, <2>3, <2>4
<1>7. TilesInv' /\ CountsInv'
  BY <1>2, <1>5, <1>6, TileStep
<1> QED
  BY <1>4, <1>7 DEF StoreInv

(* The invariant: every tile has a CSR that is sorted, repeats nothing and   *)
(* counts its targets; holds nothing but what was inserted into it; has a    *)
(* bit for every edge; is counted by its manager under its meta tile; and    *)
(* died of a full vertex only.                                               *)
THEOREM StoreHolds ==
  Spec => []StoreInv
<1>1. StoreInv /\ [Next]_vars => StoreInv'
  <2> SUFFICES ASSUME StoreInv, [Next]_vars PROVE StoreInv'
    OBVIOUS
  <2>1. CASE \E e \in Edges : Insert(e) \/ Delete(e)
    BY <2>1, InsertKeeps, DeleteKeeps
  <2>2. CASE \E m \in Managers : Draw(m)
    BY <2>2, DrawKeeps
  <2>3. CASE EndInsert
    BY <2>3, EndInsertKeeps
  <2>4. CASE CompactTile
    BY <2>4, CompactKeeps
  <2>5. CASE End \/ UNCHANGED vars
    BY <2>5 DEF End, vars, StoreInv, PhaseInv, CountsInv, TilesInv, Managers
  <2> QED
    BY <2>1, <2>2, <2>3, <2>4, <2>5 DEF Next
<1> QED
  BY <1>1, StoreInit, PTL DEF Spec

(****************************************************************************)
(* The properties.                                                           *)
(****************************************************************************)
(* The vertices of a tile and the largest id are not the same number: one is *)
(* a power of two, the other is one less than one.                           *)
LEMMA IdsApart ==
  ASSUME NEW c, IsConfig(c)
  PROVE  c.perTile # c.idMax
<1> SUFFICES ASSUME c.perTile = c.idMax PROVE FALSE
  OBVIOUS
<1>0. c.perTile \in Nat /\ c.idMax \in Nat
  BY DEF IsConfig
<1>a. PICK a \in 0 .. c.perTile : c.perTile = Pow2[a]
  BY DEF IsConfig
<1>b. PICK b \in 2 .. c.idMax : c.idMax + 1 = Pow2[b]
  BY DEF IsConfig
<1>1. a \in Nat /\ b \in Nat /\ c.perTile = Pow2[a] /\ c.idMax + 1 = Pow2[b] /\ b >= 2
  BY <1>0, <1>a, <1>b
<1>2. PICK k \in Nat : b = (k + 1) + 1
  <2>1. b - 2 \in Nat /\ b = ((b - 2) + 1) + 1
    BY <1>1
  <2> QED
    BY <2>1
<1>3. PICK p \in Nat : p = Pow2[k] /\ Pow2[b] = 4 * p /\ p >= 1
  <2>1. Pow2[k + 1] = 2 * Pow2[k] /\ Pow2[b] = 2 * Pow2[k + 1] /\ Pow2[k] \in Nat /\ Pow2[k] >= 1
    BY <1>2, Pow2Steps, Pow2Grows
  <2> QED
    BY <2>1
<1>4. Pow2[a] + 1 = 4 * p
  BY <1>1, <1>3
<1>5. CASE a = 0
  BY <1>3, <1>4, <1>5, Pow2Steps
<1>6. CASE a # 0
  <2>1. PICK i \in Nat : a = i + 1
    <3>1. a - 1 \in Nat /\ a = (a - 1) + 1
      BY <1>6
    <3> QED
      BY <3>1
  <2>2. PICK q \in Nat : q = Pow2[i] /\ Pow2[a] = 2 * q
    BY <2>1, Pow2Steps
  <2> QED
    BY <1>4, <2>2
<1> QED
  BY <1>5, <1>6

(* A rising list repeats nothing.                                            *)
LEMMA RisingApart ==
  ASSUME NEW c, c.perTile \in Nat, NEW l \in Seq(Locals(c)), RisingEdges(l),
         NEW j \in 1 .. Len(l), NEW k \in 1 .. Len(l), l[j] = l[k]
  PROVE  j = k
<1>1. l[j] \in Nat \X Nat /\ l[k] \in Nat \X Nat
  <2>1. l[j] \in Locals(c) /\ l[k] \in Locals(c)
    BY ElementOfSeq
  <2> QED
    BY <2>1 DEF Locals
<1>2. j < k \/ k < j \/ j = k
  OBVIOUS
<1> QED
  BY <1>1, <1>2, EdgeOrder DEF RisingEdges

(* The targets of one source in CSR order are no more than the vertices of  *)
(* a tile, and no more than the edges of it in a set the CSR is of.         *)
TargetsFit(c, l, v, G) ==
  /\ CountFrom(l, v) \in Nat /\ CountFrom(l, v) <= c.perTile
  /\ CountFrom(l, v) <= Cardinality({x \in G : x[1] = v})

(* The targets of one source are as many edges of the tile, and no more than *)
(* its vertices.                                                             *)
LEMMA TargetsOfSource ==
  ASSUME NEW c, c.perTile \in Nat, NEW l \in Seq(Locals(c)), RisingEdges(l), NEW v,
         NEW G, IsFiniteSet(G), ToSet(l) \subseteq G
  PROVE  TargetsFit(c, l, v, G)
<1>1. PICK N \in Nat : N = Len(l) /\ DOMAIN l = 1 .. N
  OBVIOUS
<1> DEFINE K == {k \in 1 .. N : l[k][1] = v}
           X == {x \in G : x[1] = v}
           f == [k \in K |-> l[k]]
           h == [k \in K |-> l[k][2]]
<1>2. IsFiniteSet(K) /\ Cardinality(K) \in Nat /\ CountFrom(l, v) = Cardinality(K)
  BY <1>1, CountIn DEF CountFrom
<1>3. \A j \in 1 .. N, k \in 1 .. N : l[j] = l[k] => j = k
  BY <1>1, RisingApart
<1>4. \A k \in K : k \in 1 .. N /\ l[k] \in X /\ l[k] \in Locals(c) /\ l[k][1] = v
  BY <1>1 DEF ToSet
<1>5. f \in Injection(K, X)
  <2>1. f \in [K -> X] /\ \A k \in K : f[k] = l[k]
    BY <1>4
  <2> HIDE DEF K, X, f
  <2> QED
    BY <1>3, <1>4, <2>1, Fun_IsInj
<1>6. h \in Injection(K, 0 .. c.perTile - 1)
  <2>1. \A k \in K : l[k][2] \in 0 .. c.perTile - 1 /\ l[k] = <<v, l[k][2]>>
    BY <1>4 DEF Locals
  <2>2. h \in [K -> 0 .. c.perTile - 1] /\ \A k \in K : h[k] = l[k][2]
    BY <2>1
  <2>3. ASSUME NEW j \in K, NEW k \in K, h[j] = h[k] PROVE j = k
    <3>1. l[j] = <<v, h[j]>> /\ l[k] = <<v, h[k]>>
      BY <2>1, <2>2
    <3> HIDE DEF h, K
    <3> QED
      BY <1>3, <1>4, <2>3, <3>1
  <2> HIDE DEF K, h
  <2> QED
    BY <2>2, <2>3, Fun_IsInj
<1>7. IsFiniteSet(X)
  BY FS_Subset
<1>8. IsFiniteSet(0 .. c.perTile - 1) /\ Cardinality(0 .. c.perTile - 1) = c.perTile
  BY IntervalSize
<1> HIDE DEF K, X, f, h
<1>9. Cardinality(K) <= Cardinality(X)
  BY <1>5, <1>7, FS_Injection
<1>10. Cardinality(K) <= c.perTile
  BY <1>6, <1>8, FS_Injection
<1> QED
  BY <1>2, <1>9, <1>10 DEF X, TargetsFit

(* A log holds finitely many edges.                                          *)
LEMMA GivenFinite ==
  ASSUME NEW c, NEW S, NEW entries \in Seq(S)
  PROVE  IsFiniteSet(GivenTo(c, entries))
<1>1. PICK n \in Nat : n = Len(entries) /\ DOMAIN entries = 1 .. n
  OBVIOUS
<1> DEFINE f == [i \in 1 .. n |-> GetLocalEdge(c, entries[i].edge)]
<1>2. f \in Surjection(1 .. n, GivenTo(c, entries))
  <2>1. ASSUME NEW i \in 1 .. n PROVE f[i] \in GivenTo(c, entries)
    BY <1>1 DEF GivenTo, ToSet
  <2>2. ASSUME NEW y \in GivenTo(c, entries) PROVE \E i \in 1 .. n : f[i] = y
    BY <1>1 DEF GivenTo, ToSet
  <2>3. f \in [1 .. n -> GivenTo(c, entries)]
    BY <2>1
  <2> HIDE DEF f
  <2> QED
    BY <2>2, <2>3, Fun_IsSurj
<1>3. IsFiniteSet(1 .. n)
  BY NatRange
<1> QED
  BY <1>2, <1>3, FS_Surjection

(* There is a bit for every position deleteRandomEdge may draw and for every *)
(* one the executors test, for any number of insertions, deletions and       *)
(* compactions.                                                              *)
THEOREM BitsSuffice == Spec => []BitForEveryEdge
<1>1. StoreInv => BitForEveryEdge
  BY DEF StoreInv, TilesInv, TileStored, TileInv, BitForEveryEdge
<1> QED
  BY <1>1, StoreHolds, PTL

(* What CSRInOrder says of one tile.                                         *)
LEMMA TileInOrder ==
  ASSUME NEW c, IsConfig(c), NEW tile, NEW t, NEW entries, TileStored(c, tile, t, entries), DiedFull(c, t)
  PROVE  IF t.dead
         THEN c.perTile > c.idMax
              /\ \E v \in 0 .. c.perTile - 1 : Cardinality({l \in GivenTo(c, entries) : l[1] = v}) >= c.idMax
         ELSE /\ Len(CSRSources(c, t)) = Len(t.targets) /\ ToSet(CSREdges(c, t)) \subseteq GivenTo(c, entries)
              /\ \A i \in 1 .. Len(CSREdges(c, t)) - 1 : EdgeBefore(CSREdges(c, t)[i], CSREdges(c, t)[i + 1])
<1>1. PICK l : CsrOf(c, t, l)
  BY DEF TileStored, TileInv
<1>2. /\ CSREdges(c, t) = l /\ Len(CSRSources(c, t)) = Len(t.targets)
      /\ l \in Seq(Locals(c)) /\ RisingEdges(l)
  BY <1>1, CsrIs DEF CsrOf
<1>3. ToSet(l) \subseteq GivenTo(c, entries)
  BY <1>2 DEF TileStored, EdgesOf
<1>4. CASE t.dead
  <2>1. PICK v \in 0 .. c.perTile - 1 : CountFrom(l, v) >= c.idMax
    BY <1>2, <1>4 DEF DiedFull, Full
  <2>2. PICK G : G = GivenTo(c, entries)
    OBVIOUS
  <2>3. IsFiniteSet(G)
    BY <2>2, GivenFinite DEF TileStored, Logged
  <2>4. c.perTile \in Nat /\ c.idMax \in Nat
    BY TileSide
  <2>a. TargetsFit(c, l, v, G)
    <3>1. ToSet(l) \subseteq G
      BY <1>3, <2>2
    <3> QED
      BY <1>2, <3>1, <2>3, <2>4, TargetsOfSource
  <2>5. /\ CountFrom(l, v) \in Nat /\ CountFrom(l, v) <= c.perTile
        /\ CountFrom(l, v) <= Cardinality({x \in G : x[1] = v})
    BY <2>a DEF TargetsFit
  <2>6. c.perTile > c.idMax
    BY <2>1, <2>4, <2>5, IdsApart
  <2>7. Cardinality({x \in G : x[1] = v}) \in Nat
    <3>1. IsFiniteSet({x \in G : x[1] = v})
      BY <2>3, FS_Subset
    <3> QED
      BY <3>1, FS_CardinalityType
  <2>8. Cardinality({x \in G : x[1] = v}) >= c.idMax
    BY <2>1, <2>4, <2>5, <2>7
  <2> QED
    BY <1>4, <2>2, <2>6, <2>8
<1>5. CASE ~t.dead
  <2>1. ASSUME NEW i \in 1 .. Len(l) - 1 PROVE EdgeBefore(l[i], l[i + 1])
    <3>1. i \in 1 .. Len(l) /\ i + 1 \in 1 .. Len(l) /\ i < i + 1
      BY <1>2
    <3> QED
      BY <1>2, <3>1 DEF RisingEdges
  <2> QED
    BY <1>2, <1>3, <1>5, <2>1
<1> QED
  BY <1>4, <1>5

(* The CSR of every tile is sorted, repeats nothing, holds what was inserted *)
(* and matches its counts; compaction dies in tiles of more vertices than an *)
(* id counts only, of a vertex with that many targets.                       *)
THEOREM CSRAlwaysInOrder == Spec => []CSRInOrder
<1>1. ASSUME StoreInv PROVE CSRInOrder
  <2>1. IsConfig(g)
    BY <1>1, StoreAssumption DEF StoreInv, PhaseInv
  <2>2. \A tile \in Tiles(g) : TileStored(g, tile, tiles[tile], log[tile]) /\ DiedFull(g, tiles[tile])
    BY <1>1 DEF StoreInv, TilesInv
  <2> QED
    BY <2>1, <2>2, TileInOrder DEF CSRInOrder, GivenTo
<1>2. StoreInv => CSRInOrder
  BY <1>1
<1> QED
  BY <1>2, StoreHolds, PTL

(* What an executor makes of a tile: the CSR, and the list where the bits of *)
(* its positions are clear.                                                  *)
FromCsr(c, tile, t, x) ==
  \E k \in 1 .. Len(CSREdges(c, t)) :
    x = [edge |-> GetGlobalEdge(c, tile, CSREdges(c, t)[k]),
         weight |-> IF Weighted THEN t.csrWeights[k] ELSE 1]
FromList(c, tile, t, x) ==
  \E i \in 1 .. Len(t.edges) :
    /\ ~t.bitset[i]
    /\ x = [edge |-> GetGlobalEdge(c, tile, t.edges[i]),
            weight |-> IF Weighted THEN t.weights[i] ELSE 1]

(* A family over 1 .. n is a sequence of its members.                        *)
LEMMA FamilySeq ==
  ASSUME NEW n \in Nat, NEW s, s = [k \in 1 .. n |-> s[k]]
  PROVE  s \in Seq(ToSet(s)) /\ ToSet(s) = {s[k] : k \in 1 .. n}
<1>1. DOMAIN s = 1 .. n
  OBVIOUS
<1>2. ToSet(s) = {s[k] : k \in 1 .. n}
  BY <1>1 DEF ToSet
<1>3. s \in [1 .. n -> ToSet(s)]
  BY <1>2
<1> QED
  BY <1>2, <1>3

(* It is a sequence over every set that has them.                            *)
LEMMA FamilyMember ==
  ASSUME NEW n \in Nat, NEW s, s = [k \in 1 .. n |-> s[k]], NEW S, ToSet(s) \subseteq S
  PROVE  s \in Seq(S)
<1>1. s \in Seq(ToSet(s))
  BY FamilySeq
<1>2. s \in [1 .. n -> S]
  BY FamilySeq
<1> QED
  BY <1>2

(* An executor reads the CSR, and of the list what is not marked.            *)
LEMMA ExecutedIs ==
  ASSUME NEW c, NEW tile, NEW t, TileInv(c, t), NEW x
  PROVE  x \in ToSet(Executed(c, tile, t)) <=> FromCsr(c, tile, t, x) \/ FromList(c, tile, t, x)
<1>1. PICK csr : csr = CSREdges(c, t) /\ csr \in Seq(Locals(c))
  BY CsrIs DEF TileInv, CsrOf
<1>2. PICK n \in Nat : n = Len(csr) /\ DOMAIN csr = 1 .. n
  BY <1>1
<1>3. PICK m \in Nat : m = Len(t.edges) /\ DOMAIN t.edges = 1 .. m
  <2>1. t.edges \in Seq(Locals(c))
    BY DEF TileInv, TileType
  <2>2. PICK es : es = t.edges
    OBVIOUS
  <2> QED
    BY <2>1, <2>2
<1>4. PICK P : P = {i \in 1 .. m : ~t.bitset[i]}
  OBVIOUS
<1>5. PICK list : list = Ascending(P)
  OBVIOUS
<1>6. IsAscending(list, P)
  <2>1. IsFiniteSet(P) /\ P \in SUBSET Int
    BY <1>4, CountIn
  <2> QED
    BY <1>5, <2>1, AscendingSorts
<1>7. PICK N \in Nat : list \in [1 .. N -> P]
  BY <1>6 DEF IsAscending
<1>8. \A i \in P : \E k \in 1 .. N : list[k] = i
  BY <1>6, <1>7, SMTT(30) DEF IsAscending
<1> DEFINE W(ws, i) == IF Weighted THEN ws[i] ELSE 1
           p == [k \in 1 .. n |-> [edge |-> GetGlobalEdge(c, tile, csr[k]), weight |-> W(t.csrWeights, k)]]
           q == [k \in 1 .. N |-> [edge |-> GetGlobalEdge(c, tile, t.edges[list[k]]), weight |-> W(t.weights, list[k])]]
<1>9. Executed(c, tile, t) = p \o q
  <2>1. list = Ascending({i \in DOMAIN t.edges : ~t.bitset[i]})
    BY <1>3, <1>4, <1>5
  <2>2. DOMAIN list = 1 .. N
    BY <1>7
  <2> QED
    BY <1>1, <1>2, <2>1, <2>2 DEF Executed
<1>10. PICK u, v, s : u = p /\ v = q /\ s = p \o q
  OBVIOUS
<1>11. ToSet(s) = ToSet(u) \union ToSet(v)
  <2>1. PICK S : S = ToSet(u) \union ToSet(v)
    OBVIOUS
  <2>2. u = [k \in 1 .. n |-> u[k]]
    BY <1>10
  <2>3. v = [k \in 1 .. N |-> v[k]]
    BY <1>10
  <2>4. u \in Seq(S)
    BY <2>1, <2>2, FamilyMember
  <2>5. v \in Seq(S)
    BY <2>1, <2>3, FamilyMember
  <2> HIDE DEF p, q
  <2>6. Joined(S, u, v, s)
    BY <1>10, <2>4, <2>5, EdgesListed
  <2> QED
    BY <2>6 DEF Joined
<1>12. x \in ToSet(u) <=> FromCsr(c, tile, t, x)
  <2>1. DOMAIN u = 1 .. n
    BY <1>10
  <2>2. \A k \in 1 .. n : u[k] = [edge |-> GetGlobalEdge(c, tile, csr[k]), weight |-> W(t.csrWeights, k)]
    BY <1>10
  <2> HIDE DEF p, q
  <2> QED
    BY <1>1, <1>2, <2>1, <2>2 DEF ToSet, FromCsr
<1>13. x \in ToSet(v) <=> FromList(c, tile, t, x)
  <2>1. DOMAIN v = 1 .. N
    BY <1>10
  <2>2. \A k \in 1 .. N : v[k] = [edge |-> GetGlobalEdge(c, tile, t.edges[list[k]]), weight |-> W(t.weights, list[k])]
    BY <1>10
  <2>3. \A k \in 1 .. N : list[k] \in P
    BY <1>7
  <2> HIDE DEF p, q
  <2>4. ASSUME x \in ToSet(v) PROVE FromList(c, tile, t, x)
    <3>1. PICK k \in 1 .. N : x = v[k]
      BY <2>1, <2>4 DEF ToSet
    <3>2. PICK i \in P : i = list[k]
      BY <2>3
    <3>3. x = [edge |-> GetGlobalEdge(c, tile, t.edges[i]), weight |-> W(t.weights, i)]
      BY <2>2, <3>1, <3>2
    <3> QED
      BY <1>3, <1>4, <3>2, <3>3 DEF FromList
  <2>5. ASSUME FromList(c, tile, t, x) PROVE x \in ToSet(v)
    <3>1. PICK i \in P : x = [edge |-> GetGlobalEdge(c, tile, t.edges[i]), weight |-> W(t.weights, i)]
      BY <1>3, <1>4, <2>5 DEF FromList
    <3>2. PICK k \in 1 .. N : list[k] = i
      BY <1>8
    <3>3. x = v[k]
      BY <2>2, <3>1, <3>2
    <3> QED
      BY <2>1, <3>3 DEF ToSet
  <2> QED
    BY <2>4, <2>5
<1> QED
  BY <1>9, <1>10, <1>11, <1>12, <1>13

(* Every edge of a list stands beside a weight it was inserted with.         *)
LEMMA WeightsOf ==
  ASSUME NEW c, IsConfig(c), NEW tile, NEW t, NEW entries, TileStored(c, tile, t, entries), Weighted,
         NEW i \in 1 .. Len(t.edges)
  PROVE  [edge |-> GetGlobalEdge(c, tile, t.edges[i]), weight |-> t.weights[i]] \in ToSet(entries)
<1>1. TileInv(c, t) /\ Logged(c, tile, entries) /\ WeighedBy(c, t, entries)
  BY DEF TileStored
<1>2. PICK y \in ToSet(entries) : t.edges[i] = GetLocalEdge(c, y.edge) /\ t.weights[i] = y.weight
  BY <1>1 DEF WeighedBy
<1>3. y \in Entry /\ TileOfEdge(c, y.edge) = tile
  <2>1. entries \in Seq(Entry)
    BY <1>1 DEF Logged
  <2>2. y \in Entry
    BY <2>1 DEF ToSet
  <2> QED
    BY <1>1, <2>2 DEF Logged
<1>4. y.edge \in Nat \X Nat /\ y = [edge |-> y.edge, weight |-> y.weight]
  BY <1>3, StoreAssumption DEF Entry
<1>5. GetGlobalEdge(c, tile, GetLocalEdge(c, y.edge)) = y.edge
  BY <1>3, <1>4, EdgeHasTile DEF HasTile
<1> QED
  BY <1>2, <1>4, <1>5

(* Every edge of a list stands beside a weight it was inserted with, over    *)
(* all compactions (insertEdge, compactStorage).                             *)
THEOREM WeightsAlwaysFollow == Spec => []WeightsFollow
<1>1. ASSUME StoreInv PROVE WeightsFollow
  <2>1. IsConfig(g)
    BY <1>1, StoreAssumption DEF StoreInv, PhaseInv
  <2>2. \A tile \in Tiles(g) : TileStored(g, tile, tiles[tile], log[tile])
    BY <1>1 DEF StoreInv, TilesInv
  <2> QED
    <3> SUFFICES ASSUME Weighted, NEW tile \in Tiles(g), NEW i \in DOMAIN tiles[tile].edges
                 PROVE  [edge |-> GetGlobalEdge(g, tile, tiles[tile].edges[i]),
                         weight |-> tiles[tile].weights[i]] \in ToSet(log[tile])
      BY DEF WeightsFollow
    <3>1. TileStored(g, tile, tiles[tile], log[tile])
      BY <2>2
    <3>2. i \in 1 .. Len(tiles[tile].edges)
      <4>1. tiles[tile].edges \in Seq(Locals(g))
        BY <3>1 DEF TileStored, TileInv, TileType
      <4> QED
        BY <4>1
    <3> QED
      BY <2>1, <3>1, <3>2, WeightsOf
<1>2. StoreInv => WeightsFollow
  BY <1>1
<1> QED
  BY <1>2, StoreHolds, PTL

(* A sum of natural numbers is no less than each of them.                    *)
LEMMA SumNat ==
  ASSUME NEW D, IsFiniteSet(D), NEW f \in [D -> Nat]
  PROVE  SumFunction(f) \in Nat
<1> DEFINE Fine(E) == \A p \in [E -> Nat] : SumFunction(p) \in Nat
           S == {n \in Nat : \A E \in SUBSET D : Cardinality(E) = n => Fine(E)}
<1>1. 0 \in S
  <2> SUFFICES ASSUME NEW E \in SUBSET D, Cardinality(E) = 0, NEW p \in [E -> Nat]
               PROVE  SumFunction(p) \in Nat
    OBVIOUS
  <2>1. IsFiniteSet(E)
    BY FS_Subset
  <2>2. E = {}
    BY <2>1, FS_EmptySet
  <2>3. p \in [{} -> Int]
    BY <2>2
  <2>4. SumFunction(p) = 0
    BY <2>3, SumEmpty
  <2> QED
    BY <2>4
<1>2. ASSUME NEW n \in Nat, n \in S PROVE n + 1 \in S
  <2> SUFFICES ASSUME NEW E \in SUBSET D, Cardinality(E) = n + 1, NEW p \in [E -> Nat]
               PROVE  SumFunction(p) \in Nat
    OBVIOUS
  <2>1. IsFiniteSet(E)
    BY FS_Subset
  <2>2. E # {}
    BY <2>1, FS_EmptySet
  <2>3. PICK x \in E : TRUE
    BY <2>2
  <2>4. PICK F \in SUBSET D : F = E \ {x} /\ Cardinality(F) = n
    BY <2>1, <2>3, OneRemoved
  <2>5. Without(p, x) \in [F -> Nat]
    BY <2>4 DEF Without
  <2>6. SumFunction(Without(p, x)) \in Nat
    BY <1>2, <2>4, <2>5
  <2>7. p \in [E -> Int]
    OBVIOUS
  <2>8. SumFunction(p) = p[x] + SumFunction(Without(p, x))
    BY <2>1, <2>3, <2>7, SumRemove
  <2>9. p[x] \in Nat
    BY <2>3
  <2> QED
    BY <2>6, <2>8, <2>9
<1>3. Nat \subseteq S
  <2> HIDE DEF S
  <2> QED
    BY <1>1, <1>2, SetInduction
<1>4. Cardinality(D) \in Nat
  BY FS_CardinalityType
<1> QED
  BY <1>3, <1>4

(* It is a number, and each of them is no greater.                           *)
LEMMA SumAbove ==
  ASSUME NEW D, IsFiniteSet(D), NEW f \in [D -> Nat], NEW x \in D
  PROVE  f[x] \in Nat /\ SumFunction(f) \in Nat /\ f[x] <= SumFunction(f)
<1>1. f \in [D -> Int]
  OBVIOUS
<1>2. SumFunction(f) = f[x] + SumFunction(Without(f, x))
  BY <1>1, SumRemove
<1>3. IsFiniteSet(D \ {x})
  BY FS_Subset
<1>4. Without(f, x) \in [D \ {x} -> Nat]
  BY DEF Without
<1>5. SumFunction(Without(f, x)) \in Nat
  BY <1>3, <1>4, SumNat
<1> QED
  BY <1>2, <1>5

(* A meta tile of an even grid is made of tiles that count in it.            *)
LEMMA TilesOfMetaAre ==
  ASSUME NEW c, IsConfig(c), TwoLevel(c), ~Overrun(c), NEW i \in 0 .. CountMetas(c) - 1,
         NEW d \in i * TilesPerMeta(c) .. (i + 1) * TilesPerMeta(c) - 1
  PROVE  D2XY(c, d) \in Tiles(c) /\ MetaTileId(c, D2XY(c, d)) = i
<1>1. PICK n \in Nat : n = TilesPerDim(c) /\ BothWays(c, n)
  BY TraversalBothWays
<1>2. PICK k \in Nat \ {0} : k = MetasPerDim(c) /\ k <= n
  BY <1>1 DEF TwoLevel, MetasPerDim, IsConfig
<1>3. PICK q \in Int : q = n \div k /\ n = k * q
  <2>0. n \in Int /\ k \in Nat \ {0}
    OBVIOUS
  <2>1. n = k * (n \div k) + (n % k) /\ n \div k \in Int
    BY <2>0, DivMod
  <2>2. n % k = 0
    BY <1>1, <1>2, OverrunIs
  <2> QED
    BY <2>1, <2>2
<1>4. q >= 1
  <2> SUFFICES ASSUME q <= 0 PROVE FALSE
    BY <1>3
  <2>1. k * q <= k * 0
    BY <1>2, ProductRises
  <2> QED
    BY <1>2, <1>3, <2>1
<1>5. PICK T \in Nat \ {0}, K \in Nat : T = TilesPerMeta(c) /\ K = CountMetas(c) /\ K * T = n * n
  <2>1. q * q \in Nat \ {0} /\ k * k \in Nat
    BY <1>4
  <2>2. (k * k) * (q * q) = (k * q) * (k * q)
    OBVIOUS
  <2>3. TilesPerMeta(c) = q * q /\ CountMetas(c) = k * k
    BY <1>1, <1>2, <1>3 DEF TilesPerMeta, CountMetas
  <2> QED
    BY <1>3, <2>1, <2>2, <2>3
<1>6. i \in 0 .. K - 1 /\ d \in i * T .. (i + 1) * T - 1
  BY <1>5
<1>7. PICK r \in 0 .. T - 1 : d = T * i + r
  <2>1. (i + 1) * T = i * T + T /\ i * T = T * i /\ i * T \in Int
    BY <1>6
  <2>2. d - T * i \in 0 .. T - 1 /\ d = T * i + (d - T * i)
    BY <1>6, <2>1
  <2> QED
    BY <2>2
<1>8. d \div T = i
  <2>1. i \in Int
    BY <1>6
  <2> QED
    BY <1>7, <2>1, DivModUnique
<1>9. d \in 0 .. n * n - 1
  <2>1. T * (i + 1) <= T * K /\ T * (i + 1) \in Int /\ T * K \in Int
    <3>1. i + 1 \in Int /\ K \in Int /\ i + 1 <= K
      BY <1>6
    <3> QED
      BY <3>1, ProductRises
  <2>2. (i + 1) * T = T * (i + 1) /\ K * T = T * K
    BY <1>6
  <2>3. i * T >= 0 /\ i * T \in Int
    BY <1>6
  <2> QED
    BY <1>5, <1>6, <2>1, <2>2, <2>3
<1>10. PICK x \in 0 .. n - 1, y \in 0 .. n - 1 : D2XY(c, d) = <<x, y>> /\ XY2D(c, x, y) = d
  BY <1>1, <1>9 DEF BothWays
<1>11. D2XY(c, d) \in Tiles(c)
  BY <1>1, <1>10 DEF Tiles
<1>12. MetaTileId(c, D2XY(c, d)) = d \div T
  BY <1>5, <1>10 DEF MetaTileId
<1> QED
  BY <1>8, <1>11, <1>12

(* A meta tile that no manager counts has no edge in any of its tiles, for   *)
(* every grid of meta tiles and any number of managers: what the distributor *)
(* skips is empty.                                                           *)
THEOREM SkippedAreEmpty == Spec => []SkippedIsEmpty
<1>1. ASSUME StoreInv PROVE SkippedIsEmpty
  <2> SUFFICES ASSUME TwoLevel(g), phase # "dead", NEW i \in 0 .. CountMetas(g) - 1,
                      SumFunction([m \in Managers |-> metaCounts[m][i]]) = 0,
                      NEW tile \in TilesOfMeta(i)
               PROVE  CountEdges(tiles[tile]) = 0
    BY DEF SkippedIsEmpty
  <2>1. IsConfig(g) /\ ~Overrun(g)
    BY <1>1, StoreAssumption DEF StoreInv, PhaseInv
  <2>2. tile \in Tiles(g) /\ MetaTileId(g, tile) = i
    <3>1. PICK d \in i * TilesPerMeta(g) .. (i + 1) * TilesPerMeta(g) - 1 : tile = D2XY(g, d)
      BY DEF TilesOfMeta
    <3> QED
      BY <2>1, <3>1, TilesOfMetaAre
  <2>3. PICK a : a = ManagerOf(g, tile) /\ a \in Managers
    BY <2>1, <2>2, CountsAt DEF Managers
  <2>4. IsFiniteSet(Managers)
    <3>1. 0 \in Int /\ g.managers - 1 \in Int
      BY <2>1 DEF IsConfig
    <3> QED
      BY <3>1, FS_Interval DEF Managers
  <2>5. PICK f : f = [m \in Managers |-> metaCounts[m][i]]
    OBVIOUS
  <2>6. f \in [Managers -> Nat] /\ f[a] = metaCounts[a][i]
    BY <1>1, <2>3, <2>5 DEF StoreInv, CountsInv
  <2>7. f[a] = 0
    <3>1. f[a] \in Nat /\ SumFunction(f) \in Nat /\ f[a] <= SumFunction(f)
      BY <2>3, <2>4, <2>6, SumAbove
    <3> QED
      BY <2>5, <3>1
  <2>8. TileInv(g, tiles[tile]) /\ CountedTile(g, tile, tiles[tile], metaCounts)
    BY <1>1, <2>2 DEF StoreInv, TilesInv, TileStored
  <2>9. CountEdges(tiles[tile]) \in Nat
    BY <2>8, CountIsNat
  <2> QED
    BY <2>1, <2>2, <2>3, <2>6, <2>7, <2>8, <2>9 DEF CountedTile
<1>2. StoreInv => SkippedIsEmpty
  BY <1>1
<1> QED
  BY <1>2, StoreHolds, PTL

(****************************************************************************)
(* The refinement of EdgeSet.                                                *)
(****************************************************************************)
(* The edges whose local ids are in the set of their tile.                   *)
Shown(c, f) ==
  {e \in Nat \X Nat : TileOfEdge(c, e) \in Tiles(c) /\ GetLocalEdge(c, e) \in f[TileOfEdge(c, e)]}

(* They are the edges of all tiles by their global ids.                      *)
LEMMA ShownAre ==
  ASSUME NEW c, IsConfig(c), NEW f, \A tile \in Tiles(c) : f[tile] \subseteq Locals(c)
  PROVE  UNION {{GetGlobalEdge(c, tile, l) : l \in f[tile]} : tile \in Tiles(c)} = Shown(c, f)
<1>1. ASSUME NEW tile \in Tiles(c), NEW l \in f[tile] PROVE GetGlobalEdge(c, tile, l) \in Shown(c, f)
  <2>1. PICK e : e = GetGlobalEdge(c, tile, l)
    OBVIOUS
  <2>2. l \in Locals(c)
    OBVIOUS
  <2>3. TileOfEdge(c, e) = tile /\ GetLocalEdge(c, e) = l
    BY <2>1, <2>2, TileHasEdges
  <2>4. e \in Nat \X Nat
    <3>1. PICK b \in Nat : b = c.perTile
      BY TileSide
    <3>2. PICK n \in Nat : n = TilesPerDim(c)
      BY TraversalBothWays
    <3>3. PICK x \in 0 .. n - 1, y \in 0 .. n - 1 : tile = <<x, y>>
      BY <3>2 DEF Tiles
    <3>4. PICK u \in 0 .. b - 1, v \in 0 .. b - 1 : l = <<u, v>>
      BY <2>2, <3>1 DEF Locals
    <3>5. e = <<x * b + u, y * b + v>>
      BY <2>1, <3>1, <3>3, <3>4 DEF GetGlobalEdge
    <3>6. x * b + u \in Nat /\ y * b + v \in Nat
      <4>1. x \in Nat /\ y \in Nat /\ u \in Nat /\ v \in Nat
        OBVIOUS
      <4> QED
        BY <4>1
    <3> QED
      BY <3>5, <3>6
  <2> QED
    BY <2>1, <2>3, <2>4 DEF Shown
<1>2. ASSUME NEW e \in Shown(c, f)
      PROVE  \E tile \in Tiles(c) : \E l \in f[tile] : e = GetGlobalEdge(c, tile, l)
  <2>1. /\ e \in Nat \X Nat /\ TileOfEdge(c, e) \in Tiles(c)
        /\ GetLocalEdge(c, e) \in f[TileOfEdge(c, e)]
    BY DEF Shown
  <2>2. GetGlobalEdge(c, TileOfEdge(c, e), GetLocalEdge(c, e)) = e
    BY <2>1, EdgeHasTile DEF HasTile
  <2> QED
    BY <2>1, <2>2
<1>3. UNION {{GetGlobalEdge(c, tile, l) : l \in f[tile]} : tile \in Tiles(c)} \subseteq Shown(c, f)
  BY <1>1
<1>4. Shown(c, f) \subseteq UNION {{GetGlobalEdge(c, tile, l) : l \in f[tile]} : tile \in Tiles(c)}
  BY <1>2
<1> QED
  BY <1>3, <1>4

(* Two edges with the same tile and the same local ids are one.              *)
LEMMA SameEdge ==
  ASSUME NEW c, IsConfig(c), NEW e \in Nat \X Nat, NEW y \in Nat \X Nat,
         TileOfEdge(c, e) = TileOfEdge(c, y), GetLocalEdge(c, e) = GetLocalEdge(c, y)
  PROVE  e = y
<1>1. /\ GetGlobalEdge(c, TileOfEdge(c, e), GetLocalEdge(c, e)) = e
      /\ GetGlobalEdge(c, TileOfEdge(c, y), GetLocalEdge(c, y)) = y
  BY EdgeHasTile DEF HasTile
<1> QED
  BY <1>1

(* What a store shows when the set of one tile changes.                      *)
OneChanges(c, f, h, a, s) ==
  \A tile \in Tiles(c) : h[tile] = IF tile = a THEN s ELSE f[tile]

(* A tile gains an edge, and may drop deleted ones.                          *)
LEMMA ShownGrows ==
  ASSUME NEW c, IsConfig(c), NEW e \in Nat \X Nat, NEW f, NEW h, NEW d, NEW s,
         TilesPerDim(c) # 0 => TileOfEdge(c, e) \in Tiles(c),
         OneChanges(c, f, h, TileOfEdge(c, e), s),
         TileOfEdge(c, e) \in Tiles(c) =>
           /\ s \subseteq f[TileOfEdge(c, e)] \union {GetLocalEdge(c, e)}
           /\ (f[TileOfEdge(c, e)] \union {GetLocalEdge(c, e)}) \ d[TileOfEdge(c, e)] \subseteq s
  PROVE  \/ Shown(c, h) = Shown(c, f) /\ Tiles(c) = {}
         \/ /\ (Shown(c, f) \union {e}) \ Shown(c, d) \subseteq Shown(c, h)
            /\ Shown(c, h) \subseteq Shown(c, f) \union {e}
<1>1. CASE TilesPerDim(c) = 0
  <2>1. Tiles(c) = {}
    BY <1>1 DEF Tiles
  <2> QED
    BY <2>1 DEF Shown
<1>2. CASE TilesPerDim(c) # 0
  <2>1. PICK a, x : a = TileOfEdge(c, e) /\ x = GetLocalEdge(c, e) /\ a \in Tiles(c)
    BY <1>2
  <2>2. s \subseteq f[a] \union {x} /\ (f[a] \union {x}) \ d[a] \subseteq s
    BY <2>1
  <2>3. \A tile \in Tiles(c) : h[tile] = IF tile = a THEN s ELSE f[tile]
    BY <2>1 DEF OneChanges
  <2>4. ASSUME NEW y \in Shown(c, h) PROVE y \in Shown(c, f) \union {e}
    <3>1. y \in Nat \X Nat /\ TileOfEdge(c, y) \in Tiles(c) /\ GetLocalEdge(c, y) \in h[TileOfEdge(c, y)]
      BY DEF Shown
    <3>2. CASE TileOfEdge(c, y) = a /\ GetLocalEdge(c, y) = x
      BY <2>1, <3>1, <3>2, SameEdge
    <3>3. CASE ~(TileOfEdge(c, y) = a /\ GetLocalEdge(c, y) = x)
      BY <2>2, <2>3, <3>1, <3>3 DEF Shown
    <3> QED
      BY <3>2, <3>3
  <2>5. ASSUME NEW y \in (Shown(c, f) \union {e}) \ Shown(c, d) PROVE y \in Shown(c, h)
    <3>1. CASE y = e
      BY <2>1, <2>2, <2>3, <2>5, <3>1 DEF Shown
    <3>2. CASE y # e
      BY <2>1, <2>2, <2>3, <2>5, <3>2 DEF Shown
    <3> QED
      BY <3>1, <3>2
  <2> QED
    BY <2>4, <2>5
<1> QED
  BY <1>1, <1>2

(* A tile gains an edge.                                                     *)
LEMMA ShownAdded ==
  ASSUME NEW c, IsConfig(c), NEW e \in Nat \X Nat, NEW f, NEW h, NEW s,
         TileOfEdge(c, e) \in Tiles(c), OneChanges(c, f, h, TileOfEdge(c, e), s),
         s = f[TileOfEdge(c, e)] \union {GetLocalEdge(c, e)}
  PROVE  Shown(c, h) = Shown(c, f) \union {e}
<1>1. PICK a, x : a = TileOfEdge(c, e) /\ x = GetLocalEdge(c, e) /\ a \in Tiles(c)
  OBVIOUS
<1>2. \A tile \in Tiles(c) : h[tile] = IF tile = a THEN f[a] \union {x} ELSE f[tile]
  BY <1>1 DEF OneChanges
<1>3. e \in Shown(c, h)
  BY <1>1, <1>2 DEF Shown
<1>4. Shown(c, f) \subseteq Shown(c, h)
  BY <1>2 DEF Shown
<1>5. ASSUME NEW y \in Shown(c, h) PROVE y \in Shown(c, f) \union {e}
  <2>1. y \in Nat \X Nat /\ TileOfEdge(c, y) \in Tiles(c) /\ GetLocalEdge(c, y) \in h[TileOfEdge(c, y)]
    BY DEF Shown
  <2>2. CASE TileOfEdge(c, y) = a /\ GetLocalEdge(c, y) = x
    BY <1>1, <2>1, <2>2, SameEdge
  <2>3. CASE ~(TileOfEdge(c, y) = a /\ GetLocalEdge(c, y) = x)
    BY <1>2, <2>1, <2>3 DEF Shown
  <2> QED
    BY <2>2, <2>3
<1> QED
  BY <1>3, <1>4, <1>5

(* A tile loses an edge.                                                     *)
LEMMA ShownRemoved ==
  ASSUME NEW c, IsConfig(c), NEW e \in Nat \X Nat, NEW f, NEW h, NEW s,
         TileOfEdge(c, e) \in Tiles(c), OneChanges(c, f, h, TileOfEdge(c, e), s),
         s = f[TileOfEdge(c, e)] \ {GetLocalEdge(c, e)}
  PROVE  Shown(c, h) = Shown(c, f) \ {e}
<1>1. PICK a, x : a = TileOfEdge(c, e) /\ x = GetLocalEdge(c, e) /\ a \in Tiles(c)
  OBVIOUS
<1>2. \A tile \in Tiles(c) : h[tile] = IF tile = a THEN f[a] \ {x} ELSE f[tile]
  BY <1>1 DEF OneChanges
<1>3. e \notin Shown(c, h)
  BY <1>1, <1>2 DEF Shown
<1>4. Shown(c, h) \subseteq Shown(c, f)
  BY <1>2 DEF Shown
<1>5. ASSUME NEW y \in Shown(c, f), y # e PROVE y \in Shown(c, h)
  <2>1. y \in Nat \X Nat /\ TileOfEdge(c, y) \in Tiles(c) /\ GetLocalEdge(c, y) \in f[TileOfEdge(c, y)]
    BY DEF Shown
  <2>2. ~(TileOfEdge(c, y) = a /\ GetLocalEdge(c, y) = x)
    BY <1>1, <1>5, <2>1, SameEdge
  <2> QED
    BY <1>2, <2>1, <2>2 DEF Shown
<1> QED
  BY <1>3, <1>4, <1>5

(* What a store shows when a tile drops deleted edges.                       *)
LEMMA ShownForgets ==
  ASSUME NEW c, NEW f, NEW h, NEW d, NEW a, NEW s, OneChanges(c, f, h, a, s),
         a \in Tiles(c) => s \subseteq f[a] /\ f[a] \ d[a] \subseteq s
  PROVE  Shown(c, f) \ Shown(c, d) \subseteq Shown(c, h) /\ Shown(c, h) \subseteq Shown(c, f)
BY DEF Shown, OneChanges

(* Equal sets show the same.                                                 *)
LEMMA ShownSame ==
  ASSUME NEW c, NEW f, NEW h, \A tile \in Tiles(c) : h[tile] = f[tile]
  PROVE  Shown(c, h) = Shown(c, f)
BY DEF Shown

(* The bits of a tile, where positions mean something: with random deletions *)
(* there is a list and no CSR, without them no bit is ever set.              *)
AllClear(t) == \A i \in 1 .. Len(t.bitset) : t.bitset[i] = FALSE
(* The edges an executor sees.                                               *)
SoundTile(c, t) ==
  IF c.random THEN Len(t.targets) = 0 /\ Len(t.bitset) = Len(t.edges) ELSE AllClear(t)
SeenOf(c, t) ==
  ToSet(CSREdges(c, t)) \union {t.edges[i] : i \in {j \in 1 .. Len(t.edges) : ~t.bitset[j]}}

(* The list of a tile and its bits.                                          *)
LEMMA ListOf ==
  ASSUME NEW c, NEW t, TileInv(c, t)
  PROVE  \E m \in Nat, b \in Nat :
           /\ m = Len(t.edges) /\ b = Len(t.bitset) /\ m <= b
           /\ DOMAIN t.edges = 1 .. m /\ DOMAIN t.bitset = 1 .. b
           /\ \A i \in 1 .. m : t.edges[i] \in Locals(c)
           /\ \A i \in 1 .. b : t.bitset[i] \in BOOLEAN
<1>1. t.edges \in Seq(Locals(c)) /\ t.bitset \in Seq(BOOLEAN)
  BY DEF TileInv, TileType
<1>2. PICK es, bs : es = t.edges /\ bs = t.bitset
  OBVIOUS
<1>3. PICK m \in Nat, b \in Nat : m = Len(es) /\ b = Len(bs) /\ DOMAIN es = 1 .. m /\ DOMAIN bs = 1 .. b
  BY <1>1, <1>2
<1>4. /\ \A i \in 1 .. m : es[i] \in Locals(c)
      /\ \A i \in 1 .. b : bs[i] \in BOOLEAN
  BY <1>1, <1>2, <1>3
<1>5. m <= b
  <2>1. PICK n \in Nat : n = Len(t.targets)
    BY DEF TileInv, CsrOf
  <2>2. CountEdges(t) = m + n
    BY <1>2, <1>3, <2>1, Zenon DEF CountEdges
  <2>3. CountEdges(t) <= b
    BY <1>2, <1>3 DEF TileInv
  <2> QED
    BY <2>2, <2>3
<1> QED
  BY <1>2, <1>3, <1>4, <1>5

(* What is seen is stored, and what is stored is in the tile.                *)
LEMMA EdgesAreLocal ==
  ASSUME NEW c, NEW t, TileInv(c, t)
  PROVE  SeenOf(c, t) \subseteq EdgesOf(c, t) /\ EdgesOf(c, t) \subseteq Locals(c)
<1>1. PICK l : l = CSREdges(c, t) /\ l \in Seq(Locals(c))
  BY CsrIs DEF TileInv, CsrOf
<1>2. ToSet(l) \subseteq Locals(c)
  BY <1>1 DEF ToSet
<1>3. PICK m \in Nat : /\ m = Len(t.edges) /\ DOMAIN t.edges = 1 .. m
                       /\ \A i \in 1 .. m : t.edges[i] \in Locals(c)
  BY ListOf
<1>4. ToSet(t.edges) = {t.edges[i] : i \in 1 .. m}
  BY <1>3 DEF ToSet
<1> QED
  BY <1>1, <1>2, <1>3, <1>4 DEF SeenOf, EdgesOf

(* With no bit set everything stored is seen.                                *)
LEMMA SeenIfClear ==
  ASSUME NEW c, NEW t, TileInv(c, t), AllClear(t)
  PROVE  SeenOf(c, t) = EdgesOf(c, t)
<1>1. PICK m \in Nat, b \in Nat : /\ m = Len(t.edges) /\ b = Len(t.bitset) /\ m <= b
                                  /\ DOMAIN t.edges = 1 .. m
  BY ListOf
<1>2. \A i \in 1 .. m : ~t.bitset[i]
  BY <1>1 DEF AllClear
<1>3. {j \in 1 .. Len(t.edges) : ~t.bitset[j]} = DOMAIN t.edges
  BY <1>1, <1>2
<1> QED
  BY <1>3 DEF SeenOf, EdgesOf, ToSet

(* A new tile shows nothing.                                                 *)
LEMMA NewTileSound ==
  ASSUME NEW c, c.perTile \in Nat
  PROVE  SoundTile(c, NewTile) /\ SeenOf(c, NewTile) = {}
<1>1. Len(<<>>) = 0
  OBVIOUS
<1>2. NewTile.edges = <<>> /\ NewTile.bitset = <<>> /\ NewTile.targets = <<>>
  BY DEF NewTile
<1>3. AllClear(NewTile)
  BY <1>1, <1>2 DEF AllClear
<1>4. SeenOf(c, NewTile) = {}
  BY <1>3, NewTileInv, SeenIfClear
<1> QED
  BY <1>1, <1>2, <1>3, <1>4 DEF SoundTile

(* What an insertion and a compaction do to the edges seen.                  *)
SeenGrows(r, c, t, x) ==
  /\ SoundTile(c, r) /\ r.deleted = t.deleted
  /\ SeenOf(c, r) \subseteq SeenOf(c, t) \union {x}
  /\ (SeenOf(c, t) \union {x}) \ t.deleted \subseteq SeenOf(c, r)
(* The tile forgets deleted edges at most.                                   *)
SeenForgets(r, c, t) ==
  /\ SoundTile(c, r) /\ r.deleted = t.deleted
  /\ SeenOf(c, r) \subseteq SeenOf(c, t)
  /\ SeenOf(c, t) \ t.deleted \subseteq SeenOf(c, r)

(* Compaction forgets deleted edges at most.                                 *)
LEMMA CompactSeen ==
  ASSUME NEW c, IsConfig(c), c.perTile <= c.idMax, ~c.random, NEW t, TileInv(c, t), AllClear(t),
         NEW r, Compacted(r, c, t)
  PROVE  SeenForgets(r, c, t)
<1>1. TileInv(c, r) /\ r.bitset = t.bitset /\ r.deleted = t.deleted
  BY DEF Compacted
<1>2. AllClear(r) /\ SoundTile(c, r)
  BY <1>1 DEF AllClear, SoundTile
<1>3. SeenOf(c, r) = EdgesOf(c, r) /\ SeenOf(c, t) = EdgesOf(c, t)
  BY <1>1, <1>2, SeenIfClear
<1>4. <<c.idMax, c.idMax>> \notin EdgesOf(c, t)
  <2>1. c.idMax \notin 0 .. c.perTile - 1
    BY TileSide
  <2>2. <<c.idMax, c.idMax>> \notin Locals(c)
    BY <2>1 DEF Locals
  <2> QED
    BY <2>2, EdgesAreLocal
<1> QED
  BY <1>1, <1>2, <1>3, <1>4 DEF SeenForgets, Compacted

(* An edge appended is seen.                                                 *)
LEMMA AppendSeen ==
  ASSUME NEW c, IsConfig(c), NEW t, TileInv(c, t), SoundTile(c, t), NEW x \in Locals(c), NEW w,
         NEW r, AppendedTo(r, c, t, x, w)
  PROVE  /\ SoundTile(c, r) /\ (AllClear(t) => AllClear(r)) /\ r.deleted = t.deleted
         /\ SeenOf(c, r) = SeenOf(c, t) \union {x}
<1>1. PICK es, bs : es = t.edges /\ bs = t.bitset
  OBVIOUS
<1>2. PICK m \in Nat, b \in Nat :
        /\ m = Len(t.edges) /\ b = Len(t.bitset) /\ m <= b
        /\ \A i \in 1 .. b : t.bitset[i] \in BOOLEAN
  BY ListOf
<1>3. /\ es \in Seq(Locals(c)) /\ bs \in Seq(BOOLEAN) /\ m = Len(es) /\ b = Len(bs)
      /\ \A i \in 1 .. b : bs[i] \in BOOLEAN
  BY <1>1, <1>2 DEF TileInv, TileType
<1>4. PICK e2, b2 : e2 = r.edges /\ b2 = r.bitset /\ e2 = Append(es, x) /\ b2 = Append(bs, FALSE)
  BY <1>1 DEF AppendedTo
<1>5. /\ Len(e2) = m + 1 /\ e2[m + 1] = x /\ \A i \in 1 .. m : e2[i] = es[i]
      /\ Len(b2) = b + 1 /\ b2[b + 1] = FALSE /\ \A i \in 1 .. b : b2[i] = bs[i]
  BY <1>3, <1>4
<1>6. CSREdges(c, r) = CSREdges(c, t) /\ r.targets = t.targets /\ r.deleted = t.deleted
  BY DEF AppendedTo
<1>7. ASSUME AllClear(t) PROVE AllClear(r)
  <2>1. \A i \in 1 .. b : bs[i] = FALSE
    BY <1>1, <1>3, <1>7 DEF AllClear
  <2>2. \A i \in 1 .. b + 1 : b2[i] = FALSE
    BY <1>5, <2>1
  <2> QED
    BY <1>4, <1>5, <2>2 DEF AllClear
<1>8. SoundTile(c, r)
  BY <1>1, <1>3, <1>4, <1>5, <1>6, <1>7 DEF SoundTile
<1>9. ~b2[m + 1]
  <2>1. CASE c.random
    <3>1. m = b
      BY <1>1, <1>3, <2>1 DEF SoundTile
    <3> QED
      BY <1>5, <3>1
  <2>2. CASE ~c.random
    <3>1. AllClear(r)
      BY <1>7, <2>2 DEF SoundTile
    <3>2. m + 1 \in 1 .. b + 1
      BY <1>2
    <3> QED
      BY <1>4, <1>5, <3>1, <3>2 DEF AllClear
  <2> QED
    BY <2>1, <2>2
<1>10. \A i \in 1 .. m : b2[i] = bs[i] /\ e2[i] = es[i] /\ i \in 1 .. m + 1
  BY <1>2, <1>5
<1>11. \A i \in 1 .. m + 1 : i \in 1 .. m \/ i = m + 1
  OBVIOUS
<1>12. m + 1 \in 1 .. m + 1
  OBVIOUS
<1>13. {e2[i] : i \in {j \in 1 .. m + 1 : ~b2[j]}} = {es[i] : i \in {j \in 1 .. m : ~bs[j]}} \union {x}
  BY <1>5, <1>9, <1>10, <1>11, <1>12
<1>14. SeenOf(c, r) = SeenOf(c, t) \union {x}
  <2>1. SeenOf(c, r) = ToSet(CSREdges(c, t)) \union {e2[i] : i \in {j \in 1 .. m + 1 : ~b2[j]}}
    BY <1>4, <1>5, <1>6 DEF SeenOf
  <2>2. SeenOf(c, t) = ToSet(CSREdges(c, t)) \union {es[i] : i \in {j \in 1 .. m : ~bs[j]}}
    BY <1>1, <1>3 DEF SeenOf
  <2> QED
    BY <1>13, <2>1, <2>2
<1> QED
  BY <1>6, <1>7, <1>8, <1>14

(* An edge inserted is seen, unless it is deleted.                           *)
LEMMA InsertSeen ==
  ASSUME NEW c, IsConfig(c), c.perTile <= c.idMax, NEW dynamic, c.random => ~dynamic,
         NEW t, TileInv(c, t), SoundTile(c, t), NEW x \in Locals(c), NEW w,
         NEW r, InsertedInto(r, c, t, x, w, dynamic)
  PROVE  SeenGrows(r, c, t, x)
<1>1. CASE AppendedTo(r, c, t, x, w)
  BY <1>1, AppendSeen DEF SeenGrows
<1>2. CASE ~AppendedTo(r, c, t, x, w)
  <2>1. dynamic /\ ~c.random
    BY <1>2 DEF InsertedInto
  <2>2. PICK a : AppendedTo(a, c, t, x, w) /\ Compacted(r, c, a)
    BY <1>2 DEF InsertedInto
  <2>3. AllClear(a) /\ SeenOf(c, a) = SeenOf(c, t) \union {x} /\ a.deleted = t.deleted
    BY <2>1, <2>2, AppendSeen DEF SoundTile
  <2>4. SeenForgets(r, c, a)
    BY <2>1, <2>2, <2>3, CompactSeen DEF AppendedTo
  <2> QED
    BY <2>3, <2>4 DEF SeenForgets, SeenGrows
<1> QED
  BY <1>1, <1>2

(* deleteEdge hides nothing yet.                                             *)
LEMMA DeleteSeen ==
  ASSUME NEW c, NEW t, TileInv(c, t), SoundTile(c, t),
         NEW r, TileType(c, r), SameStorage(r, t), r.bitset = t.bitset
  PROVE  SoundTile(c, r) /\ SeenOf(c, r) = SeenOf(c, t)
<1>1. CSREdges(c, r) = CSREdges(c, t)
  BY SameStorageInv
<1>2. r.edges = t.edges /\ r.targets = t.targets
  BY DEF SameStorage
<1>3. SoundTile(c, r)
  BY <1>2 DEF SoundTile, AllClear
<1> QED
  BY <1>1, <1>2, <1>3 DEF SeenOf

(* One edge is hidden, or none that was seen.                                *)
DrawnFrom(r, c, t) ==
  /\ SoundTile(c, r) /\ r.deleted = t.deleted
  /\ \E x \in EdgesOf(c, t) : SeenOf(c, r) = SeenOf(c, t) \/ SeenOf(c, r) = SeenOf(c, t) \ {x}

(* A random deletion hides one edge at most.                                 *)
LEMMA DrawSeen ==
  ASSUME NEW c, c.random, NEW t, TileInv(c, t), SoundTile(c, t), NEW i \in 1 .. CountEdges(t),
         NEW r, r = DeleteRandomEdge(t, i)
  PROVE  DrawnFrom(r, c, t)
<1>1. /\ TileType(c, r) /\ SameStorage(r, t) /\ r.deleted = t.deleted
      /\ Len(r.bitset) = Len(t.bitset) /\ r.bitset = [t.bitset EXCEPT ![i] = TRUE]
  BY DeleteRandomIs
<1>2. PICK es, bs : es = t.edges /\ bs = t.bitset
  OBVIOUS
<1>3. PICK m \in Nat, b \in Nat : m = Len(t.edges) /\ b = Len(t.bitset) /\ DOMAIN t.edges = 1 .. m
                                  /\ DOMAIN t.bitset = 1 .. b
  BY ListOf
<1>4. m = b /\ Len(t.targets) = 0 /\ DOMAIN es = 1 .. m /\ DOMAIN bs = 1 .. m
  BY <1>2, <1>3 DEF SoundTile
<1>5. i \in 1 .. m
  <2>1. CountEdges(t) = m + 0
    BY <1>3, <1>4, Zenon DEF CountEdges
  <2> QED
    BY <2>1
<1>6. SoundTile(c, r)
  BY <1>1 DEF SoundTile, SameStorage
<1>7. CSREdges(c, r) = CSREdges(c, t) /\ r.edges = es
  BY <1>1, <1>2, SameStorageInv DEF SameStorage
<1>8. CSREdges(c, t) = <<>>
  <2>1. PICK l : l = CSREdges(c, t) /\ l \in Seq(Locals(c)) /\ Len(l) = Len(t.targets)
    BY CsrIs DEF TileInv, CsrOf
  <2> QED
    BY <1>4, <2>1
<1>9. ToSet(<<>>) = {}
  BY DEF ToSet
<1>10. PICK b2 : b2 = r.bitset /\ b2 = [bs EXCEPT ![i] = TRUE]
  BY <1>1, <1>2
<1>11. \A j \in 1 .. m : b2[j] = IF j = i THEN TRUE ELSE bs[j]
  BY <1>4, <1>10
<1>12. SeenOf(c, r) = {es[j] : j \in {k \in 1 .. m : ~b2[k]}}
  BY <1>2, <1>3, <1>7, <1>8, <1>9, <1>10 DEF SeenOf
<1>13. SeenOf(c, t) = {es[j] : j \in {k \in 1 .. m : ~bs[k]}}
  BY <1>2, <1>3, <1>8, <1>9 DEF SeenOf
<1>14. es[i] \in EdgesOf(c, t)
  BY <1>2, <1>3, <1>5 DEF EdgesOf, ToSet
<1>15. SeenOf(c, r) \subseteq SeenOf(c, t) /\ SeenOf(c, t) \ {es[i]} \subseteq SeenOf(c, r)
  BY <1>11, <1>12, <1>13
<1>16. SeenOf(c, r) = SeenOf(c, t) \/ SeenOf(c, r) = SeenOf(c, t) \ {es[i]}
  BY <1>15
<1> QED
  BY <1>1, <1>6, <1>14, <1>16 DEF DrawnFrom

(* What the marks of the tiles mean, in the configurations in which they     *)
(* mean anything.                                                            *)
SoundInv ==
  Sound => /\ g.random => phase # "compact"
           /\ \A tile \in Tiles(g) : SoundTile(g, tiles[tile])

(* What is seen and what is deleted, by tile.                                *)
SeenBy == [tile \in Tiles(g) |-> SeenOf(g, tiles[tile])]
DeletedBy == [tile \in Tiles(g) |-> tiles[tile].deleted]

(* A step of EdgeSet, or none, from V and C to V2 and C2.                    *)
SeenStep(V, C, V2, C2) ==
  \/ V2 = V /\ C2 = C
  \/ C2 = C /\ V \ C \subseteq V2 /\ V2 \subseteq V
  \/ \E e \in Edges : C2 = C /\ (V \union {e}) \ C \subseteq V2 /\ V2 \subseteq V \union {e}
  \/ \E e \in Edges : C2 = C \union {e} /\ V2 = V
  \/ \E e \in Edges : C2 = C /\ V2 = V \ {e}
(* The step of the store is one of EdgeSet.                                  *)
StoreStep ==
  SeenStep(Shown(g, SeenBy), Shown(g, DeletedBy), Shown(g, SeenBy'), Shown(g, DeletedBy'))

(* One tile becomes r.                                                       *)
TileTo(a, r) == \A tile \in Tiles(g) : tiles'[tile] = IF tile = a THEN r ELSE tiles[tile]

(* Then one set of edges seen and one of deleted ones change.                *)
LEMMA TileView ==
  ASSUME g' = g, NEW a, NEW r, TileTo(a, r)
  PROVE  /\ OneChanges(g, SeenBy, SeenBy', a, SeenOf(g, r))
         /\ OneChanges(g, DeletedBy, DeletedBy', a, r.deleted)
<1>1. SeenBy' = [tile \in Tiles(g) |-> SeenOf(g, tiles'[tile])]
  BY DEF SeenBy
<1>2. DeletedBy' = [tile \in Tiles(g) |-> tiles'[tile].deleted]
  BY DEF DeletedBy
<1>3. PICK f, d : f = SeenBy' /\ d = DeletedBy'
  OBVIOUS
<1>4. OneChanges(g, SeenBy, f, a, SeenOf(g, r))
  BY <1>1, <1>3 DEF OneChanges, SeenBy, TileTo
<1>5. OneChanges(g, DeletedBy, d, a, r.deleted)
  BY <1>2, <1>3 DEF OneChanges, DeletedBy, TileTo
<1> QED
  BY <1>3, <1>4, <1>5

(* Its marks go on to mean something.                                        *)
LEMMA SoundStep ==
  ASSUME SoundInv, g' = g, NEW a, NEW r, TileTo(a, r), Sound, g.random => phase' # "compact",
         a \in Tiles(g) => SoundTile(g, r)
  PROVE  SoundInv'
<1>1. \A tile \in Tiles(g) : SoundTile(g, tiles'[tile])
  <2> TAKE tile \in Tiles(g)
  <2>1. CASE tile = a
    BY <2>1 DEF TileTo
  <2>2. CASE tile # a
    BY <2>2 DEF TileTo, SoundInv
  <2> QED
    BY <2>1, <2>2
<1> QED
  BY <1>1 DEF SoundInv

(* The deleted edges stay.                                                   *)
LEMMA SameDeleted ==
  ASSUME StoreInv, NEW a, NEW d, OneChanges(g, DeletedBy, d, a, tiles[a].deleted)
  PROVE  Shown(g, d) = Shown(g, DeletedBy)
<1>1. \A tile \in Tiles(g) : d[tile] = DeletedBy[tile]
  BY DEF OneChanges, DeletedBy
<1> QED
  BY <1>1, ShownSame

(* insertEdge adds the edge, and may forget deleted ones.                    *)
LEMMA InsertView ==
  ASSUME StoreInv, SoundInv, Sound, NEW e \in Edges, Insert(e)
  PROVE  SoundInv' /\ StoreStep
<1>1. PICK a, w, r : /\ a = TileOfEdge(g, e) /\ w = Len(log[a]) + 1
                     /\ r = InsertEdge(g, tiles[a], e, w, g.dynamic)
  OBVIOUS
<1>2. /\ g' = g /\ g \in Configs /\ IsConfig(g) /\ phase = "insert" /\ InRange(g, e)
      /\ tiles' = [tiles EXCEPT ![a] = r]
  BY <1>1, StoreAssumption DEF Insert, StoreInv, PhaseInv
<1>3. e \in Nat \X Nat
  BY StoreAssumption
<1>4. TileTo(a, r)
  BY <1>2 DEF TileTo, StoreInv, TilesInv
<1>5. ASSUME a \in Tiles(g) PROVE SeenGrows(r, g, tiles[a], GetLocalEdge(g, e))
  <2>1. TileStored(g, a, tiles[a], log[a]) /\ SoundTile(g, tiles[a])
    BY <1>5 DEF StoreInv, TilesInv, SoundInv
  <2>2. w \in Int
    BY <1>1, <2>1 DEF TileStored, Logged
  <2>3. g.dynamic \in BOOLEAN /\ g.perTile <= g.idMax /\ (g.random => ~g.dynamic)
    BY <1>2 DEF IsConfig, Sound
  <2>4. InsertedInto(r, g, tiles[a], GetLocalEdge(g, e), w, g.dynamic)
    <3>1. PICK t, es : t = tiles[a] /\ es = log[a]
      OBVIOUS
    <3>2. TileOfEdge(g, e) = a /\ r = InsertEdge(g, t, e, w, g.dynamic) /\ TileStored(g, a, t, es)
      BY <1>1, <2>1, <3>1
    <3>3. /\ TileStored(g, a, r, Append(es, [edge |-> e, weight |-> w]))
          /\ InsertedInto(r, g, t, GetLocalEdge(g, e), w, g.dynamic)
          /\ r.dead = t.dead \/ r.dead = Full(g, CSREdges(g, r))
      BY <1>2, <2>2, <2>3, <3>2, InsertStored
    <3> QED
      BY <3>1, <3>3
  <2>5. GetLocalEdge(g, e) \in Locals(g)
    BY <1>2, <1>3, EdgeHasTile DEF HasTile
  <2>6. PICK x, t : x = GetLocalEdge(g, e) /\ t = tiles[a]
    OBVIOUS
  <2>7. SeenGrows(r, g, t, x)
    BY <1>2, <2>1, <2>3, <2>4, <2>5, <2>6, InsertSeen DEF TileStored
  <2> QED
    BY <2>6, <2>7
<1>6. PICK f, d : f = SeenBy' /\ d = DeletedBy'
  OBVIOUS
<1>7. OneChanges(g, SeenBy, f, a, SeenOf(g, r)) /\ OneChanges(g, DeletedBy, d, a, r.deleted)
  BY <1>2, <1>4, <1>6, TileView
<1>8. Shown(g, d) = Shown(g, DeletedBy)
  <2>1. \A tile \in Tiles(g) : d[tile] = DeletedBy[tile]
    BY <1>5, <1>7 DEF OneChanges, DeletedBy, SeenGrows
  <2> QED
    BY <2>1, ShownSame
<1>9. SeenStep(Shown(g, SeenBy), Shown(g, DeletedBy), Shown(g, f), Shown(g, d))
  <2>1. TilesPerDim(g) # 0 => a \in Tiles(g)
    BY <1>1, <1>2, <1>3, EdgeHasTile
  <2>2. a \in Tiles(g) =>
          /\ SeenOf(g, r) \subseteq SeenBy[a] \union {GetLocalEdge(g, e)}
          /\ (SeenBy[a] \union {GetLocalEdge(g, e)}) \ DeletedBy[a] \subseteq SeenOf(g, r)
    BY <1>5 DEF SeenGrows, SeenBy, DeletedBy
  <2>3. PICK s, k, l : s = SeenOf(g, r) /\ k = SeenBy /\ l = DeletedBy
    OBVIOUS
  <2>4. \/ Shown(g, f) = Shown(g, k) /\ Tiles(g) = {}
        \/ /\ (Shown(g, k) \union {e}) \ Shown(g, l) \subseteq Shown(g, f)
           /\ Shown(g, f) \subseteq Shown(g, k) \union {e}
    <3>1. OneChanges(g, k, f, TileOfEdge(g, e), s)
      BY <1>1, <1>7, <2>3
    <3>2. TileOfEdge(g, e) \in Tiles(g) =>
            /\ s \subseteq k[TileOfEdge(g, e)] \union {GetLocalEdge(g, e)}
            /\ (k[TileOfEdge(g, e)] \union {GetLocalEdge(g, e)}) \ l[TileOfEdge(g, e)] \subseteq s
      BY <1>1, <2>2, <2>3
    <3>3. TilesPerDim(g) # 0 => TileOfEdge(g, e) \in Tiles(g)
      BY <1>1, <2>1
    <3> QED
      BY <1>2, <1>3, <3>1, <3>2, <3>3, ShownGrows
  <2> QED
    BY <1>8, <2>3, <2>4 DEF SeenStep
<1>10. SoundInv'
  <2>1. a \in Tiles(g) => SoundTile(g, r)
    BY <1>5 DEF SeenGrows
  <2>2. phase' = "dead" \/ phase' = "insert"
    BY <1>2 DEF Insert, Alive
  <2> QED
    BY <1>2, <1>4, <2>1, <2>2, SoundStep
<1> QED
  BY <1>6, <1>9, <1>10 DEF StoreStep

(* deleteEdge deletes the edge.                                              *)
LEMMA DeleteView ==
  ASSUME StoreInv, SoundInv, Sound, NEW e \in Edges, Delete(e)
  PROVE  SoundInv' /\ StoreStep
<1>1. PICK a, r : a = TileOfEdge(g, e) /\ r = DeleteEdge(g, tiles[a], e)
  OBVIOUS
<1>2. /\ g' = g /\ g \in Configs /\ IsConfig(g) /\ phase' = phase /\ InRange(g, e)
      /\ tiles' = [tiles EXCEPT ![a] = r]
  BY <1>1, StoreAssumption DEF Delete, StoreInv, PhaseInv
<1>3. e \in Nat \X Nat
  BY StoreAssumption
<1>4. TileTo(a, r)
  BY <1>2 DEF TileTo, StoreInv, TilesInv
<1>5. ASSUME a \in Tiles(g)
      PROVE  /\ SoundTile(g, r) /\ SeenOf(g, r) = SeenBy[a]
             /\ r.deleted = DeletedBy[a] \union {GetLocalEdge(g, e)}
  <2>1. TileInv(g, tiles[a]) /\ SoundTile(g, tiles[a])
    BY <1>5 DEF StoreInv, TilesInv, SoundInv, TileStored
  <2>2. GetLocalEdge(g, e) \in Locals(g)
    BY <1>2, <1>3, EdgeHasTile DEF HasTile
  <2>3. /\ TileType(g, r) /\ SameStorage(r, tiles[a]) /\ r.bitset = tiles[a].bitset
        /\ r.deleted = tiles[a].deleted \union {GetLocalEdge(g, e)}
    BY <1>1, <2>1, <2>2, DeleteIs
  <2>4. SoundTile(g, r) /\ SeenOf(g, r) = SeenOf(g, tiles[a])
    BY <2>1, <2>3, DeleteSeen
  <2> QED
    BY <1>5, <2>3, <2>4 DEF SeenBy, DeletedBy
<1>6. PICK f, d : f = SeenBy' /\ d = DeletedBy'
  OBVIOUS
<1>7. OneChanges(g, SeenBy, f, a, SeenOf(g, r)) /\ OneChanges(g, DeletedBy, d, a, r.deleted)
  BY <1>2, <1>4, <1>6, TileView
<1>8. Shown(g, f) = Shown(g, SeenBy)
  <2>1. \A tile \in Tiles(g) : f[tile] = SeenBy[tile]
    BY <1>5, <1>7 DEF OneChanges
  <2> QED
    BY <2>1, ShownSame
<1>9. Shown(g, d) = Shown(g, DeletedBy) \union {e} \/ Tiles(g) = {}
  <2>1. CASE a \in Tiles(g)
    <3>1. PICK s, k : s = r.deleted /\ k = DeletedBy
      OBVIOUS
    <3>2. Shown(g, d) = Shown(g, k) \union {e}
      BY <1>1, <1>2, <1>3, <1>5, <1>7, <2>1, <3>1, ShownAdded
    <3> QED
      BY <3>1, <3>2
  <2>2. CASE a \notin Tiles(g)
    BY <1>1, <1>2, <1>3, <2>2, EdgeHasTile DEF Tiles
  <2> QED
    BY <2>1, <2>2
<1>10. SeenStep(Shown(g, SeenBy), Shown(g, DeletedBy), Shown(g, f), Shown(g, d))
  <2>1. Tiles(g) = {} => Shown(g, d) = Shown(g, DeletedBy)
    BY DEF Shown
  <2> QED
    BY <1>8, <1>9, <2>1 DEF SeenStep
<1>11. SoundInv'
  <2>1. a \in Tiles(g) => SoundTile(g, r)
    BY <1>5
  <2>2. g.random => phase' # "compact"
    BY <1>2 DEF SoundInv
  <2> QED
    BY <1>2, <1>4, <2>1, <2>2, SoundStep
<1> QED
  BY <1>6, <1>10, <1>11 DEF StoreStep

(* A random deletion hides an edge or none.                                  *)
LEMMA DrawView ==
  ASSUME StoreInv, SoundInv, Sound, NEW m, Draw(m)
  PROVE  SoundInv' /\ StoreStep
<1>1. g' = g /\ g \in Configs /\ IsConfig(g) /\ phase = "insert" /\ g.random
  BY StoreAssumption DEF StoreInv, PhaseInv, Draw
<1>2. phase' # "compact"
  BY <1>1 DEF Draw
<1>3. CASE tiles' = tiles
  <2>1. SeenBy' = SeenBy /\ DeletedBy' = DeletedBy
    BY <1>1, <1>3 DEF SeenBy, DeletedBy
  <2>2. SoundInv'
    BY <1>1, <1>2, <1>3 DEF SoundInv, Sound
  <2> QED
    BY <2>1, <2>2 DEF StoreStep, SeenStep
<1>4. CASE \E tile \in DrawnTiles(g, m) : \E i \in 1 .. CountEdges(tiles[tile]) :
             tiles' = [tiles EXCEPT ![tile] = DeleteRandomEdge(@, i)]
  <2>1. PICK a \in Tiles(g) : \E i \in 1 .. CountEdges(tiles[a]) :
          tiles' = [tiles EXCEPT ![a] = DeleteRandomEdge(@, i)]
    BY <1>1, <1>4, DrawnIn
  <2>2. PICK i \in 1 .. CountEdges(tiles[a]) :
          tiles' = [tiles EXCEPT ![a] = DeleteRandomEdge(@, i)]
    BY <2>1
  <2>3. PICK r, t : r = DeleteRandomEdge(t, i) /\ t = tiles[a]
    OBVIOUS
  <2>4. TileTo(a, r)
    BY <2>2, <2>3 DEF TileTo, StoreInv, TilesInv
  <2>5. TileStored(g, a, t, log[a]) /\ TileInv(g, t) /\ SoundTile(g, t)
    BY <2>3 DEF StoreInv, TilesInv, SoundInv, TileStored
  <2>6. DrawnFrom(r, g, t)
    BY <1>1, <2>2, <2>3, <2>5, DrawSeen
  <2>7. PICK x \in EdgesOf(g, t) : SeenOf(g, r) = SeenOf(g, t) \/ SeenOf(g, r) = SeenOf(g, t) \ {x}
    BY <2>6 DEF DrawnFrom
  <2>8. PICK e \in Edges : TileOfEdge(g, e) = a /\ GetLocalEdge(g, e) = x
    <3>1. PICK y \in ToSet(log[a]) : x = GetLocalEdge(g, y.edge)
      BY <2>5 DEF TileStored, GivenTo
    <3>2. log[a] \in Seq(Entry) /\ TileOfEdge(g, y.edge) = a
      BY <2>5 DEF TileStored, Logged
    <3>3. PICK es : es = log[a] /\ es \in Seq(Entry) /\ y \in ToSet(es)
      BY <3>2
    <3>4. y \in Entry
      BY <3>3 DEF ToSet
    <3> QED
      BY <3>1, <3>2, <3>4 DEF Entry
  <2>9. e \in Nat \X Nat
    BY StoreAssumption
  <2>10. PICK f, d, k : f = SeenBy' /\ d = DeletedBy' /\ k = SeenBy
    OBVIOUS
  <2>11. OneChanges(g, k, f, a, SeenOf(g, r)) /\ OneChanges(g, DeletedBy, d, a, r.deleted)
    BY <1>1, <2>4, <2>10, TileView
  <2>12. Shown(g, d) = Shown(g, DeletedBy)
    BY <2>3, <2>6, <2>11, SameDeleted DEF DrawnFrom
  <2>13. k[a] = SeenOf(g, t)
    BY <2>3, <2>10 DEF SeenBy
  <2>14. Shown(g, f) = Shown(g, k) \/ Shown(g, f) = Shown(g, k) \ {e}
    <3>1. CASE SeenOf(g, r) = SeenOf(g, t)
      <4>1. \A tile \in Tiles(g) : f[tile] = k[tile]
        BY <2>11, <2>13, <3>1 DEF OneChanges
      <4> QED
        BY <4>1, ShownSame
    <3>2. CASE SeenOf(g, r) = SeenOf(g, t) \ {x}
      <4>1. PICK s : s = SeenOf(g, r)
        OBVIOUS
      <4>2. OneChanges(g, k, f, TileOfEdge(g, e), s) /\ TileOfEdge(g, e) \in Tiles(g)
        BY <2>8, <2>11, <4>1
      <4>3. s = k[TileOfEdge(g, e)] \ {GetLocalEdge(g, e)}
        BY <2>8, <2>13, <3>2, <4>1
      <4> QED
        BY <1>1, <2>9, <4>2, <4>3, ShownRemoved
    <3> QED
      BY <2>7, <3>1, <3>2
  <2>15. SoundInv'
    BY <1>1, <1>2, <2>4, <2>6, SoundStep DEF DrawnFrom
  <2> QED
    BY <2>10, <2>12, <2>14, <2>15 DEF StoreStep, SeenStep
<1> QED
  BY <1>3, <1>4 DEF Draw

(* Compaction forgets deleted edges at most.                                 *)
LEMMA CompactView ==
  ASSUME StoreInv, SoundInv, Sound, CompactTile
  PROVE  SoundInv' /\ StoreStep
<1>1. PICK a, t, r : a = TileOfId(g, at) /\ t = tiles[a] /\ r = CompactStorage(g, t)
  OBVIOUS
<1>2. /\ g' = g /\ g \in Configs /\ IsConfig(g) /\ phase = "compact" /\ ~g.random
      /\ g.perTile <= g.idMax /\ tiles' = [tiles EXCEPT ![a] = r]
  BY <1>1, StoreAssumption DEF CompactTile, StoreInv, PhaseInv, SoundInv, Sound
<1>3. TileTo(a, r)
  BY <1>2 DEF TileTo, StoreInv, TilesInv
<1>4. ASSUME a \in Tiles(g) PROVE SeenForgets(r, g, t)
  <2>1. TileInv(g, t) /\ AllClear(t)
    BY <1>1, <1>2, <1>4 DEF StoreInv, TilesInv, SoundInv, TileStored, SoundTile
  <2>2. Compacted(r, g, t)
    BY <1>1, <1>2, <2>1, TileSide, CompactIs
  <2> QED
    BY <1>2, <2>1, <2>2, CompactSeen
<1>5. PICK f, d, k, l : f = SeenBy' /\ d = DeletedBy' /\ k = SeenBy /\ l = DeletedBy
  OBVIOUS
<1>6. OneChanges(g, k, f, a, SeenOf(g, r)) /\ OneChanges(g, l, d, a, r.deleted)
  BY <1>2, <1>3, <1>5, TileView
<1>7. Shown(g, d) = Shown(g, l)
  <2>1. \A tile \in Tiles(g) : d[tile] = l[tile]
    BY <1>1, <1>4, <1>5, <1>6 DEF OneChanges, SeenForgets, DeletedBy
  <2> QED
    BY <2>1, ShownSame
<1>8. Shown(g, k) \ Shown(g, l) \subseteq Shown(g, f) /\ Shown(g, f) \subseteq Shown(g, k)
  <2>1. a \in Tiles(g) => SeenOf(g, r) \subseteq k[a] /\ k[a] \ l[a] \subseteq SeenOf(g, r)
    BY <1>1, <1>4, <1>5 DEF SeenForgets, SeenBy, DeletedBy
  <2>2. PICK s : s = SeenOf(g, r)
    OBVIOUS
  <2> QED
    BY <1>6, <2>1, <2>2, ShownForgets
<1>9. SoundInv'
  <2>1. a \in Tiles(g) => SoundTile(g, r)
    BY <1>4 DEF SeenForgets
  <2> QED
    BY <1>2, <1>3, <2>1, SoundStep
<1> QED
  BY <1>5, <1>7, <1>8, <1>9 DEF StoreStep, SeenStep

(* A step that leaves the tiles alone is a stutter.                          *)
LEMMA SameView ==
  ASSUME SoundInv, g' = g, tiles' = tiles, g.random /\ Sound => phase' # "compact"
  PROVE  SoundInv' /\ StoreStep
<1>1. SeenBy' = SeenBy /\ DeletedBy' = DeletedBy
  BY DEF SeenBy, DeletedBy
<1>2. SoundInv'
  BY DEF SoundInv, Sound
<1> QED
  BY <1>1, <1>2 DEF StoreStep, SeenStep

(* Every step of the store is a step of EdgeSet or a stutter.                *)
LEMMA NextView ==
  ASSUME StoreInv, SoundInv, Sound, [Next]_vars
  PROVE  SoundInv' /\ StoreStep /\ g' = g
<1>1. CASE \E e \in Edges : Insert(e) \/ Delete(e)
  <2>1. g' = g
    BY <1>1 DEF Insert, Delete
  <2> QED
    BY <1>1, <2>1, InsertView, DeleteView
<1>2. CASE \E m \in Managers : Draw(m)
  <2>1. g' = g
    BY <1>2 DEF Draw
  <2> QED
    BY <1>2, <2>1, DrawView
<1>3. CASE EndInsert
  <2>1. g' = g /\ tiles' = tiles /\ (g.random => phase' # "compact")
    BY <1>3 DEF EndInsert, Sound
  <2> QED
    BY <2>1, SameView
<1>4. CASE CompactTile
  <2>1. g' = g
    BY <1>4 DEF CompactTile
  <2> QED
    BY <1>4, <2>1, CompactView
<1>5. CASE End \/ UNCHANGED vars
  <2>1. g' = g /\ tiles' = tiles /\ phase' = phase
    BY <1>5 DEF End, vars
  <2>2. g.random /\ Sound => phase' # "compact"
    BY <2>1 DEF SoundInv
  <2> QED
    BY <2>1, <2>2, SameView
<1> QED
  BY <1>1, <1>2, <1>3, <1>4, <1>5 DEF Next

(* Configurations do not change.                                             *)
LEMMA SameConfig == [Next]_vars => g' = g
BY DEF Next, vars, Insert, Delete, Draw, EndInsert, CompactTile, End

(* What the executors make of the tiles.                                     *)
LEMMA ExecutedEdges ==
  ASSUME NEW c, NEW tile, NEW t, TileInv(c, t)
  PROVE  {x.edge : x \in ToSet(Executed(c, tile, t))} = {GetGlobalEdge(c, tile, l) : l \in SeenOf(c, t)}
<1>1. PICK csr : csr = CSREdges(c, t) /\ csr \in Seq(Locals(c))
  BY CsrIs DEF TileInv, CsrOf
<1>2. PICK n \in Nat : n = Len(csr) /\ DOMAIN csr = 1 .. n
  BY <1>1
<1>3. ToSet(csr) = {csr[k] : k \in 1 .. n}
  BY <1>2 DEF ToSet
<1>4. ASSUME NEW x \in ToSet(Executed(c, tile, t))
      PROVE  \E l \in SeenOf(c, t) : x.edge = GetGlobalEdge(c, tile, l)
  <2>1. FromCsr(c, tile, t, x) \/ FromList(c, tile, t, x)
    BY ExecutedIs
  <2>2. CASE FromCsr(c, tile, t, x)
    <3>1. PICK k \in 1 .. n : x.edge = GetGlobalEdge(c, tile, csr[k])
      BY <1>1, <1>2, <2>2 DEF FromCsr
    <3> QED
      BY <1>1, <1>3, <3>1 DEF SeenOf
  <2>3. CASE FromList(c, tile, t, x)
    <3>1. PICK i \in 1 .. Len(t.edges) : ~t.bitset[i] /\ x.edge = GetGlobalEdge(c, tile, t.edges[i])
      BY <2>3 DEF FromList
    <3> QED
      BY <3>1 DEF SeenOf
  <2> QED
    BY <2>1, <2>2, <2>3
<1>5. ASSUME NEW l \in SeenOf(c, t)
      PROVE  \E x \in ToSet(Executed(c, tile, t)) : x.edge = GetGlobalEdge(c, tile, l)
  <2>1. CASE l \in ToSet(csr)
    <3>1. PICK k \in 1 .. n : l = csr[k]
      BY <1>3, <2>1
    <3>2. PICK x : x = [edge |-> GetGlobalEdge(c, tile, csr[k]),
                        weight |-> IF Weighted THEN t.csrWeights[k] ELSE 1]
      OBVIOUS
    <3>3. FromCsr(c, tile, t, x)
      BY <1>1, <1>2, <3>2 DEF FromCsr
    <3>4. x \in ToSet(Executed(c, tile, t))
      BY <3>3, ExecutedIs
    <3> QED
      BY <3>1, <3>2, <3>4
  <2>2. CASE l \notin ToSet(csr)
    <3>1. PICK i \in 1 .. Len(t.edges) : ~t.bitset[i] /\ l = t.edges[i]
      BY <1>1, <2>2 DEF SeenOf
    <3>2. PICK x : x = [edge |-> GetGlobalEdge(c, tile, t.edges[i]),
                        weight |-> IF Weighted THEN t.weights[i] ELSE 1]
      OBVIOUS
    <3>3. FromList(c, tile, t, x)
      BY <3>1, <3>2 DEF FromList
    <3>4. x \in ToSet(Executed(c, tile, t))
      BY <3>3, ExecutedIs
    <3> QED
      BY <3>1, <3>2, <3>4
  <2> QED
    BY <2>1, <2>2
<1> QED
  BY <1>4, <1>5

(* The refinement mapping by local ids.                                      *)
ViewIs ==
  /\ Visible = IF Sound THEN Shown(g, SeenBy) ELSE {}
  /\ Condemned = IF Sound THEN Shown(g, DeletedBy) ELSE {}

(* It is the one of TileStore.                                               *)
LEMMA ViewOfStore == StoreInv => ViewIs
<1> SUFFICES ASSUME StoreInv PROVE ViewIs
  OBVIOUS
<1>1. IsConfig(g)
  BY StoreAssumption DEF StoreInv, PhaseInv
<1>2. ASSUME NEW tile \in Tiles(g)
      PROVE  /\ TileInv(g, tiles[tile])
             /\ SeenOf(g, tiles[tile]) \subseteq Locals(g) /\ tiles[tile].deleted \subseteq Locals(g)
  <2>1. TileInv(g, tiles[tile])
    BY DEF StoreInv, TilesInv, TileStored
  <2>2. tiles[tile].deleted \subseteq Locals(g)
    BY <2>1 DEF TileInv, TileType
  <2> QED
    BY <2>1, <2>2, EdgesAreLocal
<1>3. PICK k, l : k = SeenBy /\ l = DeletedBy
  OBVIOUS
<1>4. /\ \A tile \in Tiles(g) : k[tile] = SeenOf(g, tiles[tile])
      /\ \A tile \in Tiles(g) : l[tile] = tiles[tile].deleted
  BY <1>3 DEF SeenBy, DeletedBy
<1>5. UNION {{GetGlobalEdge(g, tile, x) : x \in k[tile]} : tile \in Tiles(g)} = Shown(g, k)
  BY <1>1, <1>2, <1>4, ShownAre
<1>6. UNION {{GetGlobalEdge(g, tile, x) : x \in l[tile]} : tile \in Tiles(g)} = Shown(g, l)
  BY <1>1, <1>2, <1>4, ShownAre
<1>7. \A tile \in Tiles(g) : {x.edge : x \in ToSet(Read(tile))} = {GetGlobalEdge(g, tile, x) : x \in k[tile]}
  <2> TAKE tile \in Tiles(g)
  <2>1. PICK t : t = tiles[tile]
    OBVIOUS
  <2>2. {x.edge : x \in ToSet(Executed(g, tile, t))} = {GetGlobalEdge(g, tile, l2) : l2 \in SeenOf(g, t)}
    BY <1>2, <2>1, ExecutedEdges
  <2>3. k[tile] = SeenOf(g, t)
    BY <1>4, <2>1
  <2> QED
    BY <2>1, <2>2, <2>3 DEF Read
<1>8. Visible = IF Sound THEN Shown(g, k) ELSE {}
  <2>1. {{x.edge : x \in ToSet(Read(tile))} : tile \in Tiles(g)}
          = {{GetGlobalEdge(g, tile, x) : x \in k[tile]} : tile \in Tiles(g)}
    <3>1. PICK p, q : /\ p = [tile \in Tiles(g) |-> {x.edge : x \in ToSet(Read(tile))}]
                      /\ q = [tile \in Tiles(g) |-> {GetGlobalEdge(g, tile, x) : x \in k[tile]}]
      OBVIOUS
    <3>2. /\ \A tile \in Tiles(g) : p[tile] = {x.edge : x \in ToSet(Read(tile))}
          /\ \A tile \in Tiles(g) : q[tile] = {GetGlobalEdge(g, tile, x) : x \in k[tile]}
      BY <3>1
    <3>3. \A tile \in Tiles(g) : p[tile] = q[tile]
      BY <1>7, <3>2
    <3>4. {{x.edge : x \in ToSet(Read(tile))} : tile \in Tiles(g)} = {p[tile] : tile \in Tiles(g)}
      BY <3>2, Zenon
    <3>5. {{GetGlobalEdge(g, tile, x) : x \in k[tile]} : tile \in Tiles(g)} = {q[tile] : tile \in Tiles(g)}
      <4> DEFINE Q(tile) == {GetGlobalEdge(g, tile, x) : x \in k[tile]}
      <4>1. \A tile \in Tiles(g) : Q(tile) = q[tile]
        BY <3>2
      <4>2. {Q(tile) : tile \in Tiles(g)} = {q[tile] : tile \in Tiles(g)}
        <5> HIDE DEF Q
        <5> QED
          BY <4>1
      <4> QED
        BY <4>2
    <3>6. {p[tile] : tile \in Tiles(g)} = {q[tile] : tile \in Tiles(g)}
      BY <3>3, Zenon
    <3> QED
      BY <3>4, <3>5, <3>6
  <2> QED
    BY <1>5, <2>1 DEF Visible
<1>9. Condemned = IF Sound THEN Shown(g, l) ELSE {}
  <2>1. {{GetGlobalEdge(g, tile, x) : x \in tiles[tile].deleted} : tile \in Tiles(g)}
          = {{GetGlobalEdge(g, tile, x) : x \in l[tile]} : tile \in Tiles(g)}
    BY <1>4
  <2> QED
    BY <1>6, <2>1 DEF Condemned
<1> QED
  BY <1>3, <1>8, <1>9 DEF ViewIs

(* A new store is an empty set of edges.                                     *)
LEMMA InitView == Init => SoundInv /\ ES!ESInit
<1> SUFFICES ASSUME Init PROVE SoundInv /\ ES!ESInit
  OBVIOUS
<1>1. IsConfig(g) /\ g.perTile \in Nat
  BY StoreAssumption, TileSide DEF Init
<1>2. \A tile \in Tiles(g) : tiles[tile] = NewTile
  BY DEF Init
<1>3. SoundTile(g, NewTile) /\ SeenOf(g, NewTile) = {} /\ NewTile.deleted = {}
  BY <1>1, NewTileSound DEF NewTile
<1>4. SoundInv
  BY <1>2, <1>3 DEF SoundInv, Init
<1>5. ViewIs
  BY StoreInit, ViewOfStore
<1>6. Shown(g, SeenBy) = {} /\ Shown(g, DeletedBy) = {}
  <2>1. \A tile \in Tiles(g) : SeenBy[tile] = {} /\ DeletedBy[tile] = {}
    BY <1>2, <1>3 DEF SeenBy, DeletedBy
  <2> QED
    BY <2>1 DEF Shown
<1>7. Visible = {} /\ Condemned = {}
  BY <1>5, <1>6 DEF ViewIs
<1> QED
  BY <1>4, <1>7 DEF ES!ESInit

(* Every step maps to one of EdgeSet or a stutter, whether positions mean    *)
(* anything or not.                                                          *)
LEMMA StepView ==
  ASSUME StoreInv, SoundInv, [Next]_vars, ViewIs'
  PROVE  SoundInv' /\ [ES!ESNext]_<<Visible, Condemned>>
<1>1. g' = g
  BY SameConfig
<1>2. Sound' = Sound
  BY <1>1 DEF Sound
<1>3. ViewIs
  BY ViewOfStore
<1>4. CASE Sound
  <2>1. SoundInv' /\ StoreStep
    BY <1>4, NextView
  <2>2. PICK V, C, V2, C2 : V = Visible /\ C = Condemned /\ V2 = Visible' /\ C2 = Condemned'
    OBVIOUS
  <2>3. V = Shown(g, SeenBy) /\ C = Shown(g, DeletedBy)
    BY <1>3, <1>4, <2>2 DEF ViewIs
  <2>4. V2 = Shown(g, SeenBy') /\ C2 = Shown(g, DeletedBy')
    BY <1>1, <1>2, <1>4, <2>2 DEF ViewIs
  <2>5. SeenStep(V, C, V2, C2)
    BY <2>1, <2>3, <2>4 DEF StoreStep
  <2>6. CASE V2 = V /\ C2 = C
    BY <2>1, <2>2, <2>6
  <2>7. CASE C2 = C /\ V \ C \subseteq V2 /\ V2 \subseteq V
    BY <2>1, <2>2, <2>7 DEF ES!ESNext, ES!Forget, ES!Between
  <2>8. CASE \E e \in Edges : C2 = C /\ (V \union {e}) \ C \subseteq V2 /\ V2 \subseteq V \union {e}
    BY <2>1, <2>2, <2>8 DEF ES!ESNext, ES!Insert, ES!Between
  <2>9. CASE \E e \in Edges : C2 = C \union {e} /\ V2 = V
    BY <2>1, <2>2, <2>9 DEF ES!ESNext, ES!Condemn
  <2>10. CASE \E e \in Edges : C2 = C /\ V2 = V \ {e}
    BY <2>1, <2>2, <2>10 DEF ES!ESNext, ES!Draw
  <2> QED
    BY <2>1, <2>5, <2>6, <2>7, <2>8, <2>9, <2>10 DEF SeenStep
<1>5. CASE ~Sound
  <2>1. SoundInv'
    BY <1>2, <1>5 DEF SoundInv
  <2>2. Visible = {} /\ Condemned = {}
    BY <1>3, <1>5 DEF ViewIs
  <2>3. Visible' = {} /\ Condemned' = {}
    BY <1>2, <1>5 DEF ViewIs
  <2> QED
    BY <2>1, <2>2, <2>3
<1> QED
  BY <1>4, <1>5

(* The store implements EdgeSet: storing, compacting, deleting and switching *)
(* the form of the CSR never lose an edge, bring one back or make one up,    *)
(* for any grid, any edges and any number of operations                      *)
(* (TileManager::compactStorage, insertEdge, deleteEdge, deleteRandomEdge).  *)
THEOREM StoreIsEdgeSet == Spec => ImplementsEdgeSet
<1>1. StoreInv' => ViewIs'
  BY ViewOfStore, PTL
<1>2. StoreInv /\ SoundInv /\ [Next]_vars /\ StoreInv' => SoundInv' /\ [ES!ESNext]_<<Visible, Condemned>>
  BY <1>1, StepView
<1> QED
  BY <1>2, StoreHolds, InitView, PTL DEF Spec, ImplementsEdgeSet, ES!ESSpec
===============================================================================
