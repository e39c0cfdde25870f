----------------------------- MODULE FoldTheorems -----------------------------
(***************************************************************************)
(* Induction, and folding over finite sets.  The theorems of the library   *)
(* take a predicate or an operator; these take a set in place of the       *)
(* predicate and a function in place of the operator.  A fold is a         *)
(* function on the subsets of a set, as in the module Folds: a subset is   *)
(* taken apart by choosing an element and stepping from what the rest      *)
(* comes to.  If the steps commute, any element may be taken first.        *)
(***************************************************************************)
EXTENDS Integers, Sequences, FiniteSets, FiniteSetsExt, Functions, FiniteSetTheorems, TLAPS

(* A set that has 0 and, with each number, the next one has them all.  The  *)
(* members below m form an interval, which is counted.                      *)
LEMMA SetInduction ==
  ASSUME NEW S, 0 \in S, \A n \in Nat : n \in S => n + 1 \in S
  PROVE  Nat \subseteq S
<1> SUFFICES ASSUME NEW m \in Nat PROVE m \in S
  OBVIOUS
<1> DEFINE D == {k \in 0 .. m : 0 .. k \subseteq S}
           c == Cardinality(D)
<1>1. IsFiniteSet(0 .. m) /\ Cardinality(0 .. m) = m + 1
  BY FS_Interval
<1>2. IsFiniteSet(D) /\ c \in Nat /\ c <= m + 1
  BY <1>1, FS_Subset, FS_CardinalityType
<1>3. \A k \in D : k + 1 <= c
  <2> TAKE k \in D
  <2>1. 0 .. k \subseteq D
    OBVIOUS
  <2>2. Cardinality(0 .. k) = k + 1
    BY FS_Interval
  <2>3. Cardinality(0 .. k) <= c
    BY <1>2, <2>1, FS_Subset
  <2> QED BY <2>2, <2>3
<1>4. D \subseteq 0 .. c - 1
  BY <1>2, <1>3
<1>5. Cardinality(0 .. c - 1) = c /\ IsFiniteSet(0 .. c - 1)
  <2> HIDE DEF c
  <2>1. c - 1 \in Int /\ (0 > c - 1 <=> c = 0) /\ (c - 1) - 0 + 1 = c
    BY <1>2
  <2> QED BY <2>1, FS_Interval
<1>6. D = 0 .. c - 1
  BY <1>4, <1>5, FS_Subset
<1>7. c \in Nat /\ c <= m + 1 /\ D = 0 .. c - 1
  BY <1>2, <1>6
<1>8. 0 \in D
  OBVIOUS
<1>9. CASE c <= m
  <2>1. c - 1 \in D
    BY <1>2, <1>6, <1>8
  <2>2. 0 .. c \subseteq S
    BY <1>2, <2>1
  <2>3. c \in D
    BY <1>2, <1>9, <2>2
  <2> HIDE DEF c, D
  <2> QED BY <1>7, <2>3
<1>10. CASE c = m + 1
  <2>1. m \in D
    <3> HIDE DEF c, D
    <3> QED BY <1>7, <1>10
  <2> QED BY <2>1
<1> QED BY <1>7, <1>9, <1>10
-------------------------------------------------------------------------------
Chosen(s) == CHOOSE x \in s : TRUE

\* What a set comes to, if f says it of the sets with an element less.
FoldStep(f, s, base, step) ==
  IF s = {} THEN base ELSE step[<<Chosen(s), f[s \ {Chosen(s)}]>>]

IsFold(f, U, T, base, step) ==
  /\ f \in [SUBSET U -> T]
  /\ \A s \in SUBSET U : f[s] = FoldStep(f, s, base, step)

AtMost(U, n) == {s \in SUBSET U : Cardinality(s) <= n}

LEMMA ChosenIn ==
  ASSUME NEW s, s # {}
  PROVE  Chosen(s) \in s
BY DEF Chosen

LEMMA OneRemoved ==
  ASSUME NEW s, IsFiniteSet(s), NEW x \in s, NEW n \in Nat, Cardinality(s) = n + 1
  PROVE  IsFiniteSet(s \ {x}) /\ Cardinality(s \ {x}) = n
<1>1. IsFiniteSet(s \ {x}) /\ Cardinality(s \ {x}) = Cardinality(s) - 1
  BY FS_RemoveElement
<1> QED
  BY <1>1

LEMMA OneLess ==
  ASSUME NEW U, IsFiniteSet(U), NEW n \in Nat, NEW s \in AtMost(U, n + 1),
         NEW x \in s
  PROVE  s \ {x} \in AtMost(U, n)
<1>1. IsFiniteSet(s) /\ Cardinality(s) \in Nat /\ Cardinality(s) <= n + 1
  BY FS_Subset, FS_CardinalityType DEF AtMost
<1>2. Cardinality(s \ {x}) = Cardinality(s) - 1
  BY <1>1, FS_RemoveElement
<1> QED
  BY <1>1, <1>2 DEF AtMost

LEMMA AllAtMost ==
  ASSUME NEW U, IsFiniteSet(U)
  PROVE  /\ Cardinality(U) \in Nat
         /\ AtMost(U, Cardinality(U)) = SUBSET U
<1>1. \A s \in SUBSET U : Cardinality(s) <= Cardinality(U)
  BY FS_Subset
<1> QED
  BY <1>1, FS_CardinalityType DEF AtMost

LEMMA NoneAtMost ==
  ASSUME NEW U, IsFiniteSet(U)
  PROVE  AtMost(U, 0) = {{}}
<1>1. ASSUME NEW s \in SUBSET U, Cardinality(s) <= 0 PROVE s = {}
  <2>1. IsFiniteSet(s) /\ Cardinality(s) \in Nat
    BY FS_Subset, FS_CardinalityType
  <2>2. Cardinality(s) = 0
    BY <1>1, <2>1
  <2> QED
    BY <2>1, <2>2, FS_EmptySet
<1>2. Cardinality({}) = 0
  BY FS_EmptySet
<1> QED
  BY <1>1, <1>2 DEF AtMost

(* There is a fold over every finite set, whatever the steps are.           *)
LEMMA FoldExists ==
  ASSUME NEW U, IsFiniteSet(U), NEW T, NEW base \in T,
         NEW step \in [U \X T -> T]
  PROVE  \E f : IsFold(f, U, T, base, step)
<1> DEFINE Upto(f, n) ==
             /\ f \in [AtMost(U, n) -> T]
             /\ \A s \in AtMost(U, n) : f[s] = FoldStep(f, s, base, step)
           S == {n \in Nat : \E f : Upto(f, n)}
<1>1. 0 \in S
  <2> DEFINE f == [s \in AtMost(U, 0) |-> base]
  <2>1. Upto(f, 0)
    BY NoneAtMost DEF FoldStep
  <2> QED
    BY <2>1
<1>2. ASSUME NEW n \in Nat, n \in S PROVE n + 1 \in S
  <2>1. PICK f : Upto(f, n)
    BY <1>2
  <2> HIDE DEF Upto
  <2> DEFINE g == [s \in AtMost(U, n + 1) |-> FoldStep(f, s, base, step)]
  <2>2. \A s \in AtMost(U, n) : s \in AtMost(U, n + 1)
    <3> TAKE s \in AtMost(U, n)
    <3>1. s \in SUBSET U /\ Cardinality(s) <= n
      BY DEF AtMost
    <3>2. Cardinality(s) \in Nat
      BY <3>1, FS_Subset, FS_CardinalityType
    <3> QED
      BY <3>1, <3>2 DEF AtMost
  <2>3. \A s \in AtMost(U, n) : g[s] = f[s] /\ f[s] \in T
    BY <2>1, <2>2 DEF Upto
  <2>4. ASSUME NEW s \in AtMost(U, n + 1)
        PROVE  /\ FoldStep(g, s, base, step) = FoldStep(f, s, base, step)
               /\ FoldStep(f, s, base, step) \in T
    <3>1. CASE s = {}
      BY <3>1 DEF FoldStep
    <3>2. CASE s # {}
      <4>1. Chosen(s) \in s /\ s \in SUBSET U
        BY <3>2, ChosenIn DEF AtMost
      <4>2. s \ {Chosen(s)} \in AtMost(U, n)
        BY <4>1, OneLess
      <4> HIDE DEF g
      <4>3. g[s \ {Chosen(s)}] = f[s \ {Chosen(s)}] /\ f[s \ {Chosen(s)}] \in T
        BY <4>2, <2>3
      <4>4. step[<<Chosen(s), f[s \ {Chosen(s)}]>>] \in T
        BY <4>1, <4>3
      <4> QED
        BY <3>2, <4>3, <4>4 DEF FoldStep
    <3> QED
      BY <3>1, <3>2
  <2>5. Upto(g, n + 1)
    BY <2>4 DEF Upto
  <2> HIDE DEF g
  <2> QED
    BY <2>5
<1> HIDE DEF S, Upto
<1>3. Nat \subseteq S
  BY <1>1, <1>2, SetInduction
<1>4. Cardinality(U) \in S /\ AtMost(U, Cardinality(U)) = SUBSET U
  BY <1>3, AllAtMost
<1>5. PICK f : Upto(f, Cardinality(U))
  BY <1>4 DEF S
<1>6. IsFold(f, U, T, base, step)
  BY <1>4, <1>5 DEF Upto, IsFold
<1> QED
  BY <1>6

(* Whatever the order of two steps, they come to the same.                  *)
Commutes(U, T, step) ==
  \A x \in U, y \in U, t \in T :
    step[<<x, step[<<y, t>>]>>] = step[<<y, step[<<x, t>>]>>]

IsCommutingFold(f, U, T, base, step) ==
  /\ IsFiniteSet(U) /\ base \in T /\ step \in [U \X T -> T]
  /\ Commutes(U, T, step) /\ IsFold(f, U, T, base, step)

(* If the steps commute, a fold may take any element of the set last.       *)
LEMMA FoldAnyOrder ==
  ASSUME NEW U, NEW T, NEW base, NEW step, NEW f,
         IsCommutingFold(f, U, T, base, step),
         NEW s \in SUBSET U, NEW x \in s
  PROVE  f[s] = step[<<x, f[s \ {x}]>>]
<1>0. /\ IsFiniteSet(U) /\ base \in T /\ step \in [U \X T -> T]
      /\ Commutes(U, T, step) /\ IsFold(f, U, T, base, step)
  BY DEF IsCommutingFold
<1> DEFINE Any(r) == \A z \in r : f[r] = step[<<z, f[r \ {z}]>>]
           S == {n \in Nat : \A r \in AtMost(U, n) : Any(r)}
<1>1. 0 \in S
  BY <1>0, NoneAtMost
<1>2. ASSUME NEW n \in Nat, n \in S PROVE n + 1 \in S
  <2> SUFFICES ASSUME NEW r \in AtMost(U, n + 1), NEW z \in r
               PROVE  f[r] = step[<<z, f[r \ {z}]>>]
      OBVIOUS
  <2> DEFINE c == Chosen(r)
             rest == (r \ {z}) \ {c}
  <2>1. r \in SUBSET U /\ c \in r /\ z \in U /\ c \in U
    BY ChosenIn DEF AtMost
  <2>2. f[r] = step[<<c, f[r \ {c}]>>]
    BY <1>0, <2>1 DEF IsFold, FoldStep
  <2>3. CASE c = z
    BY <2>2, <2>3
  <2>4. CASE c # z
    <3>1. r \ {c} \in AtMost(U, n) /\ r \ {z} \in AtMost(U, n)
      BY <1>0, <2>1, OneLess
    <3>2. z \in r \ {c} /\ c \in r \ {z}
      BY <2>1, <2>4
    <3>3. \A q \in AtMost(U, n) : Any(q)
      BY <1>2
    <3> HIDE DEF S, c
    <3>4. f[r \ {c}] = step[<<z, f[(r \ {c}) \ {z}]>>]
      BY <3>1, <3>2, <3>3
    <3>5. f[r \ {z}] = step[<<c, f[rest]>>]
      BY <3>1, <3>2, <3>3
    <3>6. (r \ {c}) \ {z} = rest
      OBVIOUS
    <3>7. f[rest] \in T
      BY <1>0, <2>1 DEF IsFold
    <3> HIDE DEF rest
    <3>8. step[<<c, step[<<z, f[rest]>>]>>] = step[<<z, step[<<c, f[rest]>>]>>]
      BY <1>0, <2>1, <3>7 DEF Commutes
    <3> QED
      BY <2>2, <3>4, <3>5, <3>6, <3>8
  <2> QED
    BY <2>3, <2>4
<1>3. Nat \subseteq S
  <2> HIDE DEF S
  <2> QED
    BY <1>1, <1>2, SetInduction
<1>4. Cardinality(U) \in S /\ AtMost(U, Cardinality(U)) = SUBSET U
  <2> HIDE DEF S
  <2> QED
    BY <1>0, <1>3, AllAtMost
<1> QED
  BY <1>4

(* Whatever meets the equation of a fold is the fold.                       *)
LikeFold(g, U, T, base, step) ==
  \A s \in SUBSET U :
    /\ s = {} => g[s] = base
    /\ s # {} /\ g[s \ {Chosen(s)}] \in T => g[s] = FoldStep(g, s, base, step)

LEMMA FoldUnique ==
  ASSUME NEW U, IsFiniteSet(U), NEW T, NEW base, NEW step,
         NEW f, IsFold(f, U, T, base, step), NEW g, LikeFold(g, U, T, base, step)
  PROVE  \A s \in SUBSET U : g[s] = f[s]
<1> DEFINE S == {n \in Nat : \A r \in AtMost(U, n) : g[r] = f[r]}
<1>1. 0 \in S
  <2>1. {} \in SUBSET U /\ g[{}] = base /\ f[{}] = base
    BY DEF IsFold, FoldStep, LikeFold
  <2> QED
    BY <2>1, NoneAtMost
<1>2. ASSUME NEW n \in Nat, n \in S PROVE n + 1 \in S
  <2> SUFFICES ASSUME NEW r \in AtMost(U, n + 1) PROVE g[r] = f[r]
      OBVIOUS
  <2>1. r \in SUBSET U
    BY DEF AtMost
  <2>2. CASE r = {}
    BY <2>1, <2>2 DEF IsFold, FoldStep, LikeFold
  <2>3. CASE r # {}
    <3>1. r \ {Chosen(r)} \in AtMost(U, n)
      BY <2>3, ChosenIn, OneLess
    <3>2. g[r \ {Chosen(r)}] = f[r \ {Chosen(r)}]
      BY <1>2, <3>1
    <3>3. f[r \ {Chosen(r)}] \in T
      BY <2>1 DEF IsFold
    <3> QED
      BY <2>1, <2>3, <3>2, <3>3 DEF IsFold, FoldStep, LikeFold
  <2> QED
    BY <2>2, <2>3
<1>3. Nat \subseteq S
  <2> HIDE DEF S
  <2> QED
    BY <1>1, <1>2, SetInduction
<1>4. Cardinality(U) \in S /\ AtMost(U, Cardinality(U)) = SUBSET U
  <2> HIDE DEF S
  <2> QED
    BY <1>3, AllAtMost
<1> QED
  BY <1>4
-------------------------------------------------------------------------------
(* The sum of the values of a function, as Functions defines it, is a fold. *)
SumSteps(f) == [xt \in (DOMAIN f) \X Int |-> f[xt[1]] + xt[2]]

SumFold(f) ==
  CHOOSE iter :
    iter = [s \in SUBSET DOMAIN f |->
              IF s = {} THEN 0
              ELSE LET x == CHOOSE y \in s : TRUE IN f[x] + iter[s \ {x}]]

LEMMA SumIsFolded ==
  ASSUME NEW f
  PROVE  SumFunction(f) = SumFold(f)[DOMAIN f]
BY DEF SumFunction, SumFunctionOnSet, FoldFunctionOnSet, MapThenFoldSet, SumFold

LEMMA SumStepsAre ==
  ASSUME NEW D, NEW f \in [D -> Int]
  PROVE  /\ SumSteps(f) \in [D \X Int -> Int]
         /\ \A x \in D, t \in Int : SumSteps(f)[<<x, t>>] = f[x] + t
         /\ Commutes(D, Int, SumSteps(f))
<1>1. SumSteps(f) \in [D \X Int -> Int]
  BY DEF SumSteps
<1>2. \A x \in D, t \in Int : SumSteps(f)[<<x, t>>] = f[x] + t
  BY DEF SumSteps
<1>3. ASSUME NEW x \in D, NEW y \in D, NEW t \in Int
      PROVE  SumSteps(f)[<<x, SumSteps(f)[<<y, t>>]>>]
               = SumSteps(f)[<<y, SumSteps(f)[<<x, t>>]>>]
  <2>1. f[x] \in Int /\ f[y] \in Int /\ f[x] + t \in Int /\ f[y] + t \in Int
    OBVIOUS
  <2>2. f[x] + (f[y] + t) = f[y] + (f[x] + t)
    BY <2>1
  <2> QED
    BY <1>2, <2>1, <2>2
<1> QED
  BY <1>1, <1>2, <1>3 DEF Commutes

LEMMA SumFoldIsFold ==
  ASSUME NEW D, IsFiniteSet(D), NEW f \in [D -> Int]
  PROVE  IsCommutingFold(SumFold(f), D, Int, 0, SumSteps(f))
<1> DEFINE E(iter) == [s \in SUBSET DOMAIN f |->
              IF s = {} THEN 0
              ELSE LET x == CHOOSE y \in s : TRUE IN f[x] + iter[s \ {x}]]
           F == SumFold(f)
<1>0. DOMAIN f = D /\ 0 \in Int
  OBVIOUS
<1>7. \A x \in D, t \in Int : SumSteps(f)[<<x, t>>] = f[x] + t
  BY SumStepsAre
<1>1. PICK w : IsFold(w, D, Int, 0, SumSteps(f))
  BY <1>0, SumStepsAre, FoldExists
<1>2. w = E(w)
  <2>1. w \in [SUBSET D -> Int]
    BY <1>1 DEF IsFold
  <2>2. ASSUME NEW s \in SUBSET D PROVE w[s] = E(w)[s]
    <3>1. w[s] = FoldStep(w, s, 0, SumSteps(f))
      BY <1>1 DEF IsFold
    <3>2. CASE s = {}
      BY <3>1, <3>2 DEF FoldStep
    <3>3. CASE s # {}
      <4>1. Chosen(s) \in D
        BY <3>3, ChosenIn
      <4>2. w[s \ {Chosen(s)}] \in Int
        BY <2>1
      <4>3. w[s] = f[Chosen(s)] + w[s \ {Chosen(s)}]
        BY <3>1, <3>3, <4>1, <4>2, <1>7 DEF FoldStep
      <4> QED
        BY <3>3, <4>3 DEF Chosen
    <3> QED
      BY <3>2, <3>3
  <2> QED
    BY <2>1, <2>2
<1>3. F = E(F)
  <2> HIDE DEF E
  <2>1. F = CHOOSE iter : iter = E(iter)
    BY DEF SumFold, E
  <2> HIDE DEF F
  <2> QED
    BY <1>2, <2>1, Zenon
<1>4. \A s \in SUBSET D :
        /\ s = {} => F[s] = 0
        /\ s # {} /\ F[s \ {Chosen(s)}] \in Int =>
             F[s] = FoldStep(F, s, 0, SumSteps(f))
  <2> TAKE s \in SUBSET D
  <2> HIDE DEF F
  <2>1. F[s] = IF s = {} THEN 0 ELSE f[Chosen(s)] + F[s \ {Chosen(s)}]
    <3>1. F[s] = E(F)[s]
      BY <1>3
    <3>2. E(F)[s] = IF s = {} THEN 0 ELSE f[Chosen(s)] + F[s \ {Chosen(s)}]
      BY DEF Chosen
    <3> QED
      BY <3>1, <3>2
  <2>2. s # {} => Chosen(s) \in D
    BY ChosenIn
  <2> HIDE DEF E
  <2> QED
    BY <2>1, <2>2, <1>7 DEF FoldStep
<1>5. \A s \in SUBSET D : F[s] = w[s]
  <2> HIDE DEF F, E
  <2>1. LikeFold(F, D, Int, 0, SumSteps(f))
    BY <1>4 DEF LikeFold
  <2> QED
    BY <1>1, <2>1, FoldUnique
<1>6. F = w
  <2> HIDE DEF F
  <2>1. w \in [SUBSET D -> Int]
    BY <1>1 DEF IsFold
  <2>2. DOMAIN F = SUBSET D /\ F = [s \in DOMAIN F |-> F[s]]
    BY <1>3
  <2> HIDE DEF E
  <2> QED
    BY <1>5, <2>1, <2>2
<1>9. IsFold(F, D, Int, 0, SumSteps(f))
  BY <1>1, <1>6
<1> QED
  BY <1>0, <1>9, SumStepsAre DEF IsCommutingFold

LEMMA SumInt ==
  ASSUME NEW D, IsFiniteSet(D), NEW f \in [D -> Int]
  PROVE  SumFunction(f) \in Int
<1>1. SumFold(f) \in [SUBSET D -> Int]
  BY SumFoldIsFold DEF IsCommutingFold, IsFold
<1> QED
  BY <1>1, SumIsFolded

LEMMA SumEmpty ==
  ASSUME NEW f \in [{} -> Int]
  PROVE  SumFunction(f) = 0
<1>1. IsFiniteSet({})
  BY FS_EmptySet
<1>2. SumFold(f)[{}] = 0
  BY <1>1, SumFoldIsFold DEF IsCommutingFold, IsFold, FoldStep
<1> QED
  BY <1>2, SumIsFolded

(* A sum is one value and the sum of the others.                            *)
Without(f, x) == [y \in DOMAIN f \ {x} |-> f[y]]

LEMMA SumRemove ==
  ASSUME NEW D, IsFiniteSet(D), NEW f \in [D -> Int], NEW x \in D
  PROVE  /\ SumFunction(f) = f[x] + SumFunction(Without(f, x))
         /\ f[x] \in Int /\ SumFunction(Without(f, x)) \in Int
<1> DEFINE U == D \ {x}
           h == [y \in U |-> f[y]]
           F == SumFold(f)
           H == SumFold(h)
<1>1. IsFiniteSet(U) /\ h \in [U -> Int]
  BY FS_RemoveElement
<1>0. /\ \A y \in D, t \in Int : SumSteps(f)[<<y, t>>] = f[y] + t
      /\ \A y \in U, t \in Int : SumSteps(h)[<<y, t>>] = h[y] + t
  <2> HIDE DEF h, U
  <2> QED
    BY <1>1, SumStepsAre
<1>2. /\ IsCommutingFold(F, D, Int, 0, SumSteps(f))
      /\ IsCommutingFold(H, U, Int, 0, SumSteps(h))
  BY <1>1, SumFoldIsFold
<1>3. F \in [SUBSET D -> Int] /\ H \in [SUBSET U -> Int]
  BY <1>2 DEF IsCommutingFold, IsFold
<1>4. \A s \in SUBSET U :
        /\ s = {} => F[s] = 0
        /\ s # {} /\ F[s \ {Chosen(s)}] \in Int =>
             F[s] = FoldStep(F, s, 0, SumSteps(h))
  <2> TAKE s \in SUBSET U
  <2>1. F[s] = FoldStep(F, s, 0, SumSteps(f))
    <3>1. s \in SUBSET D
      OBVIOUS
    <3> HIDE DEF F
    <3> QED
      BY <1>2, <3>1 DEF IsCommutingFold, IsFold
  <2>2. ASSUME s # {}
        PROVE  /\ F[s \ {Chosen(s)}] \in Int
               /\ SumSteps(f)[<<Chosen(s), F[s \ {Chosen(s)}]>>]
                    = SumSteps(h)[<<Chosen(s), F[s \ {Chosen(s)}]>>]
    <3>1. Chosen(s) \in U
      BY <2>2, ChosenIn
    <3>2. Chosen(s) \in D /\ h[Chosen(s)] = f[Chosen(s)]
      BY <3>1
    <3>3. F[s \ {Chosen(s)}] \in Int
      <4>1. s \ {Chosen(s)} \in SUBSET D
        OBVIOUS
      <4> HIDE DEF F
      <4> QED
        BY <1>3, <4>1
    <3> HIDE DEF h, U, F
    <3>4. /\ SumSteps(f)[<<Chosen(s), F[s \ {Chosen(s)}]>>]
               = f[Chosen(s)] + F[s \ {Chosen(s)}]
          /\ SumSteps(h)[<<Chosen(s), F[s \ {Chosen(s)}]>>]
               = h[Chosen(s)] + F[s \ {Chosen(s)}]
      BY <1>0, <3>1, <3>2, <3>3
    <3> QED
      BY <3>2, <3>3, <3>4
  <2> HIDE DEF F, h
  <2> QED
    BY <2>1, <2>2 DEF FoldStep
<1>5. F[U] = H[U]
  <2>1. IsFold(H, U, Int, 0, SumSteps(h))
    BY <1>2 DEF IsCommutingFold
  <2>2. U \in SUBSET U
    OBVIOUS
  <2>3. LikeFold(F, U, Int, 0, SumSteps(h))
    BY <1>4 DEF LikeFold
  <2> HIDE DEF F, H, h, U
  <2> QED
    BY <1>1, <2>1, <2>2, <2>3, FoldUnique
<1>6. F[D] = SumSteps(f)[<<x, F[U]>>]
  <2>1. D \in SUBSET D
    OBVIOUS
  <2> HIDE DEF F
  <2> QED
    BY <1>2, <2>1, FoldAnyOrder
<1>7. F[U] \in Int
  <2>1. U \in SUBSET D
    OBVIOUS
  <2> HIDE DEF F, U
  <2> QED
    BY <1>3, <2>1
<1>8. F[D] = f[x] + F[U]
  <2> HIDE DEF F, U, h
  <2> QED
    BY <1>0, <1>6, <1>7
<1>9. SumFunction(f) = F[D] /\ SumFunction(h) = H[U]
  BY SumIsFolded
<1>10. Without(f, x) = h
  BY DEF Without
<1>11. SumFunction(h) \in Int /\ f[x] \in Int
  <2> HIDE DEF h, U
  <2> QED
    BY <1>1, SumInt
<1> HIDE DEF h, U, F, H
<1> QED
  BY <1>5, <1>8, <1>9, <1>10, <1>11

(* One value changes.                                                       *)
DiffersAt(f, g, D, x) ==
  /\ IsFiniteSet(D) /\ f \in [D -> Int] /\ g \in [D -> Int]
  /\ x \in D /\ \A y \in D \ {x} : g[y] = f[y]

LEMMA SumChange ==
  ASSUME NEW D, NEW f, NEW g, NEW x, DiffersAt(f, g, D, x)
  PROVE  SumFunction(g) + f[x] = SumFunction(f) + g[x]
<1> USE DEF DiffersAt
<1>1. Without(f, x) = Without(g, x)
  BY DEF Without
<1>2. /\ SumFunction(f) = f[x] + SumFunction(Without(f, x))
      /\ f[x] \in Int /\ SumFunction(Without(f, x)) \in Int
  BY SumRemove
<1>3. SumFunction(g) = g[x] + SumFunction(Without(g, x)) /\ g[x] \in Int
  BY SumRemove
<1> QED
  BY <1>1, <1>2, <1>3

(* What holds of the functions on the empty set, and of those on a set      *)
(* with one more element, holds of those on every finite set: these are the *)
(* two steps of the proofs by the number of elements.                       *)
LEMMA SumPlus ==
  ASSUME NEW D, IsFiniteSet(D), NEW f \in [D -> Int], NEW g \in [D -> Int]
  PROVE  SumFunction([x \in D |-> f[x] + g[x]]) = SumFunction(f) + SumFunction(g)
<1> DEFINE Plus(E, p, q) == [x \in E |-> p[x] + q[x]]
           Fine(E) == \A p \in [E -> Int], q \in [E -> Int] :
                        SumFunction(Plus(E, p, q)) = SumFunction(p) + SumFunction(q)
           S == {n \in Nat : \A E \in SUBSET D : Cardinality(E) = n => Fine(E)}
<1>1. 0 \in S
  <2> SUFFICES ASSUME NEW E \in SUBSET D, Cardinality(E) = 0,
                      NEW p \in [E -> Int], NEW q \in [E -> Int]
               PROVE  SumFunction(Plus(E, p, q)) = SumFunction(p) + SumFunction(q)
      OBVIOUS
  <2>1. E = {}
    BY FS_Subset, FS_EmptySet
  <2>2. Plus(E, p, q) \in [{} -> Int] /\ p \in [{} -> Int] /\ q \in [{} -> Int]
    BY <2>1
  <2> HIDE DEF Plus
  <2>3. SumFunction(p) = 0 /\ SumFunction(q) = 0 /\ SumFunction(Plus(E, p, q)) = 0
    BY <2>2, SumEmpty
  <2> QED
    BY <2>3
<1>2. ASSUME NEW n \in Nat, n \in S PROVE n + 1 \in S
  <2> SUFFICES ASSUME NEW E \in SUBSET D, Cardinality(E) = n + 1,
                      NEW p \in [E -> Int], NEW q \in [E -> Int]
               PROVE  SumFunction(Plus(E, p, q)) = SumFunction(p) + SumFunction(q)
      OBVIOUS
  <2>1. IsFiniteSet(E)
    BY FS_Subset
  <2>2. PICK x \in E : TRUE
    BY FS_EmptySet
  <2> DEFINE U == E \ {x}
             pu == Without(p, x)
             qu == Without(q, x)
  <2>3. IsFiniteSet(U) /\ Cardinality(U) = n /\ U \in SUBSET D
    BY <2>1, OneRemoved
  <2>4. /\ pu \in [U -> Int] /\ pu = [y \in U |-> p[y]]
        /\ qu \in [U -> Int] /\ qu = [y \in U |-> q[y]]
    BY DEF Without
  <2>5. SumFunction(Plus(U, pu, qu)) = SumFunction(pu) + SumFunction(qu)
    <3> HIDE DEF U, pu, qu, Plus
    <3> QED
      BY <1>2, <2>3, <2>4
  <2>6. /\ SumFunction(p) = p[x] + SumFunction(pu) /\ SumFunction(q) = q[x] + SumFunction(qu)
        /\ p[x] \in Int /\ q[x] \in Int
        /\ SumFunction(pu) \in Int /\ SumFunction(qu) \in Int
    BY <2>1, SumRemove
  <2>7. SumFunction(Plus(E, p, q)) = p[x] + q[x] + SumFunction(Plus(U, pu, qu))
    <3>1. Plus(E, p, q) \in [E -> Int] /\ Plus(E, p, q)[x] = p[x] + q[x]
      OBVIOUS
    <3>2. Plus(U, pu, qu) = Without(Plus(E, p, q), x)
      <4>1. Without(Plus(E, p, q), x) = [y \in U |-> p[y] + q[y]]
        BY DEF Without
      <4>2. \A y \in U : pu[y] = p[y] /\ qu[y] = q[y]
        BY <2>4
      <4> HIDE DEF pu, qu, U
      <4> QED
        BY <4>1, <4>2
    <3> HIDE DEF Plus, pu, qu, U
    <3> QED
      BY <2>1, <3>1, <3>2, SumRemove
  <2> HIDE DEF U, pu, qu, Plus
  <2> QED
    BY <2>5, <2>6, <2>7
<1>3. Nat \subseteq S
  <2> HIDE DEF S
  <2> QED
    BY <1>1, <1>2, SetInduction
<1>4. Cardinality(D) \in S
  BY <1>3, FS_CardinalityType
<1> QED
  BY <1>4

LEMMA SumZero ==
  ASSUME NEW D, IsFiniteSet(D), NEW f \in [D -> Int], \A x \in D : f[x] = 0
  PROVE  SumFunction(f) = 0
<1>1. [x \in D |-> f[x] + f[x]] = f
  OBVIOUS
<1>2. SumFunction(f) = SumFunction(f) + SumFunction(f)
  BY <1>1, SumPlus
<1> QED
  BY <1>2, SumInt

(* Sums over the places of a sequence.                                      *)
LEMMA SumMore ==
  ASSUME NEW n \in Nat, NEW f \in [1 .. n + 1 -> Int]
  PROVE  SumFunction(f) = f[n + 1] + SumFunction([i \in 1 .. n |-> f[i]])
<1>1. IsFiniteSet(1 .. n + 1)
  BY FS_Interval
<1>2. (1 .. n + 1) \ {n + 1} = 1 .. n /\ n + 1 \in 1 .. n + 1
  OBVIOUS
<1>3. Without(f, n + 1) = [i \in 1 .. n |-> f[i]]
  BY <1>2 DEF Without
<1>4. SumFunction(f) = f[n + 1] + SumFunction(Without(f, n + 1))
  BY <1>1, <1>2, SumRemove
<1> QED
  BY <1>3, <1>4

(* Zeros at the front do not matter.                                        *)
LEMMA SumDrop ==
  ASSUME NEW n \in Nat, NEW k \in 0 .. n, NEW f \in [1 .. n -> Int],
         \A i \in 1 .. k : f[i] = 0
  PROVE  SumFunction(f) = SumFunction([i \in 1 .. n - k |-> f[i + k]])
<1> DEFINE Front(j, g) == \A i \in 1 .. j : g[i] = 0
           Rest(m, j, g) == [i \in 1 .. m - j |-> g[i + j]]
           S == {m \in Nat : \A j \in 0 .. m, g \in [1 .. m -> Int] :
                   Front(j, g) => SumFunction(g) = SumFunction(Rest(m, j, g))}
<1>1. 0 \in S
  <2> SUFFICES ASSUME NEW j \in 0 .. 0, NEW g \in [1 .. 0 -> Int]
               PROVE  SumFunction(g) = SumFunction(Rest(0, j, g))
      OBVIOUS
  <2>1. g \in [{} -> Int] /\ Rest(0, j, g) \in [{} -> Int]
    OBVIOUS
  <2> HIDE DEF Rest
  <2> QED
    BY <2>1, SumEmpty
<1>2. ASSUME NEW m \in Nat, m \in S PROVE m + 1 \in S
  <2> SUFFICES ASSUME NEW j \in 0 .. m + 1, NEW g \in [1 .. m + 1 -> Int],
                      Front(j, g)
               PROVE  SumFunction(g) = SumFunction(Rest(m + 1, j, g))
      OBVIOUS
  <2> DEFINE h == [i \in 1 .. m |-> g[i]]
  <2>1. h \in [1 .. m -> Int] /\ g[m + 1] \in Int
    BY SMTT(30)
  <2>2. SumFunction(g) = g[m + 1] + SumFunction(h)
    BY SumMore
  <2>3. CASE j \in 0 .. m
    <3>1. Front(j, h)
      BY <2>3
    <3>2. SumFunction(h) = SumFunction(Rest(m, j, h))
      <4> HIDE DEF h, Front, Rest
      <4> QED
        BY <1>2, <2>1, <2>3, <3>1
    <3> DEFINE r == Rest(m + 1, j, g)
    <3>3. PICK d \in Nat : d = m - j
      BY <2>3
    <3>4. /\ m + 1 - j = d + 1 /\ d + 1 + j = m + 1
          /\ \A i \in 1 .. d : i + j \in 1 .. m /\ i \in 1 .. d + 1
      BY <2>3, <3>3
    <3>5. r \in [1 .. d + 1 -> Int] /\ r[d + 1] = g[m + 1]
      <4>1. r = [i \in 1 .. d + 1 |-> g[i + j]]
        BY <3>4
      <4>2. \A i \in 1 .. d + 1 : i + j \in 1 .. m + 1
        BY <2>3, <3>3
      <4>3. d + 1 \in 1 .. d + 1
        OBVIOUS
      <4> HIDE DEF r
      <4>4. r \in [1 .. d + 1 -> Int]
        BY <4>1, <4>2
      <4>5. r[d + 1] = g[d + 1 + j]
        BY <4>1, <4>3
      <4> QED
        BY <3>4, <4>4, <4>5
    <3>6. Rest(m, j, h) = [i \in 1 .. d |-> r[i]]
      <4>1. Rest(m, j, h) = [i \in 1 .. d |-> h[i + j]]
        BY <3>3
      <4>2. \A i \in 1 .. d : h[i + j] = r[i]
        BY <3>4
      <4> HIDE DEF Rest, h, r
      <4> QED
        BY <4>1, <4>2
    <3> HIDE DEF r, h, Rest
    <3>7. SumFunction(r) = r[d + 1] + SumFunction([i \in 1 .. d |-> r[i]])
      BY <3>5, SumMore
    <3>8. SumFunction(r) = SumFunction(g)
      BY <2>2, <3>2, <3>5, <3>6, <3>7
    <3> QED
      BY <3>8 DEF r
  <2>4. CASE j = m + 1
    <3>1. \A i \in 1 .. m + 1 : g[i] = 0
      BY <2>4
    <3>2. SumFunction(g) = 0
      <4>1. IsFiniteSet(1 .. m + 1)
        BY FS_Interval
      <4> QED
        BY <3>1, <4>1, SumZero
    <3>3. Rest(m + 1, j, g) \in [{} -> Int]
      BY <2>4
    <3> HIDE DEF Rest
    <3> QED
      BY <3>2, <3>3, SumEmpty
  <2> QED
    BY <2>3, <2>4
<1>3. Nat \subseteq S
  <2> HIDE DEF S
  <2> QED
    BY <1>1, <1>2, SetInduction
<1>4. n \in S /\ Front(k, f)
  BY <1>3
<1> QED
  BY <1>4

-------------------------------------------------------------------------------
(* A function on the numbers is defined by its value at 0 and a step.        *)
IsRecursion(f, T, base, step) ==
  /\ f \in [Nat -> T] /\ f[0] = base
  /\ \A n \in Nat : f[n + 1] = step[<<n, f[n]>>]

(* Such a function exists, whatever the base and the step.                   *)
LEMMA NatRecursion ==
  ASSUME NEW T, NEW base \in T, NEW step \in [Nat \X T -> T]
  PROVE  \E f : IsRecursion(f, T, base, step)
<1> DEFINE Upto(f, n) ==
             /\ f \in [0 .. n -> T] /\ f[0] = base
             /\ \A i \in 0 .. n : i # n => f[i + 1] = step[<<i, f[i]>>]
           S == {n \in Nat : \E f : Upto(f, n)}
           A == {k \in Nat : \A m \in Nat, n \in Nat : k <= m /\ k <= n =>
                   \A f, h : Upto(f, m) /\ Upto(h, n) => f[k] = h[k]}
<1>1. 0 \in S
  <2>1. Upto([i \in 0 .. 0 |-> base], 0)
    OBVIOUS
  <2> QED
    BY <2>1
<1>2. ASSUME NEW n \in Nat, n \in S PROVE n + 1 \in S
  <2>1. PICK f : Upto(f, n)
    BY <1>2
  <2> DEFINE h == [i \in 0 .. n + 1 |-> IF i = n + 1 THEN step[<<n, f[n]>>] ELSE f[i]]
  <2>2. f[n] \in T /\ step[<<n, f[n]>>] \in T
    BY <2>1
  <2>3. h \in [0 .. n + 1 -> T] /\ h[0] = base
    BY <2>1, <2>2
  <2>4. ASSUME NEW i \in 0 .. n + 1, i # n + 1 PROVE h[i + 1] = step[<<i, h[i]>>]
    <3>1. CASE i = n
      <4>1. h[n + 1] = step[<<n, f[n]>>] /\ h[n] = f[n]
        OBVIOUS
      <4> HIDE DEF h, S
      <4> QED
        BY <3>1, <4>1
    <3>2. CASE i # n
      BY <2>1, <2>4, <3>2
    <3> QED
      BY <3>1, <3>2
  <2>5. Upto(h, n + 1)
    BY <2>3, <2>4
  <2> HIDE DEF h, Upto
  <2> QED
    BY <2>5
<1>3. Nat \subseteq S
  <2> HIDE DEF S
  <2> QED
    BY <1>1, <1>2, SetInduction
<1>4. 0 \in A
  OBVIOUS
<1>5. ASSUME NEW k \in Nat, k \in A PROVE k + 1 \in A
  <2> SUFFICES ASSUME NEW m \in Nat, NEW n \in Nat, k + 1 <= m, k + 1 <= n,
                      NEW f, NEW h, Upto(f, m), Upto(h, n)
               PROVE  f[k + 1] = h[k + 1]
    OBVIOUS
  <2>1. f[k] = h[k]
    <3> HIDE DEF Upto
    <3> QED
      BY <1>5
  <2>2. k \in 0 .. m /\ k # m /\ k \in 0 .. n /\ k # n
    OBVIOUS
  <2> QED
    BY <2>1, <2>2
<1>6. Nat \subseteq A
  <2> HIDE DEF A
  <2> QED
    BY <1>4, <1>5, SetInduction
<1> DEFINE F(n) == CHOOSE f : Upto(f, n)
           r == [n \in Nat |-> F(n)[n]]
<1>7. \A n \in Nat : Upto(F(n), n)
  <2> HIDE DEF Upto
  <2> QED
    BY <1>3
<1>8. r \in [Nat -> T]
  <2> HIDE DEF F
  <2> QED
    BY <1>7
<1>9. r[0] = base
  <2> HIDE DEF F
  <2> QED
    BY <1>7
<1>10. ASSUME NEW n \in Nat PROVE r[n + 1] = step[<<n, r[n]>>]
  <2> HIDE DEF F
  <2>1. Upto(F(n), n) /\ Upto(F(n + 1), n + 1)
    BY <1>7
  <2>2. F(n)[n] = F(n + 1)[n]
    <3> HIDE DEF Upto
    <3> n + 1 \in Nat /\ n <= n /\ n <= n + 1
      OBVIOUS
    <3> QED
      BY <1>6, <2>1
  <2>3. F(n + 1)[n + 1] = step[<<n, F(n + 1)[n]>>]
    BY <2>1
  <2> QED
    BY <2>2, <2>3
<1> HIDE DEF r
<1> QED
  BY <1>8, <1>9, <1>10 DEF IsRecursion

-------------------------------------------------------------------------------
(* The order of a finite set.                                                *)
IsOrder(S, before) ==
  /\ \A x \in S : <<x, x>> \notin before
  /\ \A x \in S, y \in S, z \in S :
       <<x, y>> \in before /\ <<y, z>> \in before => <<x, z>> \in before
  /\ \A x \in S, y \in S : x = y \/ <<x, y>> \in before \/ <<y, x>> \in before

(* What is before an element, and how many elements are.                     *)
Before(S, before, x) == {y \in S : <<y, x>> \in before}
Rank(S, before) == [x \in S |-> Cardinality(Before(S, before, x))]

(* The rank is below the number of elements and grows with the order.        *)
LEMMA RankRises ==
  ASSUME NEW S, IsFiniteSet(S), NEW before, IsOrder(S, before),
         NEW x \in S
  PROVE  /\ Rank(S, before)[x] \in 0 .. Cardinality(S) - 1
         /\ \A y \in S : <<x, y>> \in before => Rank(S, before)[x] < Rank(S, before)[y]
<1>1. IsFiniteSet(Before(S, before, x)) /\ Cardinality(Before(S, before, x)) \in Nat
  BY FS_Subset, FS_CardinalityType DEF Before
<1>2. x \notin Before(S, before, x)
  BY DEF Before, IsOrder
<1>3. /\ IsFiniteSet(Before(S, before, x) \union {x})
      /\ Cardinality(Before(S, before, x) \union {x}) = Cardinality(Before(S, before, x)) + 1
  BY <1>1, <1>2, FS_AddElement
<1>4. Before(S, before, x) \union {x} \subseteq S
  BY DEF Before
<1>5. Cardinality(Before(S, before, x) \union {x}) <= Cardinality(S)
  BY <1>4, FS_Subset
<1>6. Cardinality(S) \in Nat
  BY FS_CardinalityType
<1>7. ASSUME NEW y \in S, <<x, y>> \in before
      PROVE  Cardinality(Before(S, before, x)) < Cardinality(Before(S, before, y))
  <2>1. Before(S, before, x) \union {x} \subseteq Before(S, before, y)
    BY <1>7 DEF Before, IsOrder
  <2>2. IsFiniteSet(Before(S, before, y)) /\ Cardinality(Before(S, before, y)) \in Nat
    BY FS_Subset, FS_CardinalityType DEF Before
  <2>3. Cardinality(Before(S, before, x) \union {x}) <= Cardinality(Before(S, before, y))
    BY <2>1, <2>2, FS_Subset
  <2> QED
    BY <1>1, <1>3, <2>2, <2>3
<1>8. Cardinality(Before(S, before, x)) \in 0 .. Cardinality(S) - 1
  BY <1>1, <1>3, <1>5, <1>6
<1> QED
  BY <1>7, <1>8 DEF Rank

(* Every place below the number of elements is the rank of one of them.      *)
LEMMA RankOnto ==
  ASSUME NEW S, IsFiniteSet(S), NEW before, IsOrder(S, before)
  PROVE  /\ \A x \in S, y \in S : Rank(S, before)[x] = Rank(S, before)[y] => x = y
         /\ \A k \in 0 .. Cardinality(S) - 1 : \E x \in S : Rank(S, before)[x] = k
<1> DEFINE r == Rank(S, before)
           n == Cardinality(S)
<1>1. n \in Nat
  BY FS_CardinalityType
<1>2. \A x \in S : /\ r[x] \in 0 .. n - 1
                   /\ \A y \in S : <<x, y>> \in before => r[x] < r[y]
  BY RankRises
<1>3. \A x \in S, y \in S : r[x] = r[y] => x = y
  <2> HIDE DEF r, n
  <2> SUFFICES ASSUME NEW x \in S, NEW y \in S, r[x] = r[y], x # y PROVE FALSE
    OBVIOUS
  <2>1. <<x, y>> \in before \/ <<y, x>> \in before
    BY DEF IsOrder
  <2>2. r[x] \in Int /\ r[y] \in Int
    BY <1>2
  <2> QED
    BY <1>2, <2>1, <2>2
<1>4. r \in [S -> 0 .. n - 1]
  BY <1>2 DEF Rank
<1>5. IsFiniteSet(0 .. n - 1) /\ Cardinality(0 .. n - 1) = n
  <2> HIDE DEF n
  <2>1. n - 1 \in Int /\ (0 > n - 1 <=> n = 0) /\ (n - 1) - 0 + 1 = n
    BY <1>1
  <2> QED
    BY <2>1, FS_Interval
<1>6. r \in Injection(S, 0 .. n - 1)
  <2> HIDE DEF r, n
  <2> QED
    BY <1>3, <1>4 DEF Injection, IsInjective
<1>7. r \in Surjection(S, 0 .. n - 1)
  <2> HIDE DEF r
  <2> QED
    BY <1>5, <1>6, FS_Injection
<1>8. \A k \in 0 .. n - 1 : \E x \in S : r[x] = k
  <2> HIDE DEF r, n
  <2> QED
    BY <1>7 DEF Surjection
<1> QED
  BY <1>3, <1>8

-------------------------------------------------------------------------------
(* There is a fold over every finite set, however elements are picked.       *)
PickStep(f, s, base, step, pick) ==
  IF s = {} THEN base ELSE step[<<pick[s], f[s \ {pick[s]}]>>]

(* A fold of step over the subsets of U.                                     *)
IsPickFold(f, U, T, base, step, pick) ==
  /\ f \in [SUBSET U -> T]
  /\ \A s \in SUBSET U : f[s] = PickStep(f, s, base, step, pick)

(* Such a fold exists, whatever the elements picked.                         *)
LEMMA PickFoldExists ==
  ASSUME NEW U, IsFiniteSet(U), NEW T, NEW base \in T,
         NEW step \in [U \X T -> T],
         NEW pick, \A s \in SUBSET U : s # {} => pick[s] \in s
  PROVE  \E f : IsPickFold(f, U, T, base, step, pick)
<1> DEFINE Upto(f, n) ==
             /\ f \in [AtMost(U, n) -> T]
             /\ \A s \in AtMost(U, n) : f[s] = PickStep(f, s, base, step, pick)
           S == {n \in Nat : \E f : Upto(f, n)}
<1>1. 0 \in S
  <2> DEFINE f == [s \in AtMost(U, 0) |-> base]
  <2>1. Upto(f, 0)
    BY NoneAtMost DEF PickStep
  <2> QED
    BY <2>1
<1>2. ASSUME NEW n \in Nat, n \in S PROVE n + 1 \in S
  <2>1. PICK f : Upto(f, n)
    BY <1>2
  <2> HIDE DEF Upto
  <2> DEFINE g == [s \in AtMost(U, n + 1) |-> PickStep(f, s, base, step, pick)]
  <2>2. \A s \in AtMost(U, n) : s \in AtMost(U, n + 1)
    <3> TAKE s \in AtMost(U, n)
    <3>1. s \in SUBSET U /\ Cardinality(s) <= n
      BY DEF AtMost
    <3>2. Cardinality(s) \in Nat
      BY <3>1, FS_Subset, FS_CardinalityType
    <3> QED
      BY <3>1, <3>2 DEF AtMost
  <2>3. \A s \in AtMost(U, n) : g[s] = f[s] /\ f[s] \in T
    BY <2>1, <2>2 DEF Upto
  <2>4. ASSUME NEW s \in AtMost(U, n + 1)
        PROVE  /\ PickStep(g, s, base, step, pick) = PickStep(f, s, base, step, pick)
               /\ PickStep(f, s, base, step, pick) \in T
    <3>1. CASE s = {}
      BY <3>1 DEF PickStep
    <3>2. CASE s # {}
      <4>1. pick[s] \in s /\ s \in SUBSET U
        BY <3>2 DEF AtMost
      <4>2. s \ {pick[s]} \in AtMost(U, n)
        BY <4>1, OneLess
      <4> HIDE DEF g
      <4>3. g[s \ {pick[s]}] = f[s \ {pick[s]}] /\ f[s \ {pick[s]}] \in T
        BY <4>2, <2>3
      <4>4. step[<<pick[s], f[s \ {pick[s]}]>>] \in T
        BY <4>1, <4>3
      <4> QED
        BY <3>2, <4>3, <4>4 DEF PickStep
    <3> QED
      BY <3>1, <3>2
  <2>5. Upto(g, n + 1)
    BY <2>4 DEF Upto
  <2> HIDE DEF g
  <2> QED
    BY <2>5
<1> HIDE DEF S, Upto
<1>3. Nat \subseteq S
  BY <1>1, <1>2, SetInduction
<1>4. Cardinality(U) \in S /\ AtMost(U, Cardinality(U)) = SUBSET U
  BY <1>3, AllAtMost
<1>5. PICK f : Upto(f, Cardinality(U))
  BY <1>4 DEF S
<1>6. IsPickFold(f, U, T, base, step, pick)
  BY <1>4, <1>5 DEF Upto, IsPickFold
<1> QED
  BY <1>6

-------------------------------------------------------------------------------
(* The greatest of some of the numbers 1 .. n is one of them.                *)
LEMMA MaxIn ==
  ASSUME NEW n \in Nat
  PROVE  /\ \A s \in SUBSET (1 .. n) : s # {} => Max(s) \in s
         /\ \A k \in 1 .. n : Max(1 .. k) = k
<1> DEFINE S == {m \in Nat : \A s \in SUBSET (1 .. m) : s # {} =>
                   \E x \in s : \A y \in s : x >= y}
<1>1. 0 \in S
  <2>1. 1 .. 0 = {}
    OBVIOUS
  <2> QED
    BY <2>1
<1>2. ASSUME NEW m \in Nat, m \in S PROVE m + 1 \in S
  <2> SUFFICES ASSUME NEW s \in SUBSET (1 .. m + 1), s # {}
               PROVE  \E x \in s : \A y \in s : x >= y
    OBVIOUS
  <2>1. CASE m + 1 \in s
    <3>1. \A y \in s : m + 1 >= y
      OBVIOUS
    <3> QED
      BY <2>1, <3>1
  <2>2. CASE m + 1 \notin s
    <3>1. s \in SUBSET (1 .. m)
      BY <2>2
    <3> QED
      BY <1>2, <3>1
  <2> QED
    BY <2>1, <2>2
<1>3. Nat \subseteq S
  <2> HIDE DEF S
  <2> QED
    BY <1>1, <1>2, SetInduction
<1>4. \A s \in SUBSET (1 .. n) : s # {} => \E x \in s : \A y \in s : x >= y
  BY <1>3
<1>5. \A s \in SUBSET (1 .. n) : s # {} => Max(s) \in s /\ \A y \in s : Max(s) >= y
  BY <1>4 DEF Max
<1>6. ASSUME NEW k \in 1 .. n PROVE Max(1 .. k) = k
  <2>1. 1 .. k \in SUBSET (1 .. n) /\ 1 .. k # {} /\ k \in 1 .. k
    OBVIOUS
  <2>2. Max(1 .. k) \in 1 .. k /\ Max(1 .. k) >= k
    BY <1>5, <2>1
  <2> QED
    BY <2>2
<1> QED
  BY <1>5, <1>6

(* A fold that takes the greatest index last runs through the indices in     *)
(* order: this is how SequencesExt folds a sequence from the left.           *)
IsLeftFold(f, n, T, base, step) ==
  /\ f \in [SUBSET (1 .. n) -> T]
  /\ \A s \in SUBSET (1 .. n) :
       f[s] = IF s = {} THEN base ELSE step[<<Max(s), f[s \ {Max(s)}]>>]

(* There is a fold from the left, for any base and step.                     *)
LEMMA LeftFoldExists ==
  ASSUME NEW n \in Nat, NEW T, NEW base \in T, NEW step \in [(1 .. n) \X T -> T]
  PROVE  \E f : IsLeftFold(f, n, T, base, step)
<1> DEFINE pick == [s \in SUBSET (1 .. n) |-> Max(s)]
<1>1. IsFiniteSet(1 .. n)
  BY FS_Interval
<1>2. \A s \in SUBSET (1 .. n) : s # {} => pick[s] \in s
  BY MaxIn
<1>3. \A s \in SUBSET (1 .. n) : pick[s] = Max(s)
  OBVIOUS
<1> HIDE DEF pick
<1>4. PICK f : IsPickFold(f, 1 .. n, T, base, step, pick)
  BY <1>1, <1>2, PickFoldExists
<1>5. ASSUME NEW s \in SUBSET (1 .. n)
      PROVE  f[s] = IF s = {} THEN base ELSE step[<<Max(s), f[s \ {Max(s)}]>>]
  <2>1. f[s] = PickStep(f, s, base, step, pick) /\ pick[s] = Max(s)
    BY <1>3, <1>4 DEF IsPickFold
  <2> QED
    BY <2>1 DEF PickStep
<1>6. f \in [SUBSET (1 .. n) -> T]
  BY <1>4 DEF IsPickFold
<1> QED
  BY <1>5, <1>6 DEF IsLeftFold

(* The indices up to k are those up to k - 1 and k.                          *)
LEMMA UpToEach ==
  ASSUME NEW n \in Nat
  PROVE  /\ 1 .. 0 = {}
         /\ \A k \in 1 .. n : /\ 1 .. k \in SUBSET (1 .. n) /\ 1 .. k # {}
                             /\ Max(1 .. k) = k /\ (1 .. k) \ {k} = 1 .. k - 1
BY MaxIn
===============================================================================
