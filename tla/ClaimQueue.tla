------------------------------ MODULE ClaimQueue ------------------------------
(***************************************************************************)
(* What a ring buffer promises its users, without any of its control       *)
(* variables: a bounded stream of elements.  A producer claims the next    *)
(* stretch of the stream, fills it and makes it ready; consumers take      *)
(* elements in the order in which they were claimed, work on them in place *)
(* and finish them in any order; a stretch is reused only after every      *)
(* element in it, and every element before it, is finished.                *)
(*                                                                         *)
(* Offsets are positions in the unbounded stream, in units of the          *)
(* alignment of the ring buffer.                                           *)
(***************************************************************************)
EXTENDS Integers, Sequences

CONSTANTS
  Size,     \* length of the buffer, in units
  Sizes,    \* sizes of the elements producers ask for, in units
  Direct    \* TRUE when consumers finish a ready element without taking it

VARIABLES
  items,    \* every element claimed so far, in order
  freed     \* everything before this offset may be overwritten

vars == <<items, freed>>

(***************************************************************************)
(* The first offset no element covers; "start" is where the stream began.  *)
(***************************************************************************)
EndOf(its, start) ==
  IF its = <<>> THEN start ELSE its[Len(its)].off + its[Len(its)].size

Taken(i) == items[i].phase \in {"got", "done"}

Init ==
  /\ items = <<>>
  /\ freed \in 0 .. Size - 1

(* The next stretch of sz units, while less than Size units are in use. *)
Claim(sz) ==
  /\ EndOf(items, freed) + sz - freed < Size
  /\ items' = Append(items, [off |-> EndOf(items, freed), size |-> sz,
                             phase |-> "reserved"])
  /\ UNCHANGED freed

Advance(i, from, to) ==
  /\ items[i].phase = from
  /\ items' = [items EXCEPT ![i].phase = to]
  /\ UNCHANGED freed

MakeReady(i) == Advance(i, "reserved", "ready")

(* Consumers receive elements in claim order, each one once. *)
Take(i) ==
  /\ ~Direct
  /\ \A j \in 1 .. i - 1 : Taken(j)
  /\ Advance(i, "ready", "got")

Finish(i) == Advance(i, IF Direct THEN "ready" ELSE "got", "done")

(* Space comes back in stream order, and only when nobody uses it. *)
Reclaim(f) ==
  /\ f > freed
  /\ f <= EndOf(items, freed)
  /\ \A i \in DOMAIN items :
       items[i].off < f => /\ items[i].phase = "done"
                           /\ items[i].off + items[i].size <= f
  /\ freed' = f
  /\ UNCHANGED items

Next ==
  \/ \E sz \in Sizes : Claim(sz)
  \/ \E i \in DOMAIN items : MakeReady(i) \/ Take(i) \/ Finish(i)
  \/ \E f \in freed + 1 .. EndOf(items, freed) : Reclaim(f)

Spec == Init /\ [][Next]_vars
===============================================================================
