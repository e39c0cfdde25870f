------------------------------- MODULE VertexScan -------------------------------
(***************************************************************************)
(* The threads that go over all vertices at the end of an iteration: the   *)
(* ConvergenceCheckers of an asynchronous algorithm, the ApplyExecutors of *)
(* a synchronous one.  They draw chunks of STEP_SIZE vertices from a       *)
(* shared counter, meet the main thread at a barrier, and one of them      *)
(* resets the counter for the next iteration.                              *)
(*                                                                         *)
(* The scans try to go 64 vertices, eight bytes of a bit array, at a time. *)
(* The arrays are of bytes, so a test of one element is a test of eight    *)
(* vertices, whatever type it is converted to before it is compared.       *)
(* TileManager::isActive scans in the same way.                            *)
(***************************************************************************)
EXTENDS Integers, FiniteSets, FiniteSetsExt

CONSTANTS
  Threads,    \* algorithm_appliers_count of them
  Kinds,      \* of "check", "apply" (USE_CHANGED) and "apply all"
  Counts,     \* what count_vertices may be, multiples of 64
  STEP_SIZE,
  Markable,   \* the vertices whose bits may be set
  MaxRounds   \* bound: iterations

ASSUME ScanAssumption ==
  /\ Kinds \subseteq {"check", "apply", "apply all"} /\ Markable \subseteq Nat
  /\ Counts \cup {STEP_SIZE} \subseteq Nat \ {0}
  /\ \A n \in Counts \cup {STEP_SIZE} : n % 64 = 0
  /\ IsFiniteSet(Threads) /\ Threads # {} /\ MaxRounds \in Nat

Main == "main"   \* the thread of executeAlgorithm
ASSUME MainAssumption == Main \notin Threads

VARIABLES
  kind, count,      \* never change
  active,   \* set bits of active_next for checkers, of changed for appliers
  stray,    \* the bit behind the last: memory after the array
  moving,    \* vertices for which apply returns false
  counter,  \* *current_tile_id_, in vertices
  thread,   \* of each thread: its place, next_begin_id and converged_
  applied,  \* how often apply was called for a vertex
  serial,   \* who got PTHREAD_BARRIER_SERIAL_THREAD
  verdict,  \* what checkConvergence returned, or "none"
  round     \* iterations begun

bits == <<kind, count, active, stray, moving>>
scanVars == <<bits, counter, thread, applied, serial, verdict, round>>

Fresh == [t \in Threads |-> [at |-> "draw", begin |-> 0, converged |-> TRUE]]

(* Set bits, the bit behind the last vertex, which only checkers read, and *)
(* which of the set vertices apply will move.                              *)
Inputs ==
  LET when(yes) == IF yes THEN BOOLEAN ELSE {FALSE}
  IN  {[active |-> a, stray |-> s, moving |-> IF m THEN a ELSE {}] :
         a \in SUBSET {v \in Markable : v < count},
         s \in when(kind = "check"), m \in when(kind # "check")}

ScanInit ==
  /\ kind \in Kinds /\ count \in Counts
  /\ \E in \in Inputs : active = in.active /\ stray = in.stray /\ moving = in.moving
  /\ counter = 0 /\ thread = Fresh
  /\ applied = [v \in Markable |-> 0]
  /\ serial = Main /\ verdict = "none" /\ round = 1
-------------------------------------------------------------------------------
(* Scans. *)

ByteOf(b, set) == set \intersect (8 * b .. 8 * b + 7)
WordOf(b, set) == set \intersect (8 * b .. 8 * b + 63)

(* Bytes the loop over words tests from first on: one of eight, while more *)
(* than threshold bytes are left up to end.                                *)
Tested(first, end, threshold) ==
  {b \in first .. end : (b - first) % 8 = 0 /\ end - b > threshold}

(* Where the loop over words stops: at a hit, or when few bytes are left.  *)
StopAt(first, end, threshold, set) ==
  LET tested == Tested(first, end, threshold)
      hits == {b \in tested : ByteOf(b, set) # {}}
  IN  IF hits # {} THEN Min(hits) ELSE first + 8 * Cardinality(tested)

SearchUnscaled(begin, end, set) ==   \* mutant: from the byte behind it
  set \intersect (8 * StopAt(begin \div 8, end \div 8, 64, set) + 8 .. end) # {}

(* What a search from begin to end finds: it goes on bit by bit from the   *)
(* byte where the loop over words has stopped.                             *)
Search(begin, end, set) ==
  set \intersect (8 * StopAt(begin \div 8, end \div 8, 64, set) .. end) # {}

(* The vertices of a chunk that apply is called for.                       *)
Applicable(begin, end, set) ==
  LET first == begin \div 8
      tested == Tested(first, end \div 8, 8)
  IN  (UNION {WordOf(b, set) : b \in {c \in tested : ByteOf(c, set) # {}}})
        \cup (set \intersect (8 * (first + 8 * Cardinality(tested)) .. end - 1))

(* isActive of a tile whose sources are the first n vertices. *)
TileActive(n) == Search(0, n - 1, active)
-------------------------------------------------------------------------------
(* Threads. *)

Place(t, place) == thread' = [thread EXCEPT ![t].at = place]

DrawUpTo(t, step) ==
  /\ thread[t].at = "draw"
  /\ counter' = counter + step
  /\ thread' = [thread EXCEPT ![t].begin = counter, ![t].at = "scan"]
  /\ UNCHANGED <<bits, applied, serial, verdict, round>>

DrawShort(t) ==   \* mutant: chunks overlap
  DrawUpTo(t, STEP_SIZE - 64)

(* smp_faa(current_tile_id_, STEP_SIZE) *)
Draw(t) == DrawUpTo(t, STEP_SIZE)

Chunk(t) == Min({thread[t].begin + STEP_SIZE, count})
Looping(begin) == IF begin < count THEN "draw" ELSE "barrier"

(* The bits a checker sees: a bit of the next chunk, and the stray one.    *)
Visible == active \cup IF stray THEN {count} ELSE {}

(* Once it has found something, a checker cuts off the others.             *)
Check(t) ==
  /\ thread[t].at = "scan" /\ kind = "check"
  /\ LET found == Search(thread[t].begin, Chunk(t), Visible)
         converged == thread[t].converged /\ ~found
     IN  thread' = [thread EXCEPT ![t].converged = converged,
           ![t].at = IF converged THEN Looping(thread[t].begin) ELSE "cut"]
  /\ UNCHANGED <<bits, counter, applied, serial, verdict, round>>

(* The loop around smp_cas ends with count_vertices in the counter.        *)
Cut(t) ==
  /\ thread[t].at = "cut"
  /\ counter' = count
  /\ Place(t, Looping(thread[t].begin))
  /\ UNCHANGED <<bits, applied, serial, verdict, round>>

Apply(t) ==
  /\ thread[t].at = "scan" /\ kind # "check"
  /\ LET all == {v \in Markable : v < count}
         chosen == IF kind = "apply" THEN Applicable(thread[t].begin, Chunk(t), active)
                   ELSE all \intersect (thread[t].begin .. Chunk(t) - 1)
     IN  /\ applied' = [v \in Markable |-> applied[v] + IF v \in chosen THEN 1 ELSE 0]
         /\ thread' = [thread EXCEPT
              ![t].converged = @ /\ chosen \intersect moving = {},
              ![t].at = Looping(thread[t].begin)]
  /\ UNCHANGED <<bits, counter, serial, verdict, round>>

(* The second barrier, which the main thread has reached.                  *)
Meet ==
  /\ \A t \in Threads : thread[t].at = "barrier"
  /\ \E s \in Threads \cup {Main} :
       /\ serial' = s
       /\ thread' = [t \in Threads |->
            [thread[t] EXCEPT !.at = IF t = s THEN "reset" ELSE "wait"]]
       /\ counter' = IF s = Main THEN 0 ELSE counter
  /\ UNCHANGED <<bits, applied, verdict, round>>

Reset(t) ==
  /\ thread[t].at = "reset"
  /\ counter' = 0
  /\ Place(t, "wait")
  /\ UNCHANGED <<bits, applied, serial, verdict, round>>

Over == \A t \in Threads : thread[t].at \in {"reset", "wait"}

(* checkConvergence *)
Judge ==
  /\ Over /\ verdict = "none"
  /\ verdict' = IF \A t \in Threads : thread[t].converged THEN "converged" ELSE "active"
  /\ UNCHANGED <<bits, counter, thread, applied, serial, round>>

NextRoundWith(threads) ==
  /\ \A t \in Threads : thread[t].at = "wait"
  /\ verdict # "none" /\ round < MaxRounds
  /\ \E in \in Inputs : active' = in.active /\ stray' = in.stray /\ moving' = in.moving
  /\ thread' = threads /\ applied' = [v \in Markable |-> 0]
  /\ verdict' = "none" /\ round' = round + 1
  /\ UNCHANGED <<kind, count, counter, serial>>

NextRoundStale ==   \* mutant: converged_ is not set to true again
  NextRoundWith([t \in Threads |-> [Fresh[t] EXCEPT !.converged = thread[t].converged]])

(* The first barrier of the next iteration, for which new bits are set.    *)
NextRound == NextRoundWith(Fresh)

(* After the last round all wait; any other stop is a deadlock. *)
End ==
  /\ round = MaxRounds /\ verdict # "none" /\ \A t \in Threads : thread[t].at = "wait"
  /\ UNCHANGED scanVars

ThreadStep(t) == Draw(t) \/ Check(t) \/ Cut(t) \/ Apply(t) \/ Reset(t)

ScanNext == (\E t \in Threads : ThreadStep(t)) \/ Meet \/ Judge \/ NextRound \/ End

ScanSpec == ScanInit /\ [][ScanNext]_scanVars
-------------------------------------------------------------------------------
Judged == verdict # "none"

(* No iteration is added and no vertex applied for nothing: the verdict    *)
(* "not converged" has a reason, if only the bit behind the last vertex.   *)
NoFalseAlarm ==
  Judged =>
    /\ verdict = "active" =>
         IF kind = "check" THEN active # {} \/ stray ELSE moving # {}
    /\ kind = "apply" => \A v \in Markable : applied[v] > 0 => v \in active

(* However the threads share out the chunks, and in every iteration, no    *)
(* vertex is applied twice, and an algorithm that does not track changes   *)
(* applies them all.                                                       *)
AppliedOnce ==
  /\ \A v \in Markable : applied[v] <= 1
  /\ Judged /\ kind = "apply all" =>
       \A v \in Markable : v < count => applied[v] = 1

(* Scans too short for a step of eight bytes, 512 vertices of a checker or *)
(* a tile and 64 of an applier, overlook nothing: a checker that returns   *)
(* "converged" has seen no active vertex, and all that changed is applied. *)
ExactWhenSmall ==
  /\ Judged /\ kind = "check" /\ count <= 512 => (active # {} => verdict = "active")
  /\ Judged /\ kind = "apply" /\ count <= 64 =>
       /\ \A v \in active : applied[v] = 1
       /\ (verdict = "converged" <=> moving = {})
  /\ count <= 512 => (TileActive(count) <=> active # {})

===============================================================================
