---------------------------- MODULE BulkSynchronous ----------------------------
(***************************************************************************)
(* What one iteration of a graph algorithm promises, whoever carries it    *)
(* out: first every tile that holds edges is pulled, once, if it is one of *)
(* those that are served at all; then, with no pull still under way, every *)
(* chunk of the vertices is examined, once; then the iteration is declared *)
(* converged exactly if no vertex is left unsettled.  AlgorithmRound is    *)
(* shown to implement this.                                                *)
(***************************************************************************)
EXTENDS Naturals

CONSTANTS Tiles,    \* the tiles of the tile store
          Chunks    \* the pieces the vertices are examined in

VARIABLES served,     \* the tiles that are given to an executor, always the same
          phase,      \* "idle", "pull" or "apply"
          due,        \* tiles that have held edges since the iteration began
          pulled,     \* how often a tile's updates have reached the vertices
          examined,   \* how often a chunk has been examined
          unsettled,  \* chunks with a vertex changed in this iteration
          verdict     \* whether the last iteration was declared converged

vars == <<served, phase, due, pulled, examined, unsettled, verdict>>

Init ==
  /\ served \in SUBSET Tiles
  /\ phase = "idle" /\ verdict = FALSE
  /\ due = {} /\ unsettled = {}
  /\ pulled = [t \in Tiles |-> 0] /\ examined = [c \in Chunks |-> 0]

Begin ==
  /\ phase = "idle" /\ phase' = "pull"
  /\ due' \in SUBSET Tiles
  /\ pulled' = [t \in Tiles |-> 0] /\ examined' = [c \in Chunks |-> 0]
  /\ unsettled' = {}
  /\ UNCHANGED <<served, verdict>>

\* A run of the algorithm starts out as not converged.
Restart ==
  /\ phase = "idle" /\ verdict' = FALSE
  /\ UNCHANGED <<served, phase, due, pulled, examined, unsettled>>

\* Edges may be deleted while the algorithm runs in the lazy mode.
Forget ==
  /\ phase \in {"idle", "pull", "apply"}
  /\ due' \in SUBSET due
  /\ UNCHANGED <<served, phase, pulled, examined, unsettled, verdict>>

\* The results of a batch of tiles reach the vertices.
Pull ==
  /\ phase = "pull"
  /\ \E batch \in SUBSET {t \in served : pulled[t] = 0} :
       pulled' = [t \in Tiles |-> IF t \in batch THEN 1 ELSE pulled[t]]
  /\ \E changed \in SUBSET Chunks : unsettled' = unsettled \union changed
  /\ UNCHANGED <<served, phase, due, examined, verdict>>

Turn ==
  /\ phase = "pull" /\ phase' = "apply"
  /\ \A t \in due \intersect served : pulled[t] = 1
  /\ UNCHANGED <<served, due, pulled, examined, unsettled, verdict>>

Examine ==
  /\ phase = "apply"
  /\ \E c \in Chunks : examined[c] = 0 /\ examined' = [examined EXCEPT ![c] = 1]
  /\ UNCHANGED <<served, phase, due, pulled, unsettled, verdict>>

Decide ==
  /\ phase = "apply" /\ phase' = "idle"
  /\ \A c \in Chunks : examined[c] = 1
  /\ verdict' = (unsettled = {})
  /\ UNCHANGED <<served, due, pulled, examined, unsettled>>

Next == Restart \/ Begin \/ Forget \/ Pull \/ Turn \/ Examine \/ Decide

Spec == Init /\ [][Next]_vars
================================================================================
