------------------------------ MODULE VertexStore ------------------------------
(***************************************************************************)
(* VertexStore::getTranslatedId: with enable_rewrite_ids every edge reader *)
(* maps the vertex ids of the input to dense ids through one shared table. *)
(* A reader that misses draws an id, tries to install it, and gives the id *)
(* back when another reader was faster.                                    *)
(***************************************************************************)
EXTENDS Integers

CONSTANTS
  Readers,     \* edge readers translating concurrently
  Originals    \* vertex ids of the input, the indices of translations_

ASSUME OriginalsAssumption == Originals # {}

NoId == -1     \* UINT64_MAX

VARIABLES
  current_id,      \* the next id to draw
  translations,    \* id of each original, or NoId
  pc, original,    \* where each reader is, and what it translates
  translated,      \* its local translated_id, at the end its result
  collided         \* history: some reader found its compare-and-swap to fail

vars == <<current_id, translations, pc, original, translated, collided>>

Init ==
  /\ current_id = 0
  /\ translations = [v \in Originals |-> NoId]
  /\ pc = [r \in Readers |-> "idle"]
  /\ original = [r \in Readers |-> CHOOSE v \in Originals : TRUE]
  /\ translated = [r \in Readers |-> NoId]
  /\ collided = FALSE

Go(r, place) == pc' = [pc EXCEPT ![r] = place]

(* The first look at the table. *)
Lookup(r, v) ==
  /\ pc[r] = "idle"
  /\ original' = [original EXCEPT ![r] = v]
  /\ translated' = [translated EXCEPT ![r] = translations[v]]
  /\ Go(r, IF translations[v] # NoId THEN "idle" ELSE "draw")
  /\ UNCHANGED <<current_id, translations, collided>>

DrawStale(r) ==   \* mutant: a load and a store instead of the fetch-and-add
  /\ pc[r] = "draw"
  /\ \E seen \in {current_id - 1, current_id} \cap Nat :
       /\ translated' = [translated EXCEPT ![r] = seen]
       /\ current_id' = seen + 1
  /\ Go(r, "install")
  /\ UNCHANGED <<translations, original, collided>>

(* smp_faa(&current_id_, 1) *)
Draw(r) ==
  /\ pc[r] = "draw"
  /\ translated' = [translated EXCEPT ![r] = current_id]
  /\ current_id' = current_id + 1
  /\ Go(r, "install")
  /\ UNCHANGED <<translations, original, collided>>

Overwrite(r) ==   \* mutant: a store instead of the compare-and-swap
  /\ pc[r] = "install"
  /\ translations' = [translations EXCEPT ![original[r]] = translated[r]]
  /\ Go(r, "idle")
  /\ UNCHANGED <<current_id, original, translated, collided>>

(* smp_cas(&translations_[original], UINT64_MAX, translated_id) *)
Install(r) ==
  /\ pc[r] = "install"
  /\ \/ /\ translations[original[r]] = NoId
        /\ translations' = [translations EXCEPT ![original[r]] = translated[r]]
        /\ Go(r, "idle")
        /\ UNCHANGED collided
     \/ /\ translations[original[r]] # NoId
        /\ collided' = TRUE
        /\ Go(r, "undo")
        /\ UNCHANGED translations
  /\ UNCHANGED <<current_id, original, translated>>

(* smp_faa(&current_id_, -1) *)
Undo(r) ==
  /\ pc[r] = "undo"
  /\ current_id' = current_id - 1
  /\ Go(r, "reread")
  /\ UNCHANGED <<translations, original, translated, collided>>

Reread(r) ==
  /\ pc[r] = "reread"
  /\ translated' = [translated EXCEPT ![r] = translations[original[r]]]
  /\ Go(r, "idle")
  /\ UNCHANGED <<current_id, translations, original, collided>>

Next == \E r \in Readers :
  \/ \E v \in Originals : Lookup(r, v)
  \/ Draw(r) \/ Install(r) \/ Undo(r) \/ Reread(r)

Spec == Init /\ [][Next]_vars
-------------------------------------------------------------------------------
(* Type invariant of the table, the counter and the readers.  That the     *)
(* counter never goes below zero takes counting who has drawn and who has  *)
(* given back, which no property needs.                                    *)
TypeOK ==
  /\ current_id \in Int
  /\ translations \in [Originals -> Int]
  /\ pc \in [Readers -> {"idle", "draw", "install", "undo", "reread"}]
  /\ original \in [Readers -> Originals]
  /\ translated \in [Readers -> Int]
  /\ collided \in BOOLEAN

(* A call that returned has the id of the table: whoever translates an     *)
(* original, before or after a collision, gets the same id.                *)
Agreement ==
  \A r \in Readers :
    pc[r] = "idle" /\ translated[r] # NoId =>
      translated[r] = translations[original[r]]

(* "otherwise create a new mapping and ensure it's unique": two originals  *)
(* never share an id.                                                      *)
Unique ==
  \A v, w \in Originals :
    v # w /\ translations[v] # NoId => translations[v] # translations[w]

(* As long as no two readers collide on an original, ids are unique and    *)
(* below the counter, also the ones drawn but not installed yet.           *)
UniqueUntilCollision ==
  ~collided =>
    /\ Unique
    /\ \A v \in Originals : translations[v] < current_id
    /\ \A r \in Readers : pc[r] = "install" =>
         /\ translated[r] < current_id
         /\ \A v \in Originals : translations[v] # translated[r]
===============================================================================
