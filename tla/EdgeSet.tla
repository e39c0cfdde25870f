-------------------------------- MODULE EdgeSet --------------------------------
(***************************************************************************)
(* What the tile store promises the executors: the set of edges they       *)
(* execute.  An insertion adds its edge and a random deletion takes at     *)
(* most one away.  An edge deleted by value is condemned: it goes at some  *)
(* later time, once for all, even if it is inserted again.  Nothing else   *)
(* changes, compaction in particular.                                      *)
(***************************************************************************)
EXTENDS FiniteSets

CONSTANT Edges

VARIABLES visible, condemned

ESInit == visible = {} /\ condemned = {}

\* edges may become any set between these two.
Between(least, most) == least \subseteq visible' /\ visible' \subseteq most

Insert(e) ==
  /\ Between((visible \union {e}) \ condemned, visible \union {e})
  /\ UNCHANGED condemned
Condemn(e) == condemned' = condemned \union {e} /\ UNCHANGED visible
Forget == Between(visible \ condemned, visible) /\ UNCHANGED condemned
Draw(e) == visible' = visible \ {e} /\ UNCHANGED condemned

ESNext == Forget \/ \E e \in Edges : Insert(e) \/ Condemn(e) \/ Draw(e)
ESSpec == ESInit /\ [][ESNext]_<<visible, condemned>>
================================================================================
