------------------------------ MODULE MCCombining ------------------------------
(* Combining on a small instance: two threads make two calls each, a third one *)
(* makes one call.                                                             *)
EXTENDS Combining, TLC
CONSTANTS t1, t2, t3
TwoTwoOne == t1 :> 2 @@ t2 :> 2 @@ t3 :> 1
===============================================================================
