----------------------------- MODULE MCJobScheduler -----------------------------
(***************************************************************************)
(* Two occurrences: one of two zones that may start early, one of a single *)
(* zone cleaned twice.                                                     *)
(***************************************************************************)
EXTENDS JobScheduler, TLC

CONSTANTS z1, z2, z3, t1, t2, t3

TwoZonesAndOne == <<{z1, z2}, {z3}>>
OnceAndTwice == <<1, 2>>

Own == (z1 :> t1) @@ (z2 :> t2) @@ (z3 :> t3)
Shared == (z1 :> t1) @@ (z2 :> t1) @@ (z3 :> t3)

AllPlans ==
  {[combined |-> {}, target |-> Own], [combined |-> {}, target |-> Shared],
   [combined |-> {1}, target |-> Own]}
==================================================================================
