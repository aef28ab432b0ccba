------------------------- MODULE MCPhysicalSessions -------------------------
EXTENDS PhysicalSessions
\* Cleanings and charging share nothing but Home Assistant's life: a behaviour
\* explores one of them.
VARIABLE part
MCInit == SessionsInit /\ part \in {"cleaning", "charging"}
MCNext ==
  /\ UNCHANGED part
  /\ \/ part = "cleaning" /\ Cleaning
     \/ part = "charging" /\ Charging
     \/ Lifetime
MCSpec == MCInit /\ [][MCNext]_<<sessionVars, part>> /\ Fairness
=============================================================================
