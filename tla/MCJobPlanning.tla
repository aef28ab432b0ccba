--------------------------- MODULE MCJobPlanning ---------------------------
EXTENDS JobPlanning, TLC
\* Days of four hours, weeks of two days, and a clock that jumps on the second
\* day: forward over hour 1, back onto hour 1, or never.
Forward == [at |-> 5, jump |-> 1]
Back == [at |-> 6, jump |-> -1]
Never == [at |-> 0, jump |-> 0]
MCZones == {Forward, Back, Never}
MCRules == {
  [times |-> (0 :> 2) @@ (1 :> 1), dates |-> {}, time |-> 0],
  [times |-> (1 :> 1), dates |-> {2}, time |-> 3]}

\* Edits of the calendar are explored where the clock jumps, the dry run where
\* it does not, from the first of the rules on.
VARIABLE part
MCInit ==
  /\ Init /\ part = IF zone = Never THEN "simulating" ELSE "planning"
  /\ \A s \in Schedules : DOMAIN schedules[s].rule.times = {0, 1}
MCNext ==
  /\ UNCHANGED part
  /\ Passing \/ (part = "planning" /\ Planning) \/ (part = "simulating" /\ Simulating)
MCSpec == MCInit /\ [][MCNext]_<<vars, part>>
=============================================================================
