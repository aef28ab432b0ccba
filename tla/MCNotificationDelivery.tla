------------------------ MODULE MCNotificationDelivery ------------------------
EXTENDS NotificationDelivery, TLC
MCSymmetry == Permutations(Tasks)
\* A chat reached by two routes, one of them for problems only.
Route(name, filter) == [name |-> name, endpoint |-> "chat", filter |-> filter, telegram |-> TRUE]
MCRoutes == <<Route("r1", "attention"), Route("r2", "all")>>
LifecyclePolicy ==
  [prewarning |-> "blockers", wait |-> "immediate", reminders |-> 1, start |-> "always",
   finish |-> "always", forecast |-> "off"]
ForecastPolicy ==
  [prewarning |-> "off", wait |-> "immediate", reminders |-> 0, start |-> "off",
   finish |-> "off", forecast |-> "all"]
MCPolicies == {LifecyclePolicy, ForecastPolicy}
\* A prewarning whatever the readiness, and forecasts: with these the answer to
\* RecoveryFollowsProblem is another (README, section 5).
PrewarnedPolicies == {[ForecastPolicy EXCEPT !.prewarning = "always"]}
MCReadiness == {"ready", "attention", "blocked"}
MCLimits ==
  [p \in Policies |-> IF p = LifecyclePolicy
     THEN [time |-> 2, flips |-> 0, waits |-> 1, mishaps |-> 1, tasks |-> 2,
           readiness |-> {"ready", "attention"}]
     ELSE [time |-> 3, flips |-> 1, waits |-> 1, mishaps |-> 1, tasks |-> 1,
           readiness |-> MCReadiness]]
RecoveryLimits ==
  [p \in Policies |-> [time |-> 4, flips |-> 2, waits |-> 1, mishaps |-> 1, tasks |-> 1,
                       readiness |-> MCReadiness]]
===============================================================================
