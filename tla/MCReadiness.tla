---------------------------- MODULE MCReadiness ----------------------------
(***************************************************************************)
(* Two sensors, nine settings: a zone with both holds, the same under      *)
(* test overrides, an early run on the absence of people, the same in a    *)
(* zone with a busy sensor, a pause within the window, a pause over        *)
(* midnight, two ways into the zone, a target that is lost, and too little *)
(* room for the dirty water.                                               *)
(***************************************************************************)
EXTENDS Readiness

CONSTANTS s1, s2, k1

MCSensors == {s1, s2}
MCConditions == {k1}

Fit ==
  [bound |-> TRUE, mains |-> "present", vacuum |-> "idle", battery |-> 50, charging |-> TRUE,
   dock |-> "there", dnd |-> TRUE, resource |-> [r \in Resources |-> "ok"]]
Hidden == [Fit EXCEPT !.dnd = FALSE]
Busy == [Fit EXCEPT !.vacuum = "cleaning"]
Unfit == [Fit EXCEPT !.battery = 10, !.charging = FALSE, !.resource["dock.dirty_water"] = "used"]

Base ==
  [busy |-> {}, paths |-> {}, clear |-> 0, settle |-> 0, accepted |-> FALSE,
   conds |-> [k \in MCConditions |-> [people |-> MCSensors, minimum |-> 1, dwell |-> 2]],
   groups |-> {}, advance |-> 0, preempts |-> FALSE, next |-> Never,
   gates |-> {"enabled"}, until |-> 0, dnd |-> [on |-> FALSE, from |-> 0, to |-> 0],
   window |-> 0, time |-> Never, battery |-> 20, drain |-> Never, scope |-> "wet", target |-> TRUE,
   left |-> [f \in Forecasts |-> Never], water |-> [f \in Forecasts |-> Never],
   warning |-> 1, planned |-> 2, deadline |-> 5,
   modes |-> {"REAL"}, states |-> {"good", "bad"}, devices |-> {Fit},
   max |-> [flips |-> 2, changes |-> 0, slow |-> 1, user |-> 1]]

Held == [Base EXCEPT !.busy = {s1}, !.paths = {{s2}}, !.clear = 2, !.settle = 1]
Tested == [Held EXCEPT !.modes = {"DRY_RUN"}, !.paths = {},
                       !.max = [flips |-> 1, changes |-> 0, slow |-> 1, user |-> 2]]
Early == [Base EXCEPT !.groups = {{k1}}, !.advance = 4, !.planned = 4, !.warning = 3, !.time = 2, !.next = 5]
Pause == [Base EXCEPT !.busy = {s1}, !.clear = 1, !.dnd = [on |-> TRUE, from |-> 3, to |-> 4],
                      !.window = 2, !.time = 1, !.warning = 0, !.planned = 1, !.deadline = 6,
                      !.devices = {Fit, Busy, Unfit, Hidden}, !.states = {"good", "bad", "gone"},
                      !.max = [flips |-> 1, changes |-> 1, slow |-> 1, user |-> 0]]
Night == [Base EXCEPT !.busy = {s1}, !.clear = 1, !.dnd = [on |-> TRUE, from |-> 3, to |-> 1],
                      !.window = 1, !.time = 1, !.planned = 1, !.warning = 0, !.deadline = 7,
                      !.gates = {"enabled", "until"}, !.until = 2,
                      !.max = [flips |-> 1, changes |-> 0, slow |-> 1, user |-> 1]]
Ways == [Base EXCEPT !.paths = {{s1}, {s2}}, !.settle = 2, !.max.user = 0]

Absent == [Early EXCEPT !.busy = {s2}, !.clear = 1,
                        !.conds = [k \in MCConditions |-> [people |-> {s1}, minimum |-> 1, dwell |-> 1]]]

Lost == [Ways EXCEPT !.target = FALSE, !.max.flips = 1]
Dry == [Ways EXCEPT !.left = [f \in Forecasts |-> 2], !.water["forecast_dirty_water_insufficient"] = 3,
                    !.max.flips = 1]

MCConfigs == {Held, Tested, Early, Pause, Night, Ways, Absent, Lost, Dry}

=============================================================================
