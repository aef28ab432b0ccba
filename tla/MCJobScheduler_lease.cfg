SPECIFICATION Spec
CONSTANTS
  z1 = z1
  z2 = z2
  z3 = z3
  t1 = t1
  t2 = t2
  t3 = t3
  N = 2
  Zones = {z1, z2, z3}
  ZonesOf <- TwoZonesAndOne
  Passes <- OnceAndTwice
  ByHand = {}
  MayForce = {1}
  Preempting = {1}
  Plans <- AllPlans
  MayDisable = {}
  LateBlockers = {1, 2}
  MaxAttempts = 3
INVARIANT
  LeaseExclusive
