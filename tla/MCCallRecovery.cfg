SPECIFICATION FairSpec
CONSTANTS
  alice = alice
  bob = bob
  carol = carol
  k1 = k1
  k2 = k2
  t1 = t1
  t2 = t2
  w1 = w1
  w2 = w2
  Null = Null
  Users = {alice, bob, carol}
  CallIds = {k1, k2}
  Dials <- Redial
  Workers = {w1, w2}
  Handlers = {t1}
  Sweepers = {t2}
  Events = {"invite", "timeout"}
  MaxFaults = 1
INVARIANT OneRingTimer
PROPERTY RingResolves
