SPECIFICATION Spec
CONSTANTS
  alice = alice
  bob = bob
  carol = carol
  k1 = k1
  k2 = k2
  t1 = t1
  t2 = t2
  w1 = w1
  w2 = w2
  Null = Null
  Users = {alice, bob, carol}
  CallIds = {k1}
  Dials <- OneCall
  Workers = {w1, w2}
  Handlers = {t1, t2}
  Sweepers = {t1, t2}
  Events = {"invite", "accept", "decline", "hangup", "endCall", "failed", "disconnect", "timeout"}
  MaxFaults = 0
SYMMETRY Interchangeable
INVARIANTS TypeOK OneOutcomeTold EndedMeansTalked EndedByAParty OneRingTimer
PROPERTIES SettledIsFinal ImplementsLifecycle
