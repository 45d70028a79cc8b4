SPECIFICATION Spec
CONSTANTS
  alice = alice
  bob = bob
  carol = carol
  k1 = k1
  k2 = k2
  t1 = t1
  t2 = t2
  w1 = w1
  w2 = w2
  Null = Null
  Users = {alice, bob, carol}
  CallIds = {k1, k2}
  Dials <- TwoCallers
  Workers = {w1}
  Handlers = {t1, t2}
  Sweepers = {}
  Events = {"invite", "accept"}
  MaxFaults = 0
PROPERTY NoRingMidConversation
