SPECIFICATION Spec
CONSTANTS
  w1 = w1
  w2 = w2
  Workers = {w1, w2}
  MaxSlot = 1
  MaxCrashes = 1
  MaxReconnects = 1
  MaxLost = 2
  MaxExpiries = 1
  MaxLapses = 1
INVARIANT SchedulerTypeOK
INVARIANT OneRunPerLock
INVARIANT SingleScheduler
PROPERTY SomebodySchedules
