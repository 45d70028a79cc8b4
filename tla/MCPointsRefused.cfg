SPECIFICATION Spec
CONSTANTS
  r1 = r1
  r2 = r2
  Requests = {r1}
  Activities = {"act_chat"}
  ActivityPoints <- Points
  CheckInPoints = 20
  WelcomePoints = 100
  Cap = 40
  LastDay = 2
  MaxFaults = 0
INVARIANT RefusedHadCheckedIn
