SPECIFICATION Spec
SYMMETRY AnyWorker
CONSTANTS
  w1 = w1
  w2 = w2
  olga = olga
  mona = mona
  carl = carl
  inv = inv
  req1 = req1
  req2 = req2
  Processes <- Workers
  Users = {olga, mona, carl}
  Owner = olga
  Deputy = mona
  DeputyRole = "admin"
  PlatformAdmins = {mona}
  Invites = {inv}
  Requests = {req1, req2}
  Guests = {carl}
  Staff = {mona}
  Assigned = {"moderator", "member"}
  MaxUses = 1
  MaxCalls = 3
  MaxFaults = 1
INVARIANT MembershipTypeOK
INVARIANT InviteLimit
INVARIANT ClosedMeansAsked
INVARIANT BanIsHeeded
INVARIANT BannedIsSilent
PROPERTY RevokedIsClosed
PROPERTY DecisionIsFinal
CHECK_DEADLOCK FALSE
