SPECIFICATION Spec
CONSTANTS
  w1 = w1
  w2 = w2
  alice = alice
  bob = bob
  carol = carol
  ann = ann
  phone1 = phone1
  Processes = {w1, w2}
  Users = {alice, bob, carol}
  Keys <- OneAnnouncement
  Conversations = {}
  Criticals = {}
  Phones = {phone1}
  MaxFaults = 1
  Announcements <- OneAnnouncement
  Publisher = alice
  Targeted = {alice, bob, carol}
  PageSize = 2
  MaxMoves = 2
  Restless = {bob}
INVARIANT AnnouncementsTypeOK
INVARIANT InboxIsTrue
INVARIANT OnePushPerAnnouncement
INVARIANT MissesAreBounded
INVARIANT UnpublishedIsSilent
PROPERTIES GoesOut ImplementsBroadcast
