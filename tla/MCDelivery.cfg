SPECIFICATION DeliverySpec
CONSTANTS
  w1 = w1
  w2 = w2
  alice = alice
  msg1 = msg1
  call1 = call1
  phone1 = phone1
  phone2 = phone2
  Processes = {w1, w2}
  Users = {alice}
  Keys <- MessageAndCall
  Conversations <- OneMessage
  Criticals <- OneCall
  Phones = {phone1, phone2}
  MaxFaults = 1
INVARIANT InboxIsTrue
INVARIANT MuteIsHeeded
