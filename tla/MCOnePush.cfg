SPECIFICATION DeliverySpec
CONSTANTS
  w1 = w1
  w2 = w2
  alice = alice
  msg1 = msg1
  call1 = call1
  phone1 = phone1
  phone2 = phone2
  Processes = {w1, w2}
  Users = {alice}
  Keys <- OneMessage
  Conversations <- OneMessage
  Criticals = {}
  Phones = {phone1}
  MaxFaults = 0
INVARIANT OnePushPerRecipient
