----------------------- MODULE MCNotificationDelivery -----------------------
(* MCOnePush: a message sent twice, by a client that lost the answer, to one *)
(* phone.  MCDelivery: messages and calls to a user with two phones.         *)
EXTENDS NotificationDelivery

CONSTANTS w1, w2, alice, msg1, call1, phone1, phone2

OneMessage == {msg1}
OneCall == {call1}
MessageAndCall == {msg1, call1}
=============================================================================
