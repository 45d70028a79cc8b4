-------------------------- MODULE MCAnnouncements --------------------------
(* One announcement to three members on pages of two, while one of them      *)
(* changes settings or loses a phone and any of them leaves or comes back.   *)
EXTENDS Announcements

CONSTANTS w1, w2, alice, bob, carol, ann, phone1

OneAnnouncement == {ann}
=============================================================================
