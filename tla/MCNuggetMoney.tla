---------------------------- MODULE MCNuggetMoney ----------------------------
(* A station owner, another user, and two requests in flight, of which it    *)
(* does not matter who makes which under what key.                          *)
EXTENDS NuggetMoney, TLC

CONSTANTS owner, member, k1, k2, h1, h2

AnyHandlerOrKey == Permutations(Handlers) \cup Permutations(Keys)
=============================================================================
