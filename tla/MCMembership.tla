---------------------------- MODULE MCMembership ----------------------------
(* An owner, an admin who is a platform admin too, and an outsider.  The    *)
(* workers are interchangeable.                                             *)
EXTENDS Membership, TLC

CONSTANTS w1, w2, olga, mona, carl, inv, req1, req2

Workers == {w1, w2}
AnyWorker == Permutations(Workers)
=============================================================================
