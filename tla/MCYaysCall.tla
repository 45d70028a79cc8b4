----------------------------- MODULE MCYaysCall -----------------------------
(* Small instances of YaysCall: who dials whom, and the symmetries.        *)
EXTENDS YaysCall, TLC

CONSTANTS alice, bob, carol, k1, k2, t1, t2, w1, w2

OneCall == {[call |-> k1, from |-> alice, to |-> bob]}
\* Two callers reach for the same callee.
TwoCallers == OneCall \cup {[call |-> k2, from |-> carol, to |-> bob]}
\* A caller moves on to a second callee, leaving the first call dangling.
Redial == OneCall \cup {[call |-> k2, from |-> alice, to |-> carol]}

TaskSymmetry == Permutations({t1, t2})
Interchangeable == TaskSymmetry \cup Permutations({w1, w2})
=============================================================================
