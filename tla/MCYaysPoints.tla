---------------------------- MODULE MCYaysPoints ----------------------------
(* A small instance of YaysPoints: one activity, and the points of the     *)
(* code except for the cap, which is lowered so that it trims.             *)
EXTENDS YaysPoints, TLC

CONSTANTS r1, r2

Points == [a \in Activities |-> 30]
Interchangeable == Permutations({r1, r2})
=============================================================================
