----------------------------- MODULE PointsBook -----------------------------
(***************************************************************************)
(* What IndexxPoints promises a member, whatever devices, retries and the  *)
(* Earn tab do at once: credit() as its callers see it ("idempotent by     *)
(* key", "does not double-pay").  A payment is one step that writes the    *)
(* key's one row and adds what the row says; the several awaits it takes   *)
(* do not show.  YaysPoints is shown to implement this module.             *)
(***************************************************************************)
EXTENDS Integers

CONSTANTS Keys, Unpaid

VARIABLES
  balance,    \* what the member owns for good
  rows,       \* what was paid for each key
  faults

vars == <<balance, rows, faults>>

Init ==
  /\ balance = 0
  /\ rows = [k \in Keys |-> Unpaid]
  /\ faults = 0

\* Each key is paid once, and what is written is what is paid.
Pay(k) ==
  /\ rows[k] = Unpaid
  /\ rows'[k] \in Nat
  /\ rows' = [rows EXCEPT ![k] = rows'[k]]
  /\ balance' = balance + rows'[k]
  /\ UNCHANGED faults

\* A request that dies may leave the member more than was written, never less.
Die ==
  /\ faults' = faults + 1
  /\ balance' >= balance
  /\ UNCHANGED rows

Next == Die \/ \E k \in Keys : Pay(k)

Spec == Init /\ [][Next]_vars
=============================================================================
