----------------------------- MODULE StepLedger -----------------------------
(***************************************************************************)
(* What the table document_steps promises the callers of StepRepository,   *)
(* with sessions, locks and columns left out.                              *)
(*                                                                         *)
(* The committed life of a step row is a clock that never runs back:       *)
(*   0        the row does not exist                                       *)
(*   3g + 1   pending, after the row was reset g times                     *)
(*   3g + 2   running                                                      *)
(*   3g + 3   finished (succeeded or failed)                               *)
(* The ledger holds the moments at which some caller was told "you won":   *)
(* <<r, 3g + 2>> for a successful claim and <<r, 3g + 3>> for a successful *)
(* mark_succeeded or mark_failed.  Every such moment is entered once.      *)
(***************************************************************************)
EXTENDS Naturals

CONSTANT Rows

VARIABLES
    clock,      \* clock[r]: how far the committed row r has come
    ledger      \* the committed wins, as pairs <<row, moment>>

vars == <<clock, ledger>>

Moments == Rows \X Nat

Pending(t)  == t % 3 = 1
Finished(t) == t > 0 /\ t % 3 = 0

Init ==
    /\ clock = [r \in Rows |-> 0]
    /\ ledger = {}

(***************************************************************************)
(* A transaction commits: clocks advance, each win it enters lies between  *)
(* the old and the new time of its row, so it cannot have been entered     *)
(* before, and the row's present run is accounted for.                     *)
(***************************************************************************)
Settle ==
    /\ clock' \in [Rows -> Nat]
    /\ \A r \in Rows : clock[r] <= clock'[r]
    /\ ledger \subseteq ledger'
    /\ \A m \in ledger' \ ledger :
          /\ m \in Moments
          /\ clock[m[1]] < m[2]
          /\ m[2] <= clock'[m[1]]
          /\ ~ Pending(m[2])
    /\ \A r \in Rows : ~ Pending(clock'[r]) /\ clock'[r] > 0
                          => <<r, clock'[r]>> \in ledger'
    /\ \A m \in ledger' : Finished(m[2]) => <<m[1], m[2] - 1>> \in ledger'

Spec == Init /\ [][Settle]_vars
=============================================================================
