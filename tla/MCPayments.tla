---------------------------- MODULE MCPayments ----------------------------
(* Small instances of Payments for TLC. *)
EXTENDS Payments, TLC

\* Every request pays for the same booking.
SameBooking == [p \in Intent |-> CHOOSE b \in Booking : TRUE]

IntentSymmetry == Permutations(Intent)
=============================================================================
