------------------------------ MODULE Bookings ------------------------------
(***************************************************************************)
(* The life of bookings after createBooking:                               *)
(* apps/api/src/modules/bookings/services/bookingService.js.  The vendor's *)
(* and the customer's requests lock the booking row (lockById, FOR UPDATE) *)
(* for their whole transaction, so each is one action.  The SLA sweep does *)
(* not: expireStaleBookings reads the overdue bookings with a plain SELECT *)
(* and then writes one after another, holding the row locks of those it    *)
(* has written until it commits.                                           *)
(*                                                                         *)
(* What a decision means for the booking's payment is worked out after its *)
(* commit; `afterCommit` holds the decisions for which that is outstanding *)
(* (module Payments).                                                      *)
(*                                                                         *)
(* A definition marked MUTANT is no model of the code: it is the wrong     *)
(* version of the definition after it that some property must tell apart.  *)
(***************************************************************************)
EXTENDS Lifecycle, Naturals, FiniteSets

CONSTANTS
    Booking,      \* booking rows that may be created
    SlaBatch,     \* expireStaleBookings' limit
    MaxFaults     \* bound: crashes, lost transactions and failed calls

ASSUME BatchAssumption == SlaBatch \in Nat \ {0} /\ MaxFaults \in Nat

VARIABLES
    status,       \* bookings.status_id; "DRAFT" before the row exists
    restored,     \* how often a booking's capacity has been given back
    sweep,        \* the sweep's transaction
    afterCommit,  \* decisions whose payment work has not started
    faults        \* faults so far

bookingRows == <<status, restored, sweep, afterCommit>>

Decision == {"confirm", "reject", "customerCancel", "vendorCancel"}

\* todo: read and not yet written; written: rows written and so locked.
Sweep == [open: BOOLEAN, todo: SUBSET Booking, written: SUBSET Booking]
NoSweep == [open |-> FALSE, todo |-> {}, written |-> {}]

\* Statuses whose bookings still have a right to their capacity.
Holding == {"PENDING_VENDOR", "CONFIRMED", "COMPLETED", "NO_SHOW"}

InitBookings ==
    /\ status = [b \in Booking |-> "DRAFT"]
    /\ restored = [b \in Booking |-> 0]
    /\ sweep = NoSweep
    /\ afterCommit = {}

CreateBooking(b) ==
    /\ status[b] = "DRAFT"
    /\ status' = [status EXCEPT ![b] = "PENDING_VENDOR"]
    /\ UNCHANGED <<restored, sweep, afterCommit>>

-----------------------------------------------------------------------------
(* Requests *)

\* lockById waits for the sweep if it has written the row.
Lockable(b) == b \notin sweep.written

\* MUTANT: the request's transition is not checked.
TransitionUnchecked(b, to, restoreCapacity) ==
    /\ status[b] # "DRAFT"
    /\ Lockable(b)
    /\ status' = [status EXCEPT ![b] = to]
    /\ restored' = [restored EXCEPT ![b] = @ + IF restoreCapacity THEN 1 ELSE 0]
    /\ UNCHANGED sweep

\* #applyTransition on a locked row.
Transition(b, to, restoreCapacity) ==
    /\ <<status[b], to>> \in BookingTransitions
    /\ Lockable(b)
    /\ status' = [status EXCEPT ![b] = to]
    /\ restored' = [restored EXCEPT ![b] = @ + IF restoreCapacity THEN 1 ELSE 0]
    /\ UNCHANGED sweep

Decide(b, decision) == afterCommit' = afterCommit \cup {<<b, decision>>}

ConfirmBooking(b) ==
    /\ Transition(b, "CONFIRMED", FALSE)
    /\ Decide(b, "confirm")

\* MUTANT: a rejection keeps the capacity.
RejectKeepsCapacity(b) ==
    /\ Transition(b, "REJECTED", FALSE)
    /\ Decide(b, "reject")

RejectBooking(b) ==
    /\ Transition(b, "REJECTED", TRUE)
    /\ Decide(b, "reject")

CancelBooking(b) ==
    \/ /\ Transition(b, "CANCELLED_BY_CUSTOMER", TRUE)
       /\ Decide(b, "customerCancel")
    \/ /\ Transition(b, "CANCELLED_BY_VENDOR", TRUE)
       /\ Decide(b, "vendorCancel")

CompleteBooking(b) ==
    Transition(b, "COMPLETED", FALSE) /\ UNCHANGED afterCommit

MarkNoShow(b) ==
    Transition(b, "NO_SHOW", FALSE) /\ UNCHANGED afterCommit

-----------------------------------------------------------------------------
(* The SLA sweep *)

Overdue == {b \in Booking : status[b] = "PENDING_VENDOR"}

\* MUTANT: the limit is exclusive.
SweepReadBelowLimit ==
    /\ ~sweep.open
    /\ \E stale \in SUBSET Overdue :
          /\ stale # {} /\ Cardinality(stale) < SlaBatch
          /\ sweep' = [open |-> TRUE, todo |-> stale, written |-> {}]
    /\ UNCHANGED <<status, restored, afterCommit>>

\* findPendingVendorPastSla: the plain SELECT that opens the snapshot.
SweepRead ==
    /\ ~sweep.open
    /\ \E stale \in SUBSET Overdue :
          /\ stale # {} /\ Cardinality(stale) <= SlaBatch
          /\ sweep' = [open |-> TRUE, todo |-> stale, written |-> {}]
    /\ UNCHANGED <<status, restored, afterCommit>>

\* One #applyTransition to EXPIRED; the status it checks is the one it read.
SweepWrite(b) ==
    /\ b \in sweep.todo
    /\ sweep' = [sweep EXCEPT !.todo = @ \ {b}, !.written = @ \cup {b}]
    /\ UNCHANGED <<status, restored, afterCommit>>

SweepCommit ==
    /\ sweep.open /\ sweep.todo = {}
    /\ status' = [b \in Booking |->
                     IF b \in sweep.written THEN "EXPIRED" ELSE status[b]]
    /\ restored' = [b \in Booking |->
                       IF b \in sweep.written THEN restored[b] + 1
                                              ELSE restored[b]]
    /\ sweep' = NoSweep
    /\ UNCHANGED afterCommit

\* One booking that fails, a deadlock or a crash rolls back the whole batch.
SweepFails ==
    /\ sweep.open /\ faults < MaxFaults
    /\ faults' = faults + 1
    /\ sweep' = NoSweep
    /\ UNCHANGED <<status, restored, afterCommit>>

-----------------------------------------------------------------------------
(* Specification *)

BookingStep ==
    \/ \E b \in Booking :
          \/ CreateBooking(b) \/ ConfirmBooking(b) \/ RejectBooking(b)
          \/ CancelBooking(b) \/ CompleteBooking(b) \/ MarkNoShow(b)
          \/ SweepWrite(b)
    \/ SweepRead
    \/ SweepCommit

BookingsInit == InitBookings /\ faults = 0
BookingsNext == (BookingStep /\ UNCHANGED faults) \/ SweepFails
bookingVars == <<bookingRows, faults>>

BookingsSpec == BookingsInit /\ [][BookingsNext]_bookingVars

\* The job is repeated every 15 minutes and a started transaction goes on.
BookingsFairness ==
    /\ WF_bookingVars(SweepRead /\ UNCHANGED faults)
    /\ WF_bookingVars(SweepCommit /\ UNCHANGED faults)
    /\ \A b \in Booking : WF_bookingVars(SweepWrite(b) /\ UNCHANGED faults)

BookingsFairSpec == BookingsSpec /\ BookingsFairness

-----------------------------------------------------------------------------
(* Properties *)

BookingsTypeOK ==
    /\ status \in [Booking -> BookingStatus]
    /\ restored \in [Booking -> Nat]
    /\ sweep \in Sweep
    /\ afterCommit \subseteq Booking \X Decision
    /\ faults \in Nat

\* The capacity of a booking is back in the calendar if and only if the booking
\* has ended without a stay: whatever the sweep overwrites, a booking that
\* holds its rooms has never given them back, and one that lost them always
\* has (restoreCapacity in rejectBooking, cancelBooking, expireStaleBookings).
CapacityFollowsStatus ==
    \A b \in Booking :
        restored[b] = 0 <=> status[b] \in Holding \cup {"DRAFT"}

Final == {"REJECTED", "CANCELLED_BY_CUSTOMER", "CANCELLED_BY_VENDOR",
          "COMPLETED", "NO_SHOW", "EXPIRED"}

\* A booking that has ended is never taken up again by a request: the only
\* thing that can still happen to it is the sweep's late EXPIRED.
NeverReopened ==
    [][\A b \in Booking :
          status[b] \in Final =>
              status'[b] \in {status[b], "EXPIRED"}]_bookingVars

\* expireStaleBookings: a request nobody answers does not stay open for ever.
RequestsEnd ==
    \A b \in Booking :
        status[b] = "PENDING_VENDOR" ~> status[b] # "PENDING_VENDOR"

\* #applyTransition "validates the transition against the existing domain state
\* machine", so every change of a status is an edge of it.
LegalTransitions ==
    [][\A b \in Booking :
          \/ status'[b] = status[b]
          \/ <<status[b], status'[b]>> \in BookingTransitions]_bookingVars
=============================================================================
