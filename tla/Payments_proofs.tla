--------------------------- MODULE Payments_proofs ---------------------------
(***************************************************************************)
(* Proofs about Bookings: types, the agreement of capacity and status, and *)
(* that no request takes up a booking that has ended, in spite of the sweep, *)
(* which writes what it decided on an old snapshot.  Proofs about Payments: *)
(* types, one active payment per booking, a booking that shows its payment's *)
(* state, and no charge without the vendor's consent.  Proofs about Refunds: *)
(* refunded_amount is the sum of the refunds that were or may yet be made, *)
(* Stripe refunds once per key, the ledger and the statuses say what Stripe *)
(* did, a booking's refund status is earned, and all of it implements      *)
(* Escrow.  They hold for any bookings, batch, checkouts, requests,        *)
(* amounts, reports, faults and subscribed events, and for both providers. *)
(***************************************************************************)
EXTENDS Payments, Refunds, Sums_proofs

-----------------------------------------------------------------------------
(* Bookings *)

BookingsInv == BookingsTypeOK /\ CapacityFollowsStatus

\* A request's transition keeps types, and keeps capacity and status together
\* if it restores the capacity exactly when it ends the booking without a stay
\* (#applyTransition and its restoreCapacity argument).
LEMMA TransitionKeeps ==
    ASSUME BookingsInv, NEW b \in Booking, NEW to \in BookingStatus,
           NEW restore \in BOOLEAN, Transition(b, to, restore),
           restore <=> to \notin Holding, to # "DRAFT"
    PROVE  /\ status' \in [Booking -> BookingStatus]
           /\ restored' \in [Booking -> Nat]
           /\ sweep' \in Sweep
           /\ CapacityFollowsStatus'
<1> USE DEF BookingsInv, BookingsTypeOK
<1>1. /\ status' = [status EXCEPT ![b] = to]
      /\ restored' = [restored EXCEPT ![b] = @ + IF restore THEN 1 ELSE 0]
      /\ sweep' = sweep
      /\ status[b] \in {"DRAFT", "PENDING_VENDOR", "CONFIRMED"}
  BY DEF Transition, BookingTransitions
<1>2. restored[b] = 0
  BY <1>1 DEF CapacityFollowsStatus, Holding
<1>3. restored'[b] = (IF restore THEN 1 ELSE 0) /\ status'[b] = to
  BY <1>1, <1>2
<1>4. ASSUME NEW c \in Booking
      PROVE  restored'[c] = 0 <=> status'[c] \in Holding \cup {"DRAFT"}
  <2>1. CASE c = b
    BY <1>3, <2>1
  <2>2. CASE c # b
    BY <1>1, <2>2 DEF CapacityFollowsStatus
  <2> QED BY <2>1, <2>2
<1>5. CapacityFollowsStatus'
  BY <1>4 DEF CapacityFollowsStatus
<1>6. restored' \in [Booking -> Nat]
  BY <1>1
<1> QED BY <1>1, <1>5, <1>6

\* Every request of the booking's two parties keeps the invariant.
LEMMA RequestKeeps ==
    ASSUME BookingsInv, NEW b \in Booking, UNCHANGED faults,
           \/ ConfirmBooking(b) \/ RejectBooking(b) \/ CancelBooking(b)
           \/ CompleteBooking(b) \/ MarkNoShow(b)
    PROVE  BookingsInv'
<1> USE DEF BookingsInv
<1>1. faults' \in Nat
  BY DEF BookingsTypeOK
<1>2. ASSUME NEW d \in Decision, Decide(b, d)
      PROVE  (afterCommit \subseteq Booking \X Decision)'
  BY <1>2 DEF Decide, BookingsTypeOK
<1>3. CASE ConfirmBooking(b)
  BY <1>1, <1>2, <1>3, TransitionKeeps
     DEF ConfirmBooking, BookingsTypeOK, BookingStatus, Holding, Decision
<1>4. CASE RejectBooking(b)
  BY <1>1, <1>2, <1>4, TransitionKeeps
     DEF RejectBooking, BookingsTypeOK, BookingStatus, Holding, Decision
<1>5. CASE CancelBooking(b)
  BY <1>1, <1>2, <1>5, TransitionKeeps
     DEF CancelBooking, BookingsTypeOK, BookingStatus, Holding, Decision
<1>6. CASE CompleteBooking(b)
  BY <1>1, <1>6, TransitionKeeps
     DEF CompleteBooking, BookingsTypeOK, BookingStatus, Holding
<1>7. CASE MarkNoShow(b)
  BY <1>1, <1>7, TransitionKeeps
     DEF MarkNoShow, BookingsTypeOK, BookingStatus, Holding
<1> QED BY <1>3, <1>4, <1>5, <1>6, <1>7

\* So does the sweep's commit, although the bookings it expires may have been
\* confirmed, rejected or cancelled since it read them.
LEMMA SweepCommitKeeps ==
    ASSUME BookingsInv, SweepCommit, UNCHANGED faults
    PROVE  BookingsInv'
<1> USE DEF BookingsInv, BookingsTypeOK
<1>1. status' \in [Booking -> BookingStatus]
  BY DEF SweepCommit, BookingStatus
<1>2. restored' \in [Booking -> Nat]
  BY DEF SweepCommit
<1>3. sweep' \in Sweep
  BY DEF SweepCommit, Sweep, NoSweep
<1>4. ASSUME NEW c \in Booking
      PROVE  restored'[c] = 0 <=> status'[c] \in Holding \cup {"DRAFT"}
  <2>1. restored[c] \in Nat
    OBVIOUS
  <2>2. CASE c \in sweep.written
    <3>1. status'[c] = "EXPIRED" /\ restored'[c] = restored[c] + 1
      BY <2>2 DEF SweepCommit
    <3> QED BY <3>1, <2>1 DEF Holding
  <2>3. CASE c \notin sweep.written
    BY <2>3 DEF SweepCommit, CapacityFollowsStatus
  <2> QED BY <2>2, <2>3
<1>5. CapacityFollowsStatus'
  BY <1>4 DEF CapacityFollowsStatus
<1> QED BY <1>1, <1>2, <1>3, <1>5 DEF SweepCommit

\* BookingsInv is inductive.
LEMMA BookingsInvStep ==
    BookingsInv /\ [BookingsNext]_bookingVars => BookingsInv'
<1> SUFFICES ASSUME BookingsInv, [BookingsNext]_bookingVars
             PROVE  BookingsInv'
  OBVIOUS
<1>1. CASE UNCHANGED bookingVars
  BY <1>1 DEF bookingVars, bookingRows, BookingsInv, BookingsTypeOK,
              CapacityFollowsStatus
<1>2. ASSUME NEW b \in Booking, CreateBooking(b), UNCHANGED faults
      PROVE  BookingsInv'
  BY <1>2 DEF CreateBooking, BookingsInv, BookingsTypeOK, BookingStatus,
              CapacityFollowsStatus, Holding
<1>3. ASSUME NEW b \in Booking, SweepWrite(b), UNCHANGED faults
      PROVE  BookingsInv'
  BY <1>3 DEF SweepWrite, Sweep, BookingsInv, BookingsTypeOK,
              CapacityFollowsStatus
<1>4. CASE SweepRead /\ UNCHANGED faults
  <2>1. sweep' \in Sweep
    BY <1>4 DEF SweepRead, Sweep, Overdue
  <2> QED BY <1>4, <2>1 DEF SweepRead, BookingsInv, BookingsTypeOK,
                            CapacityFollowsStatus
<1>5. CASE SweepCommit /\ UNCHANGED faults
  BY <1>5, SweepCommitKeeps
<1>6. CASE SweepFails
  BY <1>6 DEF SweepFails, NoSweep, Sweep, BookingsInv, BookingsTypeOK,
              CapacityFollowsStatus
<1> QED
  BY <1>1, <1>2, <1>3, <1>4, <1>5, <1>6, RequestKeeps
     DEF BookingsNext, BookingStep

\* The empty tables satisfy it.
LEMMA BookingsInvInit == BookingsInit => BookingsInv
BY BatchAssumption
   DEF BookingsInit, InitBookings, BookingsInv, BookingsTypeOK, BookingStatus,
       CapacityFollowsStatus, Holding, Sweep, NoSweep

\* The invariant of Bookings holds in every state.
LEMMA BookingsInvariant == BookingsSpec => []BookingsInv
BY BookingsInvInit, BookingsInvStep, PTL DEF BookingsSpec

\* Every reachable state of bookings and sweep is well typed.
THEOREM BookingsTyped == BookingsSpec => []BookingsTypeOK
<1>1. BookingsInv => BookingsTypeOK
  BY DEF BookingsInv
<1> QED BY <1>1, BookingsInvariant, PTL

\* Capacity is back in the calendar exactly for the bookings that have ended
\* without a stay, in every interleaving of requests, sweep and faults.
THEOREM CapacityFollows == BookingsSpec => []CapacityFollowsStatus
<1>1. BookingsInv => CapacityFollowsStatus
  BY DEF BookingsInv
<1> QED BY <1>1, BookingsInvariant, PTL

\* A step leaves a booking that has ended as it is, or stamps it EXPIRED.
LEMMA EndedStays ==
    ASSUME BookingsInv, [BookingsNext]_bookingVars,
           NEW b \in Booking, status[b] \in Final
    PROVE  status'[b] \in {status[b], "EXPIRED"}
<1> USE DEF BookingsInv, BookingsTypeOK
<1>1. ASSUME NEW c \in Booking, NEW to \in BookingStatus,
             NEW restore \in BOOLEAN, Transition(c, to, restore)
      PROVE  status'[b] = status[b]
  BY <1>1 DEF Transition, BookingTransitions, Final
<1>2. ASSUME NEW c \in Booking,
             \/ CreateBooking(c) \/ ConfirmBooking(c) \/ RejectBooking(c)
             \/ CancelBooking(c) \/ CompleteBooking(c) \/ MarkNoShow(c)
             \/ SweepWrite(c)
      PROVE  status'[b] = status[b]
  BY <1>1, <1>2
     DEF CreateBooking, ConfirmBooking, RejectBooking, CancelBooking,
         CompleteBooking, MarkNoShow, SweepWrite, BookingStatus, Final
<1>3. CASE SweepCommit
  BY <1>3 DEF SweepCommit
<1>4. CASE SweepRead \/ SweepFails \/ UNCHANGED bookingVars
  BY <1>4 DEF SweepRead, SweepFails, bookingVars, bookingRows
<1> QED BY <1>2, <1>3, <1>4 DEF BookingsNext, BookingStep

\* A booking that has ended stays as it is, or is stamped EXPIRED by a sweep
\* that had read it before; no request reopens it.
THEOREM EndedStaysEnded == BookingsSpec => NeverReopened
<1>1. BookingsInv /\ [BookingsNext]_bookingVars =>
          [\A b \in Booking : status[b] \in Final =>
                 status'[b] \in {status[b], "EXPIRED"}]_bookingVars
  BY EndedStays
<1> QED BY <1>1, BookingsInvariant, PTL DEF BookingsSpec, NeverReopened

-----------------------------------------------------------------------------
(* Payments *)

\* What a row that the provider has not answered for may look like, and which
\* requests, jobs and webhooks can therefore be about it.
RowInv ==
    /\ \A p \in Intent :
          /\ ~payment[p].known =>
                payment[p].status \in {NoStatus, "CREATED", "FAILED"}
          /\ payment[p].known => payment[p].status # NoStatus
          /\ checkout[p].pc \in {"idle", "checked"} =>
                payment[p].status = NoStatus
          /\ checkout[p].pc \in {"calling", "returned", "unreachable"} =>
                payment[p].status = "CREATED" /\ ~payment[p].known
          /\ p \in syncing => payment[p].known
    /\ \A job \in jobs : payment[job.intent].known

PaymentsInv == /\ BookingsInv /\ TypeOK /\ RowInv
               /\ OneActivePayment /\ SummaryFollowsPayment

\* A booking its vendor has accepted; it may have been cancelled since.
Accepted(b) == status[b] \notin {"DRAFT", "PENDING_VENDOR", "REJECTED"}

ChargeInv ==
    /\ \A p \in Intent :
          /\ intent[p] = "SUCCEEDED" => Accepted(BookingOf[p])
          /\ checkout[p].saw = "CONFIRMED" => Accepted(BookingOf[p])
    /\ \A job \in jobs :
          job.action = "capture" => Accepted(BookingOf[job.intent])
    /\ \A b \in Booking : <<b, "confirm">> \in afterCommit => Accepted(b)
-----------------------------------------------------------------------------
(* Applying an answer to a row *)

\* Nothing leaves a status in which the booking may be paid for again.
LEMMA InactiveIsFinal ==
    ASSUME NEW from \in PaymentStatus \cup {NoStatus}, NEW to,
           <<from, to>> \in PaymentTransitions
    PROVE  /\ from \in ActivePaymentStatus
           /\ to \in PaymentStatus
BY DEF PaymentTransitions, ActivePaymentStatus, PaymentStatus, NoStatus

\* Steps that leave payments and bookings' payment statuses alone.
LEMMA RowsUnchanged ==
    ASSUME OneActivePayment, SummaryFollowsPayment,
           payment' = payment, summary' = summary
    PROVE  OneActivePayment' /\ SummaryFollowsPayment'
BY DEF OneActivePayment, SummaryFollowsPayment

\* The summary of every status is one of bookings.payment_status_id's.
LEMMA SummaryTyped == \A s : SummaryOf(s) \in BookingPaymentStatus
BY DEF SummaryOf, BookingPaymentStatus

\* #applyProviderResult on a row that a request has inserted or the provider
\* has answered for: it keeps types, the uniqueness of the active payment, and
\* the agreement of payment and booking.
LEMMA ApplyKeeps ==
    ASSUME PaymentsInv, NEW p \in Intent,
           NEW to \in EventStatus \cup {NoStatus}, NEW known \in BOOLEAN,
           Apply(p, to, known),
           payment[p].known \/ payment[p].status = "CREATED",
           payment[p].known => known
    PROVE  /\ payment' \in [Intent -> PaymentRow]
           /\ summary' \in [Booking -> BookingPaymentStatus]
           /\ refundStatus' = refundStatus
           /\ OneActivePayment' /\ SummaryFollowsPayment'
           /\ \A q \in Intent : q # p => payment'[q] = payment[q]
           /\ payment'[p].status = to /\ to # NoStatus
           /\ payment'[p].known = known
<1>1. /\ payment \in [Intent -> PaymentRow]
      /\ summary \in [Booking -> BookingPaymentStatus]
      /\ BookingOf \in [Intent -> Booking]
  BY IntentAssumption DEF PaymentsInv, TypeOK
<1>2. /\ payment[p].status \in PaymentStatus
      /\ payment[p].known \in BOOLEAN
      /\ payment[p].received \in Nat
  BY <1>1 DEF PaymentRow, PaymentsInv, RowInv, NoStatus, PaymentStatus
<1>3. /\ to \in PaymentStatus
      /\ to # payment[p].status => payment[p].status \in ActivePaymentStatus
  BY <1>2, InactiveIsFinal DEF Apply, Applicable
<1>4. to # NoStatus
  BY <1>3 DEF NoStatus, PaymentStatus
<1>5. CASE Repeated(p, to)
  <2>1. UNCHANGED paymentRows /\ payment[p].status = to /\ payment[p].known
    BY <1>5 DEF Apply, Repeated
  <2>2. payment' = payment /\ summary' = summary /\ refundStatus' = refundStatus
    BY <2>1 DEF paymentRows
  <2>3. payment[p].known = known
    BY <2>1, <1>2
  <2> QED BY <1>1, <1>4, <2>1, <2>2, <2>3, RowsUnchanged DEF PaymentsInv
<1>6. CASE ~Repeated(p, to)
  <2>1. /\ payment' = [payment EXCEPT ![p] =
              [status |-> to, known |-> known,
               received |-> @.received + Entries(p, to)]]
        /\ summary' = [summary EXCEPT ![BookingOf[p]] = SummaryOf(to)]
        /\ refundStatus' = refundStatus
    BY <1>6 DEF Apply
  <2>2. payment[p].received + Entries(p, to) \in Nat
    BY <1>2 DEF Entries
  <2>3. payment' \in [Intent -> PaymentRow]
    BY <2>1, <2>2, <1>1, <1>3 DEF PaymentRow
  <2>4. summary' \in [Booking -> BookingPaymentStatus]
    BY <2>1, <1>1, SummaryTyped
  <2>5. /\ \A q \in Intent : q # p => payment'[q] = payment[q]
        /\ payment'[p].status = to /\ payment'[p].known = known
    BY <2>1, <1>1
  <2>6. /\ summary'[BookingOf[p]] = SummaryOf(to)
        /\ \A b \in Booking : b # BookingOf[p] => summary'[b] = summary[b]
    BY <2>1, <1>1
  <2>7. \/ payment[p].status \in ActivePaymentStatus
        \/ to \notin ActivePaymentStatus
    BY <1>3
  <2>8. OneActivePayment'
    BY <2>5, <2>7 DEF PaymentsInv, OneActivePayment
  <2>9. ASSUME NEW q \in Intent, payment'[q].status \in ActivePaymentStatus
        PROVE  summary'[BookingOf[q]] = SummaryOf(payment'[q].status)
    <3>1. CASE q = p
      BY <3>1, <2>5, <2>6
    <3>2. CASE q # p
      <4>1. payment[p].status \in ActivePaymentStatus
        \* otherwise the row is FAILED and known, which is a repetition
        BY <1>2, <1>3, <1>6 DEF Repeated, PaymentsInv, RowInv,
                                ActivePaymentStatus, PaymentStatus
      <4>2. BookingOf[q] # BookingOf[p]
        BY <3>2, <4>1, <2>5, <2>9 DEF PaymentsInv, OneActivePayment
      <4> QED BY <3>2, <4>2, <2>5, <2>6, <2>9, <1>1
                 DEF PaymentsInv, SummaryFollowsPayment
    <3> QED BY <3>1, <3>2
  <2>10. SummaryFollowsPayment'
    BY <2>9 DEF SummaryFollowsPayment
  <2> QED BY <1>4, <2>1, <2>3, <2>4, <2>5, <2>8, <2>10
<1> QED BY <1>5, <1>6

-----------------------------------------------------------------------------
(* Every step keeps PaymentsInv *)

\* What TypeOK says beside the rows of the bookings and the payments.
WorkOK ==
    /\ intent \in [Intent -> EventStatus \cup {NoStatus}]
    /\ event \in [Event -> EventState]
    /\ handling \subseteq Event
    /\ syncing \subseteq Intent /\ settling \subseteq Intent
    /\ checkout \in [Intent -> Checkout]
    /\ jobs \subseteq Job
    /\ refundCheck \subseteq Booking \X Cancellation

\* Steps that write no booking row.
LEMMA BookingsUnchanged ==
    ASSUME BookingsInv, UNCHANGED bookingVars
    PROVE  BookingsInv'
BY DEF bookingVars, bookingRows, BookingsInv, BookingsTypeOK,
       CapacityFollowsStatus

\* Steps that write no payment: only the bookings and the work can change.
LEMMA QuietKeeps ==
    ASSUME PaymentsInv, UNCHANGED paymentRows, BookingsInv', WorkOK', RowInv'
    PROVE  PaymentsInv'
<1>1. payment' = payment /\ summary' = summary /\ refundStatus' = refundStatus
  BY DEF paymentRows
<1>2. OneActivePayment' /\ SummaryFollowsPayment'
  BY <1>1, RowsUnchanged DEF PaymentsInv
<1>3. TypeOK'
  BY <1>1 DEF PaymentsInv, TypeOK, WorkOK, BookingsInv
<1> QED BY <1>2, <1>3 DEF PaymentsInv

\* createPaymentIntent up to the provider's answer.
LEMMA CheckoutKeeps ==
    ASSUME PaymentsInv, NEW p \in Intent,
           \/ BeginCheckout(p) \/ RefuseCheckout(p) \/ CreateIntent(p)
           \/ ProviderUnreachable(p)
    PROVE  PaymentsInv'
<1> USE DEF PaymentsInv, TypeOK
<1>1. CASE BeginCheckout(p)
  <2>1. BookingsInv' /\ UNCHANGED paymentRows
    BY <1>1, BookingsUnchanged DEF BeginCheckout
  <2>2. checkout' \in [Intent -> Checkout]
    BY <1>1, IntentAssumption DEF BeginCheckout, Checkout,
         BookingsTypeOK
  <2>3. WorkOK'
    BY <1>1, <2>2 DEF BeginCheckout, WorkOK
  <2>4. RowInv'
    BY <1>1 DEF BeginCheckout, RowInv, At, paymentRows, Checkout
  <2> QED BY <2>1, <2>3, <2>4, QuietKeeps
<1>2. CASE RefuseCheckout(p)
  <2>1. BookingsInv' /\ UNCHANGED paymentRows
    BY <1>2, BookingsUnchanged DEF RefuseCheckout
  <2>2. checkout' \in [Intent -> Checkout]
    BY <1>2 DEF RefuseCheckout, Checkout
  <2>3. WorkOK'
    BY <1>2, <2>2 DEF RefuseCheckout, WorkOK
  <2>4. RowInv'
    BY <1>2 DEF RefuseCheckout, RowInv, At, paymentRows, Checkout
  <2> QED BY <2>1, <2>3, <2>4, QuietKeeps
<1>3. CASE CreateIntent(p)
  <2>1. BookingsInv'
    BY <1>3, BookingsUnchanged DEF CreateIntent
  <2>2. PICK answer \in Answers :
           /\ intent' = [intent EXCEPT ![p] = answer]
           /\ event' = IF Provider = "stripe" THEN Sent(p, answer) ELSE event
           /\ checkout' = [checkout EXCEPT ![p].pc = "returned",
                                           ![p].result = answer]
    BY <1>3 DEF CreateIntent
  <2>3. answer \in EventStatus
    BY DEF Answers, EventStatus
  <2>4. event' \in [Event -> EventState]
    BY <2>2 DEF Sent, EventState
  <2>5. checkout' \in [Intent -> Checkout]
    BY <2>2, <2>3 DEF Checkout
  <2>6. WorkOK'
    BY <1>3, <2>2, <2>3, <2>4, <2>5 DEF CreateIntent, WorkOK
  <2>7. At(p, "calling") /\ UNCHANGED <<paymentRows, syncing, jobs>>
    BY <1>3 DEF CreateIntent
  <2>8. RowInv'
    BY <2>2, <2>7 DEF RowInv, At, paymentRows, Checkout
  <2> QED BY <2>1, <2>6, <2>7, <2>8, QuietKeeps
<1>4. CASE ProviderUnreachable(p)
  <2>1. BookingsInv'
    BY <1>4 DEF ProviderUnreachable, bookingRows, BookingsInv, BookingsTypeOK,
                CapacityFollowsStatus
  <2>2. event' \in [Event -> EventState]
    BY <1>4 DEF ProviderUnreachable, Sent, EventState
  <2>3. checkout' \in [Intent -> Checkout]
    BY <1>4 DEF ProviderUnreachable, Checkout
  <2>4. WorkOK'
    BY <1>4, <2>2, <2>3 DEF ProviderUnreachable, WorkOK, EventStatus
  <2>5. RowInv' /\ UNCHANGED paymentRows
    BY <1>4 DEF ProviderUnreachable, RowInv, At, paymentRows, Checkout
  <2> QED BY <2>1, <2>4, <2>5, QuietKeeps
<1> QED BY <1>1, <1>2, <1>3, <1>4

\* createPaymentIntent: the row, under the gap lock of the booking's payments.
LEMMA InsertKeeps ==
    ASSUME PaymentsInv, NEW p \in Intent, InsertPayment(p)
    PROVE  PaymentsInv'
<1> USE IntentAssumption DEF PaymentsInv, TypeOK
<1>1. OneActivePayment'
  BY DEF InsertPayment, ActiveFor, OneActivePayment
<1>2. SummaryFollowsPayment'
  <2>1. /\ payment'[p].status = "CREATED"
        /\ summary'[BookingOf[p]] = SummaryOf("CREATED")
        /\ \A q \in Intent \ {p} : payment'[q] = payment[q]
        /\ \A b \in Booking \ {BookingOf[p]} : summary'[b] = summary[b]
        /\ \A q \in Intent \ {p} :
              BookingOf[q] = BookingOf[p] => q \notin ActiveFor(BookingOf[p])
    BY DEF InsertPayment, PaymentRow
  <2> QED BY <2>1 DEF ActiveFor, SummaryFollowsPayment
<1>3. BookingsInv'
  BY BookingsUnchanged DEF InsertPayment
<1>4. WorkOK'
  BY DEF InsertPayment, WorkOK, Checkout
<1>5. payment' \in [Intent -> PaymentRow]
  BY DEF InsertPayment, PaymentRow, PaymentStatus
<1>6. TypeOK'
  BY <1>3, <1>4, <1>5, SummaryTyped DEF InsertPayment, WorkOK, BookingsInv
<1>7. RowInv'
  BY DEF RowInv, InsertPayment, At, PaymentRow, NoStatus, Job
<1> QED BY <1>1, <1>2, <1>3, <1>6, <1>7

\* Stripe's own steps.
LEMMA StripeKeeps ==
    ASSUME PaymentsInv, NEW p \in Intent,
           StripeProgress(p) \/ StripeAttemptFails(p) \/ StripeReleases(p)
    PROVE  PaymentsInv'
<1> USE DEF PaymentsInv, TypeOK
<1>1. BookingsInv' /\ UNCHANGED paymentRows /\ UNCHANGED work
  BY BookingsUnchanged DEF StripeProgress, StripeAttemptFails, StripeReleases
<1>2. event' \in [Event -> EventState]
  BY DEF StripeProgress, StripeAttemptFails, StripeReleases, Sent, EventState
<1>3. intent' \in [Intent -> EventStatus \cup {NoStatus}]
  BY DEF StripeProgress, StripeAttemptFails, StripeReleases, EventStatus
<1>4. WorkOK' /\ RowInv'
  BY <1>1, <1>2, <1>3 DEF WorkOK, RowInv, work, paymentRows
<1> QED BY <1>1, <1>4, QuietKeeps

\* The end of createPaymentIntent applies the answer, or the failure to get one.
LEMMA FinishKeeps ==
    ASSUME PaymentsInv, NEW p \in Intent, FinishCheckout(p) \/ FailCheckout(p)
    PROVE  PaymentsInv'
<1>1. /\ checkout[p].pc \in {"returned", "unreachable"}
      /\ payment[p].status = "CREATED" /\ ~payment[p].known
      /\ checkout[p] \in Checkout
  BY DEF PaymentsInv, TypeOK, RowInv, FinishCheckout, FailCheckout, At
<1>2. BookingsInv'
  BY BookingsUnchanged DEF PaymentsInv, FinishCheckout, FailCheckout
<1>3. checkout' = [checkout EXCEPT ![p].pc = "over"]
  BY DEF FinishCheckout, FailCheckout
<1>4. /\ checkout' \in [Intent -> Checkout]
      /\ checkout'[p].pc = "over"
      /\ \A q \in Intent : q # p => checkout'[q] = checkout[q]
  BY <1>3 DEF Checkout, PaymentsInv, TypeOK
<1>5. CASE FinishCheckout(p)
  <2> DEFINE to == checkout[p].result
  <2>1. to \in EventStatus \cup {NoStatus}
    BY <1>1 DEF Checkout
  <2>2. Apply(p, to, TRUE)
    BY <1>5 DEF FinishCheckout
  <2>3. /\ payment' \in [Intent -> PaymentRow]
        /\ summary' \in [Booking -> BookingPaymentStatus]
        /\ refundStatus' = refundStatus
        /\ OneActivePayment' /\ SummaryFollowsPayment'
        /\ \A q \in Intent : q # p => payment'[q] = payment[q]
        /\ payment'[p].status = to /\ to # NoStatus /\ payment'[p].known
    BY <1>1, <2>1, <2>2, ApplyKeeps
  <2>4. jobs' \subseteq jobs \cup {NewJob(p, "checkout", "capture")}
    BY <1>5 DEF FinishCheckout
  <2>5. NewJob(p, "checkout", "capture") \in Job
    BY DEF NewJob, Job
  <2>6. WorkOK'
    BY <1>5, <1>4, <2>4, <2>5 DEF FinishCheckout, WorkOK, PaymentsInv, TypeOK
  <2>7. \A job \in jobs' : payment'[job.intent].known
    BY <2>3, <2>4 DEF NewJob, PaymentsInv, TypeOK, Job, RowInv
  <2>8. syncing' = syncing
    BY <1>5 DEF FinishCheckout
  <2>9. RowInv'
    BY <1>4, <2>3, <2>7, <2>8 DEF PaymentsInv, RowInv
  <2>10. TypeOK'
    BY <1>2, <2>3, <2>6 DEF TypeOK, WorkOK, BookingsInv, PaymentsInv
  <2> QED BY <1>2, <2>3, <2>9, <2>10 DEF PaymentsInv
<1>6. CASE FailCheckout(p)
  <2>1. "FAILED" \in EventStatus \cup {NoStatus} /\ Apply(p, "FAILED", FALSE)
    BY <1>6 DEF FailCheckout, EventStatus
  <2>2. /\ payment' \in [Intent -> PaymentRow]
        /\ summary' \in [Booking -> BookingPaymentStatus]
        /\ refundStatus' = refundStatus
        /\ OneActivePayment' /\ SummaryFollowsPayment'
        /\ \A q \in Intent : q # p => payment'[q] = payment[q]
        /\ payment'[p].status = "FAILED" /\ ~payment'[p].known
    BY <1>1, <2>1, ApplyKeeps
  <2>3. syncing' = syncing /\ jobs' = jobs /\ WorkOK'
    BY <1>6, <1>4 DEF FailCheckout, WorkOK, PaymentsInv, TypeOK
  <2>4. \A job \in jobs' : payment'[job.intent].known
    BY <1>1, <2>2, <2>3 DEF PaymentsInv, TypeOK, Job, RowInv
  <2>5. RowInv'
    BY <1>1, <1>4, <2>2, <2>3, <2>4 DEF PaymentsInv, RowInv
  <2>6. TypeOK'
    BY <1>2, <2>2, <2>3 DEF TypeOK, WorkOK, BookingsInv, PaymentsInv
  <2> QED BY <1>2, <2>2, <2>5, <2>6 DEF PaymentsInv
<1> QED BY <1>5, <1>6

\* What follows a decision.
LEMMA DecisionKeeps ==
    ASSUME PaymentsInv, NEW b \in Booking, NEW decision \in Decision,
           DecisionStep(b, decision)
    PROVE  PaymentsInv'
<1>1. CASE SettleAuthorization(b, decision)
  <2>1. BookingsInv' /\ UNCHANGED paymentRows
    BY <1>1 DEF SettleAuthorization, PaymentsInv, BookingsInv, BookingsTypeOK,
                CapacityFollowsStatus
  <2>2. jobs' \subseteq jobs \cup
              {NewJob(p, "decision", ActionFor(decision)) :
                  p \in AuthorizedFor(b)}
    BY <1>1 DEF SettleAuthorization
  <2>3. \A p \in AuthorizedFor(b) :
           NewJob(p, "decision", ActionFor(decision)) \in Job
    BY DEF AuthorizedFor, ActiveFor, NewJob, Job, ActionFor
  <2>4. \A p \in AuthorizedFor(b) : payment[p].known
    BY DEF AuthorizedFor, ActiveFor, PaymentsInv, RowInv, NoStatus
  <2>5. refundCheck' \subseteq Booking \X Cancellation
    BY <1>1 DEF SettleAuthorization, PaymentsInv, TypeOK, MayRefund
  <2>6. UNCHANGED <<intent, event, handling, syncing, settling, checkout>>
    BY <1>1 DEF SettleAuthorization
  <2>7. WorkOK'
    BY <2>2, <2>3, <2>5, <2>6 DEF WorkOK, PaymentsInv, TypeOK
  <2>8. RowInv'
    BY <2>1, <2>2, <2>4, <2>6 DEF PaymentsInv, RowInv, paymentRows, NewJob
  <2> QED BY <2>1, <2>7, <2>8, QuietKeeps
<1>2. CASE ResolveRefundPolicy(b, decision)
  <2>1. payment' = payment /\ summary' = summary
    BY <1>2 DEF ResolveRefundPolicy
  <2>2. OneActivePayment' /\ SummaryFollowsPayment'
    BY <2>1, RowsUnchanged DEF PaymentsInv
  <2>3. BookingsInv'
    BY <1>2, BookingsUnchanged DEF ResolveRefundPolicy, PaymentsInv
  <2>4. TypeOK'
    BY <1>2, <2>3 DEF ResolveRefundPolicy, PaymentsInv, TypeOK, BookingsInv
  <2>5. RowInv'
    BY <1>2 DEF ResolveRefundPolicy, PaymentsInv, RowInv
  <2> QED BY <2>2, <2>3, <2>4, <2>5 DEF PaymentsInv
<1> QED BY <1>1, <1>2 DEF DecisionStep

\* What a job asks of the provider is a status of an intent.
LEMMA WantedTyped == \A job : Wanted(job) \in EventStatus
BY DEF Wanted, EventStatus

\* #executeCaptureOrVoid up to the provider's answer: the job moves on or ends.
LEMMA JobMoves ==
    ASSUME PaymentsInv, NEW job \in jobs,
           \/ CheckJob(job) \/ CallProvider(job) \/ CallProviderTooLate(job)
           \/ CallFails(job)
    PROVE  PaymentsInv'
<1>1. /\ job \in Job /\ job.intent \in Intent
      /\ intent \in [Intent -> EventStatus \cup {NoStatus}]
  BY DEF PaymentsInv, TypeOK, Job
<1>2. UNCHANGED paymentRows
  BY DEF CheckJob, CallProvider, CallProviderTooLate, CallFails
<1>3. BookingsInv'
  <2>1. CASE CallFails(job)
    BY <2>1 DEF CallFails, bookingRows, PaymentsInv, BookingsInv,
                BookingsTypeOK, CapacityFollowsStatus
  <2>2. CASE ~CallFails(job)
    BY <2>2, BookingsUnchanged
       DEF CheckJob, CallProvider, CallProviderTooLate, PaymentsInv
  <2> QED BY <2>1, <2>2
<1>4. \E pc \in {"call", "apply"}, result \in EventStatus \cup {NoStatus} :
         jobs' \subseteq jobs \cup Move(job, pc, result)
  BY <1>1, WantedTyped
     DEF CheckJob, CallProvider, CallProviderTooLate, CallFails, Replace
<1>5. PICK pc \in {"call", "apply"}, result \in EventStatus \cup {NoStatus} :
         jobs' \subseteq jobs \cup Move(job, pc, result)
  BY <1>4
<1>6. \A next \in Move(job, pc, result) :
         next \in Job /\ next.intent = job.intent
  BY <1>1 DEF Move, Job
<1>7. /\ intent' \in [Intent -> EventStatus \cup {NoStatus}]
      /\ event' \in [Event -> EventState]
  BY <1>1, WantedTyped
     DEF CheckJob, CallProvider, CallProviderTooLate, CallFails, CaptureOrVoid,
         Sent, EventState, PaymentsInv, TypeOK
<1>8. UNCHANGED <<handling, syncing, settling, checkout, refundCheck>>
  BY DEF CheckJob, CallProvider, CallProviderTooLate, CallFails
<1>9. WorkOK'
  BY <1>5, <1>6, <1>7, <1>8 DEF WorkOK, PaymentsInv, TypeOK
<1>10. RowInv'
  BY <1>2, <1>5, <1>6, <1>8 DEF PaymentsInv, RowInv, paymentRows
<1> QED BY <1>2, <1>3, <1>9, <1>10, QuietKeeps

\* The transaction that applies the provider's answer to a capture or a void.
LEMMA AnswerKeeps ==
    ASSUME PaymentsInv, NEW job \in jobs, ApplyAnswer(job)
    PROVE  PaymentsInv'
<1>1. /\ job \in Job /\ job.intent \in Intent /\ payment[job.intent].known
      /\ job.result \in EventStatus \cup {NoStatus}
  BY DEF PaymentsInv, TypeOK, Job, RowInv
<1>2. /\ UNCHANGED <<intent, event, handling, syncing, settling, checkout,
                     refundCheck>>
      /\ jobs' \subseteq jobs
  BY DEF ApplyAnswer, Replace
<1>3. BookingsInv'
  BY BookingsUnchanged DEF ApplyAnswer, PaymentsInv
<1>4. WorkOK'
  BY <1>2 DEF WorkOK, PaymentsInv, TypeOK
<1>5. CASE UNCHANGED paymentRows
  <2>1. RowInv'
    BY <1>2, <1>5 DEF PaymentsInv, RowInv, paymentRows
  <2> QED BY <1>3, <1>4, <1>5, <2>1, QuietKeeps
<1>6. CASE Apply(job.intent, job.result, TRUE)
  <2>1. /\ payment' \in [Intent -> PaymentRow]
        /\ summary' \in [Booking -> BookingPaymentStatus]
        /\ refundStatus' = refundStatus
        /\ OneActivePayment' /\ SummaryFollowsPayment'
        /\ \A q \in Intent : q # job.intent => payment'[q] = payment[q]
        /\ payment'[job.intent].status = job.result /\ job.result # NoStatus
        /\ payment'[job.intent].known = TRUE
    BY <1>1, <1>6, ApplyKeeps, Zenon
  <2>2. \A q \in Intent : payment[q].known => payment'[q].known
    BY <2>1
  <2>3. \A other \in jobs' : payment'[other.intent].known
    BY <1>2, <2>2 DEF PaymentsInv, TypeOK, Job, RowInv
  <2>4. RowInv'
    BY <1>1, <1>2, <2>1, <2>3 DEF PaymentsInv, RowInv
  <2>5. TypeOK'
    BY <1>3, <1>4, <2>1 DEF TypeOK, WorkOK, BookingsInv, PaymentsInv
  <2> QED BY <1>3, <2>1, <2>4, <2>5 DEF PaymentsInv
<1> QED BY <1>5, <1>6 DEF ApplyAnswer

\* Webhooks: their recording, and the handlers that find nothing to apply.
LEMMA WebhookQuiet ==
    ASSUME PaymentsInv, NEW e \in Event,
           \/ Deliver(e) \/ HandleUnknown(e) \/ HandleConflict(e)
           \/ HandleFails(e)
    PROVE  PaymentsInv'
<1>1. BookingsInv'
  <2>1. CASE HandleFails(e)
    BY <2>1 DEF HandleFails, bookingRows, PaymentsInv, BookingsInv,
                BookingsTypeOK, CapacityFollowsStatus
  <2>2. CASE ~HandleFails(e)
    BY <2>2, BookingsUnchanged
       DEF Deliver, HandleUnknown, HandleConflict, PaymentsInv
  <2> QED BY <2>1, <2>2
<1>2. UNCHANGED <<paymentRows, intent, syncing, settling, checkout, jobs,
                  refundCheck>>
  BY DEF Deliver, HandleUnknown, HandleConflict, HandleFails
<1>3. event' \in [Event -> EventState] /\ handling' \subseteq Event
  BY DEF Deliver, HandleUnknown, HandleConflict, HandleFails, PaymentsInv,
         TypeOK, EventState
<1>4. WorkOK'
  BY <1>2, <1>3 DEF WorkOK, PaymentsInv, TypeOK
<1>5. RowInv'
  BY <1>2 DEF PaymentsInv, RowInv, paymentRows
<1> QED BY <1>1, <1>2, <1>4, <1>5, QuietKeeps

\* A webhook that is applied; it finds its row by the provider's id.
LEMMA WebhookApplied ==
    ASSUME PaymentsInv, NEW e \in Event, HandleEvent(e)
    PROVE  PaymentsInv'
<1> DEFINE p == e[1]
           to == e[2]
<1>1. p \in Intent /\ to \in EventStatus
  BY DEF Event
<1>2. payment[p].known /\ Apply(p, to, TRUE)
  BY DEF HandleEvent
<1>3. /\ payment' \in [Intent -> PaymentRow]
      /\ summary' \in [Booking -> BookingPaymentStatus]
      /\ refundStatus' = refundStatus
      /\ OneActivePayment' /\ SummaryFollowsPayment'
      /\ \A q \in Intent : q # p => payment'[q] = payment[q]
      /\ payment'[p].status = to /\ to # NoStatus
      /\ payment'[p].known = TRUE
  BY <1>1, <1>2, ApplyKeeps, Zenon
<1>4. /\ UNCHANGED <<intent, settling, checkout, jobs, refundCheck>>
      /\ event' = [event EXCEPT ![e] = "PROCESSED"]
      /\ handling' = handling \ {e}
      /\ syncing' \subseteq syncing \cup {p}
  BY DEF HandleEvent
<1> HIDE DEF p, to
<1>5. WorkOK'
  BY <1>1, <1>4 DEF WorkOK, PaymentsInv, TypeOK, EventState
<1>6. BookingsInv'
  BY BookingsUnchanged DEF HandleEvent, PaymentsInv
<1>7. \A q \in Intent : payment[q].known => payment'[q].known
  BY <1>3
<1>8. \A job \in jobs' : payment'[job.intent].known
  BY <1>4, <1>7 DEF PaymentsInv, TypeOK, Job, RowInv
<1>9. RowInv'
  BY <1>2, <1>3, <1>4, <1>8 DEF PaymentsInv, RowInv, p
<1>10. TypeOK'
  BY <1>3, <1>5, <1>6 DEF TypeOK, WorkOK, BookingsInv, PaymentsInv
<1> QED BY <1>3, <1>6, <1>9, <1>10 DEF PaymentsInv

\* The local settlement job, and the follow-up of an authorization.
LEMMA SettlementKeeps ==
    ASSUME PaymentsInv, NEW p \in Intent,
           SettleLocally(p) \/ SyncWithDecision(p)
    PROVE  PaymentsInv'
<1>1. BookingsInv'
  BY BookingsUnchanged DEF SettleLocally, SyncWithDecision, PaymentsInv
<1>2. CASE SettleLocally(p)
  <2>1. /\ <<p, "AUTHORIZED">> \in Event
        /\ "AUTHORIZED" \in EventStatus /\ "PENDING" \in EventState
    BY DEF Event, EventStatus, EventState
  <2>2. WorkOK'
    BY <1>2, <2>1 DEF SettleLocally, WorkOK, PaymentsInv, TypeOK
  <2>3. RowInv' /\ UNCHANGED paymentRows
    BY <1>2 DEF SettleLocally, PaymentsInv, RowInv, paymentRows
  <2> QED BY <1>1, <2>2, <2>3, QuietKeeps
<1>3. CASE SyncWithDecision(p)
  <2>1. jobs' = jobs \cup {NewJob(p, "webhook", action) :
                             action \in SyncActions(status[BookingOf[p]])}
    BY <1>3 DEF SyncWithDecision
  <2>2. SyncActions(status[BookingOf[p]]) \subseteq {"capture", "void"}
    BY DEF SyncActions
  <2>3. \A job \in jobs' \ jobs : job \in Job /\ job.intent = p
    BY <2>1, <2>2 DEF NewJob, Job
  <2>4. UNCHANGED paymentRows /\ syncing' \subseteq syncing
    BY <1>3 DEF SyncWithDecision
  <2>5. UNCHANGED <<intent, event, handling, settling, checkout, refundCheck>>
    BY <1>3 DEF SyncWithDecision
  <2>6. WorkOK'
    BY <2>3, <2>4, <2>5 DEF WorkOK, PaymentsInv, TypeOK
  <2>7. payment[p].known
    BY <1>3 DEF SyncWithDecision, PaymentsInv, RowInv
  <2>8. RowInv'
    BY <2>3, <2>4, <2>5, <2>7 DEF PaymentsInv, RowInv, paymentRows
  <2> QED BY <1>1, <2>4, <2>6, <2>8, QuietKeeps
<1> QED BY <1>2, <1>3

\* A crash forgets work and no row.
LEMMA CrashKeeps ==
    ASSUME PaymentsInv, Crash
    PROVE  PaymentsInv'
<1>1. BookingsInv'
  BY DEF Crash, PaymentsInv, BookingsInv, BookingsTypeOK, Sweep, NoSweep,
         CapacityFollowsStatus
<1>2. checkout' \in [Intent -> Checkout]
  BY DEF Crash, PaymentsInv, TypeOK, Checkout
<1>3. WorkOK'
  BY <1>2 DEF Crash, WorkOK, PaymentsInv, TypeOK
<1>4. RowInv' /\ UNCHANGED paymentRows
  BY DEF Crash, At, PaymentsInv, TypeOK, Checkout, RowInv, paymentRows
<1> QED BY <1>1, <1>3, <1>4, QuietKeeps

\* What happens to bookings disturbs no payment.
LEMMA BookingsKeep ==
    ASSUME PaymentsInv, BookingsNext,
           UNCHANGED <<paymentRows, intent, event, work>>
    PROVE  PaymentsInv'
<1>1. BookingsInv'
  BY BookingsInvStep DEF PaymentsInv
<1>2. WorkOK' /\ RowInv'
  BY DEF WorkOK, RowInv, PaymentsInv, TypeOK, work, paymentRows
<1> QED BY <1>1, <1>2, QuietKeeps

\* PaymentsInv is inductive.
LEMMA PaymentsInvStep == PaymentsInv /\ [Next]_vars => PaymentsInv'
<1> SUFFICES ASSUME PaymentsInv, [Next]_vars PROVE PaymentsInv'
  OBVIOUS
<1>1. CASE UNCHANGED vars
  <2>1. WorkOK' /\ RowInv' /\ UNCHANGED paymentRows /\ BookingsInv'
    BY <1>1, BookingsUnchanged
       DEF vars, WorkOK, RowInv, PaymentsInv, TypeOK, work, paymentRows
  <2> QED BY <2>1, QuietKeeps
<1>2. CASE Progress
  BY <1>2, CheckoutKeeps, InsertKeeps, FinishKeeps, DecisionKeeps, JobMoves,
     AnswerKeeps, WebhookQuiet, WebhookApplied, SettlementKeeps
     DEF Progress, CheckoutStep, JobStep, WebhookStep
<1>3. CASE Environment
  BY <1>3, CheckoutKeeps, StripeKeeps, JobMoves, WebhookQuiet, CrashKeeps
     DEF Environment
<1> QED BY <1>1, <1>2, <1>3, BookingsKeep DEF Next

\* It holds before anything has happened.
LEMMA PaymentsInvInit == Init => PaymentsInv
<1> SUFFICES ASSUME Init PROVE PaymentsInv
  OBVIOUS
<1>1. BookingsInv
  BY BookingsInvInit DEF Init
<1>2. WorkOK
  BY DEF Init, WorkOK, Checkout, BookingStatus, EventState
<1>3. TypeOK
  BY <1>1, <1>2 DEF Init, TypeOK, WorkOK, BookingsInv, PaymentRow,
                    BookingPaymentStatus
<1>4. RowInv
  BY DEF Init, RowInv
<1>5. OneActivePayment /\ SummaryFollowsPayment
  BY DEF Init, OneActivePayment, SummaryFollowsPayment, ActivePaymentStatus,
         PaymentStatus, NoStatus
<1> QED BY <1>1, <1>3, <1>4, <1>5 DEF PaymentsInv

\* The invariant of Payments holds in every state.
LEMMA PaymentsInvariant == Spec => []PaymentsInv
BY PaymentsInvInit, PaymentsInvStep, PTL DEF Spec

\* Every reachable state of bookings, payments, provider and webhooks is well
\* typed.
THEOREM PaymentsTyped == Spec => []TypeOK
<1>1. PaymentsInv => TypeOK
  BY DEF PaymentsInv
<1> QED BY <1>1, PaymentsInvariant, PTL

\* However many checkouts race and whatever the provider answers, a booking has
\* at most one payment that may still be charged.
THEOREM OnePayment == Spec => []OneActivePayment
<1>1. PaymentsInv => OneActivePayment
  BY DEF PaymentsInv
<1> QED BY <1>1, PaymentsInvariant, PTL

\* The booking shows the state of that payment: no late answer about an earlier
\* one overwrites it.
THEOREM SummaryAgrees == Spec => []SummaryFollowsPayment
<1>1. PaymentsInv => SummaryFollowsPayment
  BY DEF PaymentsInv
<1> QED BY <1>1, PaymentsInvariant, PTL

\* Payments write no booking's status: only a step of Bookings does.
LEMMA PaymentsLeaveStatus == Progress \/ Environment => status' = status
<1>1. ASSUME NEW p \in Intent,
             \/ CheckoutStep(p) \/ SettleLocally(p) \/ SyncWithDecision(p)
             \/ BeginCheckout(p) \/ StripeProgress(p) \/ StripeAttemptFails(p)
             \/ StripeReleases(p) \/ ProviderUnreachable(p)
      PROVE  status' = status
  <2>1. CASE CheckoutStep(p)
    BY <2>1 DEF CheckoutStep, InsertPayment, RefuseCheckout, CreateIntent,
                FinishCheckout, FailCheckout, bookingVars, bookingRows
  <2> QED BY <1>1, <2>1
             DEF SettleLocally, SyncWithDecision, BeginCheckout,
                 StripeProgress, StripeAttemptFails, StripeReleases,
                 ProviderUnreachable, bookingVars, bookingRows
<1>2. ASSUME NEW b \in Booking, NEW decision \in Decision,
             DecisionStep(b, decision)
      PROVE  status' = status
  BY <1>2 DEF DecisionStep, SettleAuthorization, ResolveRefundPolicy,
              bookingVars, bookingRows
<1>3. ASSUME NEW job \in jobs, JobStep(job) \/ CallFails(job)
      PROVE  status' = status
  BY <1>3 DEF JobStep, CheckJob, CallProvider, CallProviderTooLate,
              ApplyAnswer, CallFails, bookingVars, bookingRows
<1>4. ASSUME NEW e \in Event, WebhookStep(e) \/ HandleFails(e)
      PROVE  status' = status
  BY <1>4 DEF WebhookStep, Deliver, HandleUnknown, HandleEvent,
              HandleConflict, HandleFails, bookingVars, bookingRows
<1>5. CASE Crash
  BY <1>5 DEF Crash
<1> QED BY <1>1, <1>2, <1>3, <1>4, <1>5 DEF Progress, Environment

\* No payment, webhook or crash reopens a booking that has ended either.
THEOREM EndedStaysEndedWhilePaid == Spec => NeverReopened
<1>1. ASSUME PaymentsInv, [Next]_vars, NEW b \in Booking, status[b] \in Final
      PROVE  status'[b] \in {status[b], "EXPIRED"}
  <2>1. CASE BookingsNext \/ UNCHANGED vars
    BY <1>1, <2>1, EndedStays DEF PaymentsInv, vars
  <2>2. CASE Progress \/ Environment
    BY <2>2, PaymentsLeaveStatus
  <2> QED BY <1>1, <2>1, <2>2 DEF Next
<1>2. PaymentsInv /\ [Next]_vars =>
          [\A b \in Booking : status[b] \in Final =>
                 status'[b] \in {status[b], "EXPIRED"}]_bookingVars
  BY <1>1
<1> QED BY <1>2, PaymentsInvariant, PTL DEF Spec, NeverReopened

-----------------------------------------------------------------------------
(* No charge without consent *)

\* Consent is not taken back: an accepted booking may be cancelled or expire,
\* and is never open or rejected again.
LEMMA AcceptedStays ==
    ASSUME BookingsInv, [BookingsNext]_bookingVars,
           NEW b \in Booking, Accepted(b)
    PROVE  Accepted(b)'
<1> USE DEF BookingsInv, BookingsTypeOK, Accepted
<1>1. ASSUME NEW c \in Booking, NEW to, NEW restore, Transition(c, to, restore),
             to # "DRAFT", to # "PENDING_VENDOR"
      PROVE  Accepted(b)'
  BY <1>1 DEF Transition, BookingTransitions
<1>2. ASSUME NEW c \in Booking,
             \/ ConfirmBooking(c) \/ RejectBooking(c) \/ CancelBooking(c)
             \/ CompleteBooking(c) \/ MarkNoShow(c)
      PROVE  Accepted(b)'
  <2> HIDE DEF Accepted
  <2> QED BY <1>1, <1>2 DEF ConfirmBooking, RejectBooking, CancelBooking,
                            CompleteBooking, MarkNoShow
<1>3. ASSUME NEW c \in Booking, CreateBooking(c) \/ SweepWrite(c)
      PROVE  Accepted(b)'
  BY <1>3 DEF CreateBooking, SweepWrite
<1>4. CASE SweepCommit
  BY <1>4 DEF SweepCommit
<1>5. CASE SweepRead \/ SweepFails \/ UNCHANGED bookingVars
  BY <1>5 DEF SweepRead, SweepFails, bookingVars, bookingRows
<1> QED BY <1>2, <1>3, <1>4, <1>5 DEF BookingsNext, BookingStep

\* A confirmation is worked off only after it has been committed.
LEMMA ConfirmedWasAccepted ==
    ASSUME BookingsInv, ChargeInv, BookingsNext
    PROVE  \A b \in Booking : <<b, "confirm">> \in afterCommit' => Accepted(b)'
<1> SUFFICES ASSUME NEW b \in Booking, <<b, "confirm">> \in afterCommit'
             PROVE  Accepted(b)'
  OBVIOUS
<1>1. CASE <<b, "confirm">> \in afterCommit
  BY <1>1, AcceptedStays DEF ChargeInv
<1>2. CASE <<b, "confirm">> \notin afterCommit
  <2>1. afterCommit' # afterCommit
    BY <1>2
  <2>2. PICK c \in Booking :
           ConfirmBooking(c) \/ RejectBooking(c) \/ CancelBooking(c)
    BY <2>1 DEF BookingsNext, BookingStep, CreateBooking, CompleteBooking,
                MarkNoShow, SweepWrite, SweepRead, SweepCommit, SweepFails
  <2>3. \A d \in Decision : Decide(c, d) => c = b /\ d = "confirm"
    BY <1>2 DEF Decide
  <2>4. ConfirmBooking(b)
    BY <2>2, <2>3 DEF ConfirmBooking, RejectBooking, CancelBooking, Decision
  <2>5. status'[b] = "CONFIRMED"
    BY <2>4 DEF ConfirmBooking, Transition, BookingsInv, BookingsTypeOK
  <2> QED BY <2>5 DEF Accepted
<1> QED BY <1>1, <1>2

\* A step of the payments keeps ChargeInv if what it sends to the provider, and
\* what it plans to send, is in order.
LEMMA ChargeKeeps ==
    ASSUME PaymentsInv, ChargeInv,
           status' = status, afterCommit' \subseteq afterCommit,
           \A p \in Intent :
              /\ intent'[p] = "SUCCEEDED" => Accepted(BookingOf[p])
              /\ checkout'[p].saw = "CONFIRMED" => Accepted(BookingOf[p]),
           \A job \in jobs' : /\ job.intent \in Intent
                              /\ job.action = "capture" =>
                                    Accepted(BookingOf[job.intent])
    PROVE  ChargeInv'
<1>1. \A p \in Intent :
         /\ intent'[p] = "SUCCEEDED" => Accepted(BookingOf[p])'
         /\ checkout'[p].saw = "CONFIRMED" => Accepted(BookingOf[p])'
  BY DEF Accepted
<1>2. \A job \in jobs' :
         job.action = "capture" => Accepted(BookingOf[job.intent])'
  BY DEF Accepted
<1>3. \A b \in Booking : <<b, "confirm">> \in afterCommit' => Accepted(b)'
  BY DEF Accepted, ChargeInv
<1> QED BY <1>1, <1>2, <1>3 DEF ChargeInv

\* ChargeInv is preserved by every step.
LEMMA ChargeInvStep ==
    ASSUME PaymentsInv, ChargeInv, [Next]_vars
    PROVE  ChargeInv'
<1>1. /\ \A job \in jobs : job.intent \in Intent /\ job \in Job
      /\ \A p \in Intent : BookingOf[p] \in Booking
      /\ checkout \in [Intent -> Checkout]
      /\ intent \in [Intent -> EventStatus \cup {NoStatus}]
  BY IntentAssumption DEF PaymentsInv, TypeOK, Job
<1>2. ASSUME NEW p \in Intent, BeginCheckout(p)
      PROVE  ChargeInv'
  <2>1. /\ status' = status /\ afterCommit' = afterCommit
        /\ intent' = intent /\ jobs' = jobs
    BY <1>2 DEF BeginCheckout, bookingVars, bookingRows
  <2>2. \A q \in Intent : checkout'[q].saw = "CONFIRMED" =>
                              Accepted(BookingOf[q])
    BY <1>1, <1>2 DEF BeginCheckout, ChargeInv, Accepted, Checkout
  <2> QED BY <1>1, <2>1, <2>2, ChargeKeeps DEF ChargeInv
<1>3. ASSUME NEW p \in Intent,
             \/ InsertPayment(p) \/ RefuseCheckout(p) \/ FailCheckout(p)
      PROVE  ChargeInv'
  <2>1. /\ status' = status /\ afterCommit' = afterCommit
        /\ intent' = intent /\ jobs' = jobs
        /\ \E pc : checkout' = [checkout EXCEPT ![p].pc = pc]
    BY <1>3 DEF InsertPayment, RefuseCheckout, FailCheckout, bookingVars,
                bookingRows
  <2>2. \A q \in Intent : checkout'[q].saw = checkout[q].saw
    BY <1>1, <2>1 DEF Checkout
  <2> QED BY <1>1, <2>1, <2>2, ChargeKeeps DEF ChargeInv
<1>4. ASSUME NEW p \in Intent, CreateIntent(p) \/ ProviderUnreachable(p)
      PROVE  ChargeInv'
  <2>1. /\ status' = status /\ afterCommit' = afterCommit /\ jobs' = jobs
    BY <1>4 DEF CreateIntent, ProviderUnreachable, bookingVars, bookingRows
  <2>2. \A q \in Intent : checkout'[q].saw = checkout[q].saw
    BY <1>1, <1>4 DEF CreateIntent, ProviderUnreachable, Checkout
  <2>3. \A q \in Intent : intent'[q] = "SUCCEEDED" => intent[q] = "SUCCEEDED"
    BY <1>1, <1>4 DEF CreateIntent, ProviderUnreachable, Answers
  <2> QED BY <1>1, <2>1, <2>2, <2>3, ChargeKeeps DEF ChargeInv
<1>5. ASSUME NEW p \in Intent, FinishCheckout(p)
      PROVE  ChargeInv'
  <2>1. /\ status' = status /\ afterCommit' = afterCommit /\ intent' = intent
        /\ checkout' = [checkout EXCEPT ![p].pc = "over"]
    BY <1>5 DEF FinishCheckout, bookingVars, bookingRows
  <2>2. \A q \in Intent : checkout'[q].saw = checkout[q].saw
    BY <1>1, <2>1 DEF Checkout
  <2>3. \A job \in jobs' \ jobs : /\ job.intent = p
                                  /\ checkout[p].saw = "CONFIRMED"
    BY <1>5 DEF FinishCheckout, NewJob
  <2> QED BY <1>1, <2>1, <2>2, <2>3, ChargeKeeps DEF ChargeInv
<1>6. ASSUME NEW p \in Intent,
             \/ StripeProgress(p) \/ StripeAttemptFails(p) \/ StripeReleases(p)
      PROVE  ChargeInv'
  <2>1. /\ status' = status /\ afterCommit' = afterCommit /\ jobs' = jobs
        /\ checkout' = checkout
    BY <1>6 DEF StripeProgress, StripeAttemptFails, StripeReleases,
                bookingVars, bookingRows, work
  <2>2. \A q \in Intent : intent'[q] = "SUCCEEDED" => intent[q] = "SUCCEEDED"
    BY <1>1, <1>6 DEF StripeProgress, StripeAttemptFails, StripeReleases,
                      StripeMoves
  <2> QED BY <1>1, <2>1, <2>2, ChargeKeeps DEF ChargeInv
<1>7. ASSUME NEW b \in Booking, NEW decision \in Decision,
             SettleAuthorization(b, decision)
      PROVE  ChargeInv'
  <2>1. /\ status' = status /\ afterCommit' \subseteq afterCommit
        /\ intent' = intent /\ checkout' = checkout
    BY <1>7 DEF SettleAuthorization
  <2>2. \A job \in jobs' \ jobs : /\ job.intent \in AuthorizedFor(b)
                                  /\ job.action = ActionFor(decision)
    BY <1>7 DEF SettleAuthorization, NewJob
  <2>3. decision = "confirm" => Accepted(b)
    BY <1>7 DEF SettleAuthorization, ChargeInv
  <2>4. \A job \in jobs' \ jobs :
           /\ job.intent \in Intent /\ BookingOf[job.intent] = b
           /\ job.action = "capture" => Accepted(b)
    BY <2>2, <2>3 DEF AuthorizedFor, ActiveFor, ActionFor
  <2> QED BY <1>1, <2>1, <2>4, ChargeKeeps DEF ChargeInv
<1>8. ASSUME NEW b \in Booking, NEW decision \in Decision,
             ResolveRefundPolicy(b, decision)
      PROVE  ChargeInv'
  <2>1. /\ status' = status /\ afterCommit' = afterCommit
        /\ intent' = intent /\ checkout' = checkout /\ jobs' = jobs
    BY <1>8 DEF ResolveRefundPolicy, bookingVars, bookingRows
  <2> QED BY <1>1, <2>1, ChargeKeeps DEF ChargeInv
<1>9. ASSUME NEW job \in jobs,
             \/ CheckJob(job) \/ CallProvider(job) \/ CallProviderTooLate(job)
             \/ CallFails(job) \/ ApplyAnswer(job)
      PROVE  ChargeInv'
  <2>1. /\ status' = status /\ afterCommit' = afterCommit
        /\ checkout' = checkout
    BY <1>9 DEF CheckJob, CallProvider, CallProviderTooLate, CallFails,
                ApplyAnswer, bookingVars, bookingRows
  <2>2. PICK pc \in {"call", "apply"}, result \in EventStatus \cup {NoStatus} :
           jobs' \subseteq jobs \cup Move(job, pc, result)
    BY <1>1, <1>9, WantedTyped
       DEF CheckJob, CallProvider, CallProviderTooLate, CallFails, ApplyAnswer,
           Replace
  <2>3. \A next \in Move(job, pc, result) :
           next.intent = job.intent /\ next.action = job.action
    BY <1>1 DEF Move, Job
  <2>4. \A next \in jobs' : next \in jobs \/ /\ next.intent = job.intent
                                             /\ next.action = job.action
    BY <2>2, <2>3
  <2>5. \A q \in Intent : intent'[q] = "SUCCEEDED" =>
              \/ intent[q] = "SUCCEEDED"
              \/ q = job.intent /\ job.action = "capture"
    BY <1>1, <1>9 DEF CheckJob, CallProvider, CallProviderTooLate, CallFails,
                      ApplyAnswer, CaptureOrVoid, Wanted
  <2> QED BY <1>1, <2>1, <2>4, <2>5, ChargeKeeps DEF ChargeInv
<1>10. ASSUME NEW e \in Event,
              \/ Deliver(e) \/ HandleUnknown(e) \/ HandleEvent(e)
              \/ HandleConflict(e) \/ HandleFails(e)
       PROVE  ChargeInv'
  <2>1. /\ status' = status /\ afterCommit' = afterCommit
        /\ intent' = intent /\ checkout' = checkout /\ jobs' = jobs
    BY <1>10 DEF Deliver, HandleUnknown, HandleEvent, HandleConflict,
                 HandleFails, bookingVars, bookingRows
  <2> QED BY <1>1, <2>1, ChargeKeeps DEF ChargeInv
<1>11. ASSUME NEW p \in Intent, SettleLocally(p)
       PROVE  ChargeInv'
  <2>1. /\ status' = status /\ afterCommit' = afterCommit
        /\ checkout' = checkout /\ jobs' = jobs
        /\ intent' = [intent EXCEPT ![p] = "AUTHORIZED"]
    BY <1>11 DEF SettleLocally, bookingVars, bookingRows
  <2>2. \A q \in Intent : intent'[q] = "SUCCEEDED" => intent[q] = "SUCCEEDED"
    BY <1>1, <2>1
  <2> QED BY <1>1, <2>1, <2>2, ChargeKeeps DEF ChargeInv
<1>12. ASSUME NEW p \in Intent, SyncWithDecision(p)
       PROVE  ChargeInv'
  <2>1. /\ status' = status /\ afterCommit' = afterCommit
        /\ checkout' = checkout /\ intent' = intent
        /\ jobs' = jobs \cup {NewJob(p, "webhook", action) :
                               action \in SyncActions(status[BookingOf[p]])}
    BY <1>12 DEF SyncWithDecision, bookingVars, bookingRows
  <2>2. "capture" \in SyncActions(status[BookingOf[p]]) =>
           Accepted(BookingOf[p])
    BY DEF SyncActions, Accepted
  <2>3. \A job \in jobs' \ jobs :
           /\ job.intent = p
           /\ job.action \in SyncActions(status[BookingOf[p]])
    BY <2>1 DEF NewJob
  <2> QED BY <1>1, <2>1, <2>2, <2>3, ChargeKeeps DEF ChargeInv
<1>13. CASE Crash
  <2>1. /\ status' = status /\ afterCommit' \subseteq afterCommit
        /\ intent' = intent /\ jobs' = {}
    BY <1>13 DEF Crash
  <2>2. \A q \in Intent : checkout'[q].saw = checkout[q].saw
    BY <1>1, <1>13 DEF Crash, Checkout
  <2> QED BY <1>1, <2>1, <2>2, ChargeKeeps DEF ChargeInv
<1>14. CASE BookingsNext /\ UNCHANGED <<paymentRows, intent, event, work>>
  <2>1. UNCHANGED <<intent, checkout, jobs>>
    BY <1>14 DEF work
  <2>2. \A b \in Booking : Accepted(b) => Accepted(b)'
    BY <1>14, AcceptedStays DEF PaymentsInv
  <2>3. \A b \in Booking : <<b, "confirm">> \in afterCommit' => Accepted(b)'
    BY <1>14, ConfirmedWasAccepted DEF PaymentsInv
  <2> QED BY <1>1, <2>1, <2>2, <2>3 DEF ChargeInv
<1>15. CASE UNCHANGED vars
  <2>1. /\ status' = status /\ afterCommit' = afterCommit
        /\ intent' = intent /\ checkout' = checkout /\ jobs' = jobs
    BY <1>15 DEF vars, bookingVars, bookingRows, work
  <2> QED BY <1>1, <2>1, ChargeKeeps DEF ChargeInv
<1>16. CASE Progress
  BY <1>16, <1>3, <1>4, <1>5, <1>7, <1>8, <1>9, <1>10, <1>11, <1>12
     DEF Progress, CheckoutStep, DecisionStep, JobStep, WebhookStep
<1>17. CASE Environment
  BY <1>17, <1>2, <1>4, <1>6, <1>9, <1>10, <1>13 DEF Environment
<1> QED BY <1>14, <1>15, <1>16, <1>17 DEF Next

\* A card is charged only for a booking whose vendor has accepted it, whichever
\* of checkout, decision, webhook and sweep comes first.
THEOREM ChargedIsAccepted == Spec => []ChargedOnlyIfAccepted
<1>1. Init => ChargeInv
  BY IntentAssumption
     DEF Init, BookingsInit, InitBookings, ChargeInv, NoStatus
<1>2. PaymentsInv /\ ChargeInv /\ [Next]_vars => ChargeInv'
  BY ChargeInvStep
<1>3. ChargeInv => ChargedOnlyIfAccepted
  BY DEF ChargeInv, Accepted, ChargedOnlyIfAccepted
<1> QED BY <1>1, <1>2, <1>3, PaymentsInvariant, PTL DEF Spec

-----------------------------------------------------------------------------
(* The books and Stripe *)

\* The statuses an authorization may be in from then on.
HeldOnce == {"AUTHORIZED", "SUCCEEDED", "CANCELLED"}

\* An intent that is `now` in a status has been in status s, as far as money
\* goes; and it may be `next` in another.
WasIn(now, s) == /\ s = "AUTHORIZED" => now \in HeldOnce
                 /\ s \in {"SUCCEEDED", "CANCELLED"} => now = s

Follows(now, next) ==
    \/ next = now
    \/ now \notin HeldOnce
    \/ now = "AUTHORIZED" /\ next \in HeldOnce

Booked(row) == row.received = IF row.status = "SUCCEEDED" THEN 1 ELSE 0

\* Whatever is on its way to a payment row is about a status the intent has
\* been in: webhooks, the answers that jobs hold, and the rows themselves.
BooksInv ==
    Provider = "stripe" =>
        /\ settling = {}
        /\ \A p \in Intent :
              /\ checkout[p].pc \in {"idle", "checked", "calling"} =>
                    intent[p] = NoStatus
              /\ checkout[p].result \in {NoStatus, "CREATED"}
              /\ WasIn(intent[p], payment[p].status)
              /\ Booked(payment[p])
        /\ \A p \in Intent, s \in EventStatus :
              event[<<p, s>>] # "unsent" \/ <<p, s>> \in handling =>
                 WasIn(intent[p], s)
        /\ \A job \in jobs : job.pc = "apply" =>
              WasIn(intent[job.intent], job.result)

\* What an intent has been in it has been in for good.
LEMMA WasInStays ==
    ASSUME NEW now, NEW next, NEW s, WasIn(now, s), Follows(now, next)
    PROVE  WasIn(next, s)
  BY DEF WasIn, Follows, HeldOnce

\* An answer that is applied to a row.
LEMMA ApplyBooks ==
    ASSUME PaymentsInv, BooksInv, Provider = "stripe", NEW p \in Intent,
           NEW to \in EventStatus \cup {NoStatus}, NEW known,
           Apply(p, to, known), WasIn(intent[p], to)
    PROVE  \A q \in Intent : /\ WasIn(intent[q], payment'[q].status)
                             /\ Booked(payment'[q])
<1>1. /\ payment \in [Intent -> PaymentRow]
      /\ \A q \in Intent : /\ WasIn(intent[q], payment[q].status)
                           /\ Booked(payment[q])
  BY DEF PaymentsInv, TypeOK, BooksInv
<1>2. CASE Repeated(p, to)
  <2>1. payment' = payment
    BY <1>2 DEF Apply, paymentRows
  <2> QED BY <1>1, <2>1
<1>3. CASE ~Repeated(p, to)
  <2>1. payment' = [payment EXCEPT ![p] =
           [status |-> to, known |-> known,
            received |-> @.received + Entries(p, to)]]
    BY <1>3 DEF Apply
  <2>2. /\ payment'[p].status = to
        /\ payment'[p].received = payment[p].received + Entries(p, to)
        /\ \A q \in Intent : q # p => payment'[q] = payment[q]
    BY <1>1, <2>1
  <2>3. payment[p].status = "SUCCEEDED" => to = "SUCCEEDED"
    BY DEF Apply, Applicable, PaymentTransitions, EventStatus, NoStatus
  <2>4. Booked(payment'[p])
    <3>1. payment[p].received = IF payment[p].status = "SUCCEEDED" THEN 1
                                ELSE 0
      BY <1>1 DEF Booked
    <3>2. Entries(p, to) = IF to = "SUCCEEDED"
                              /\ payment[p].status # "SUCCEEDED"
                           THEN 1 ELSE 0
      BY DEF Entries
    <3> QED BY <2>2, <2>3, <3>1, <3>2 DEF Booked
  <2> QED BY <1>1, <2>2, <2>4
<1> QED BY <1>2, <1>3

\* A step keeps BooksInv if what it adds is about a status the intent has been
\* in, and what it does to the intent follows.
LEMMA BooksKeep ==
    ASSUME BooksInv, Provider = "stripe", settling' = {},
           \A p \in Intent :
              /\ Follows(intent[p], intent'[p])
              /\ checkout'[p].pc \in {"idle", "checked", "calling"} =>
                    intent'[p] = NoStatus
              /\ checkout'[p].result \in {NoStatus, "CREATED"}
              /\ WasIn(intent[p], payment'[p].status)
              /\ Booked(payment'[p]),
           \A p \in Intent, s \in EventStatus :
              event'[<<p, s>>] # "unsent" \/ <<p, s>> \in handling' =>
                 \/ event[<<p, s>>] # "unsent" \/ <<p, s>> \in handling
                 \/ WasIn(intent'[p], s),
           \A job \in jobs' : job.pc = "apply" =>
              job \in jobs \/ WasIn(intent'[job.intent], job.result),
           \A job \in jobs' : job.intent \in Intent
    PROVE  BooksInv'
<1>1. \A p \in Intent : WasIn(intent'[p], payment'[p].status)
  BY WasInStays
<1>2. ASSUME NEW p \in Intent, NEW s \in EventStatus,
             event'[<<p, s>>] # "unsent" \/ <<p, s>> \in handling'
      PROVE  WasIn(intent'[p], s)
  <2>1. CASE event[<<p, s>>] # "unsent" \/ <<p, s>> \in handling
    <3>1. WasIn(intent[p], s)
      BY <2>1 DEF BooksInv
    <3> QED BY <3>1, WasInStays
  <2>2. CASE WasIn(intent'[p], s)
    BY <2>2
  <2> QED BY <1>2, <2>1, <2>2
<1>3. ASSUME NEW job \in jobs', job.pc = "apply"
      PROVE  WasIn(intent'[job.intent], job.result)
  <2>1. CASE job \in jobs
    <3>1. WasIn(intent[job.intent], job.result) /\ job.intent \in Intent
      BY <1>3, <2>1 DEF BooksInv
    <3> QED BY <3>1, WasInStays
  <2> QED BY <1>3, <2>1
<1>4. /\ \A p \in Intent : WasIn(intent[p], payment[p].status)'
      /\ \A p \in Intent : Booked(payment[p])'
  BY <1>1 DEF WasIn, Booked
<1>5. /\ \A p \in Intent, s \in EventStatus :
            (event[<<p, s>>] # "unsent" \/ <<p, s>> \in handling =>
               WasIn(intent[p], s))'
      /\ \A job \in jobs' :
            (job.pc = "apply" => WasIn(intent[job.intent], job.result))'
  BY <1>2, <1>3 DEF WasIn
<1> QED BY <1>4, <1>5 DEF BooksInv

\* A webhook that Stripe sends.
LEMMA SentBooks ==
    ASSUME PaymentsInv, NEW p \in Intent, NEW to \in EventStatus,
           event' = Sent(p, to), WasIn(intent'[p], to)
    PROVE  \A q \in Intent, s \in EventStatus : event'[<<q, s>>] # "unsent" =>
              event[<<q, s>>] # "unsent" \/ WasIn(intent'[q], s)
<1> SUFFICES ASSUME NEW q \in Intent, NEW s \in EventStatus,
                    event'[<<q, s>>] # "unsent", event[<<q, s>>] = "unsent"
             PROVE  WasIn(intent'[q], s)
  OBVIOUS
<1>1. event \in [Event -> EventState] /\ <<q, s>> \in Event
  BY DEF PaymentsInv, TypeOK, Event
<1>2. <<q, s>> = <<p, to>>
  BY <1>1 DEF Sent
<1> QED BY <1>2

\* Every step keeps the books.
LEMMA BooksInvStep ==
    ASSUME PaymentsInv, BooksInv, [Next]_vars
    PROVE  BooksInv'
<1> SUFFICES ASSUME Provider = "stripe" PROVE BooksInv'
  BY DEF BooksInv
<1>0. Provider = "stripe"
  OBVIOUS
<1>1. /\ \A job \in jobs : job.intent \in Intent /\ job \in Job
      /\ checkout \in [Intent -> Checkout]
      /\ intent \in [Intent -> EventStatus \cup {NoStatus}]
      /\ event \in [Event -> EventState]
      /\ payment \in [Intent -> PaymentRow]
  BY DEF PaymentsInv, TypeOK, Job
<1>2. /\ settling = {}
      /\ \A p \in Intent :
            /\ checkout[p].pc \in {"idle", "checked", "calling"} =>
                  intent[p] = NoStatus
            /\ checkout[p].result \in {NoStatus, "CREATED"}
            /\ WasIn(intent[p], payment[p].status)
            /\ Booked(payment[p])
      /\ \A p \in Intent, s \in EventStatus :
            event[<<p, s>>] # "unsent" \/ <<p, s>> \in handling =>
               WasIn(intent[p], s)
      /\ \A job \in jobs : job.pc = "apply" =>
            WasIn(intent[job.intent], job.result)
  BY <1>0 DEF BooksInv
<1>3. /\ \A p \in Intent : Follows(intent[p], intent[p])
      /\ \A now : WasIn(now, "CREATED") /\ WasIn(now, "FAILED")
                  /\ WasIn(now, NoStatus) /\ WasIn(now, now)
                  /\ WasIn(now, "REQUIRES_ACTION")
  BY DEF Follows, WasIn, HeldOnce, NoStatus
\* createPaymentIntent
<1>4. ASSUME NEW p \in Intent,
             BeginCheckout(p) \/ RefuseCheckout(p) \/ InsertPayment(p)
      PROVE  BooksInv'
  <2>1. UNCHANGED <<intent, event, handling, settling, jobs>>
    BY <1>4 DEF BeginCheckout, RefuseCheckout, InsertPayment
  <2>2. /\ \A q \in Intent : q # p => checkout'[q] = checkout[q]
        /\ checkout'[p].result = checkout[p].result
        /\ checkout[p].pc \in {"idle", "checked"}
    BY <1>1, <1>4 DEF BeginCheckout, RefuseCheckout, InsertPayment, At, Checkout
  <2>3. \A q \in Intent : WasIn(intent[q], payment'[q].status)
                          /\ Booked(payment'[q])
    <3>1. CASE InsertPayment(p)
      <4>1. payment' = [payment EXCEPT ![p].status = "CREATED"]
            /\ payment[p].status = NoStatus
        BY <2>2, <3>1 DEF InsertPayment, PaymentsInv, RowInv
      <4>2. /\ payment'[p].status = "CREATED"
            /\ payment'[p].received = payment[p].received
            /\ \A q \in Intent : q # p => payment'[q] = payment[q]
        BY <1>1, <4>1 DEF PaymentRow
      <4>3. Booked(payment'[p])
        BY <1>2, <4>1, <4>2 DEF Booked, NoStatus
      <4> QED BY <1>2, <1>3, <4>2, <4>3
    <3>2. CASE BeginCheckout(p) \/ RefuseCheckout(p)
      <4>1. payment' = payment
        BY <3>2 DEF BeginCheckout, RefuseCheckout, paymentRows
      <4> QED BY <1>2, <4>1
    <3> QED BY <1>4, <3>1, <3>2
  <2> QED BY <1>0, <1>1, <1>2, <1>3, <2>1, <2>2, <2>3, BooksKeep
<1>5. ASSUME NEW p \in Intent, CreateIntent(p) \/ ProviderUnreachable(p)
      PROVE  BooksInv'
  <2>1. UNCHANGED <<payment, handling, settling, jobs>>
    BY <1>5 DEF CreateIntent, ProviderUnreachable, paymentRows
  <2>2. intent[p] = NoStatus
    BY <1>2, <1>5 DEF CreateIntent, ProviderUnreachable, At
  <2>3. /\ \A q \in Intent : q # p => checkout'[q] = checkout[q]
        /\ checkout'[p].result \in {NoStatus, "CREATED"}
        /\ checkout'[p].pc \in {"returned", "unreachable"}
    BY <1>0, <1>1, <1>2, <1>5 DEF CreateIntent, ProviderUnreachable, Answers,
                                  Checkout
  <2>4. \/ UNCHANGED <<intent, event>>
        \/ /\ intent' = [intent EXCEPT ![p] = "CREATED"]
           /\ event' = Sent(p, "CREATED")
    BY <1>0, <1>5 DEF CreateIntent, ProviderUnreachable, Answers
  <2>5. /\ \A q \in Intent : q # p => intent'[q] = intent[q]
        /\ Follows(intent[p], intent'[p])
    BY <1>1, <2>2, <2>4 DEF Follows, HeldOnce, NoStatus
  <2>6. \A q \in Intent, s \in EventStatus : event'[<<q, s>>] # "unsent" =>
           event[<<q, s>>] # "unsent" \/ WasIn(intent'[q], s)
    BY <1>3, <2>4, SentBooks DEF EventStatus
  <2> QED BY <1>0, <1>1, <1>2, <1>3, <2>1, <2>3, <2>5, <2>6, BooksKeep
<1>6. ASSUME NEW p \in Intent, FinishCheckout(p) \/ FailCheckout(p)
      PROVE  BooksInv'
  <2>1. /\ UNCHANGED <<intent, event, handling>>
        /\ checkout' = [checkout EXCEPT ![p].pc = "over"]
    BY <1>6 DEF FinishCheckout, FailCheckout
  <2>2. \E to \in {NoStatus, "CREATED", "FAILED"}, known \in BOOLEAN :
           Apply(p, to, known)
    BY <1>2, <1>6 DEF FinishCheckout, FailCheckout
  <2>3. \A q \in Intent : WasIn(intent[q], payment'[q].status)
                          /\ Booked(payment'[q])
    BY <1>0, <1>3, <2>2, ApplyBooks DEF EventStatus
  <2>4. settling' = {}
    BY <1>2, <1>6 DEF FinishCheckout, FailCheckout, NoStatus
  <2>5. jobs' = jobs
    <3>1. CASE FinishCheckout(p)
      <4>1. checkout[p].result # "AUTHORIZED"
        BY <1>2 DEF NoStatus
      <4> QED BY <3>1, <4>1 DEF FinishCheckout
    <3>2. CASE FailCheckout(p)
      BY <3>2 DEF FailCheckout
    <3> QED BY <1>6, <3>1, <3>2
  <2>6. /\ \A q \in Intent : q # p => checkout'[q] = checkout[q]
        /\ checkout'[p].result = checkout[p].result
        /\ checkout'[p].pc = "over"
    BY <1>1, <2>1 DEF Checkout
  <2> QED BY <1>0, <1>1, <1>2, <1>3, <2>1, <2>3, <2>4, <2>5, <2>6, BooksKeep
\* Stripe
<1>7. ASSUME NEW p \in Intent,
             StripeProgress(p) \/ StripeAttemptFails(p) \/ StripeReleases(p)
      PROVE  BooksInv'
  <2>1. UNCHANGED <<payment, checkout, handling, settling, jobs>>
    BY <1>7 DEF StripeProgress, StripeAttemptFails, StripeReleases, paymentRows,
                work
  <2>2. PICK next \in EventStatus, to \in EventStatus :
           /\ intent' = [intent EXCEPT ![p] = next]
           /\ event' = Sent(p, to)
           /\ to \in {next, "FAILED"}
           /\ Follows(intent[p], next)
    BY <1>7 DEF StripeProgress, StripeAttemptFails, StripeReleases, EventStatus,
                StripeMoves, Follows, HeldOnce
  <2>3. /\ intent'[p] = next
        /\ \A q \in Intent : q # p => intent'[q] = intent[q]
    BY <1>1, <2>2
  <2>4. checkout[p].pc \notin {"idle", "checked", "calling"}
    <3>1. payment[p].known \/ intent[p] = "AUTHORIZED"
      BY <1>7 DEF StripeProgress, StripeAttemptFails, StripeReleases
    <3>2. checkout[p].pc \in {"idle", "checked", "calling"} =>
             ~payment[p].known
      BY <1>1 DEF PaymentsInv, RowInv, PaymentRow
    <3>3. checkout[p].pc \in {"idle", "checked", "calling"} =>
             intent[p] # "AUTHORIZED"
      BY <1>2 DEF NoStatus
    <3> QED BY <3>1, <3>2, <3>3
  <2>5. WasIn(intent'[p], to)
    BY <1>3, <2>2, <2>3
  <2>6. \A q \in Intent, s \in EventStatus : event'[<<q, s>>] # "unsent" =>
           event[<<q, s>>] # "unsent" \/ WasIn(intent'[q], s)
    BY <2>2, <2>5, SentBooks
  <2> QED BY <1>0, <1>1, <1>2, <1>3, <2>1, <2>2, <2>3, <2>4, <2>6, BooksKeep
\* Decisions
<1>8. ASSUME NEW b \in Booking, NEW decision \in Decision,
             DecisionStep(b, decision)
      PROVE  BooksInv'
  <2>1. UNCHANGED <<payment, intent, event, handling, settling, checkout>>
    BY <1>8 DEF DecisionStep, SettleAuthorization, ResolveRefundPolicy,
                paymentRows
  <2>2. \A job \in jobs' :
           job \in jobs \/ (job.pc = "check" /\ job.intent \in Intent)
    BY <1>8 DEF DecisionStep, SettleAuthorization, ResolveRefundPolicy, NewJob,
                AuthorizedFor, ActiveFor
  <2> QED BY <1>0, <1>1, <1>2, <1>3, <2>1, <2>2, BooksKeep
<1>9. ASSUME NEW p \in Intent, SyncWithDecision(p)
      PROVE  BooksInv'
  <2>1. UNCHANGED <<payment, intent, event, handling, settling, checkout>>
    BY <1>9 DEF SyncWithDecision, paymentRows
  <2>2. \A job \in jobs' :
           job \in jobs \/ (job.pc = "check" /\ job.intent \in Intent)
    BY <1>9 DEF SyncWithDecision, NewJob
  <2> QED BY <1>0, <1>1, <1>2, <1>3, <2>1, <2>2, BooksKeep
\* #executeCaptureOrVoid
<1>10. ASSUME NEW job \in jobs,
              \/ CheckJob(job) \/ CallProvider(job) \/ CallProviderTooLate(job)
              \/ CallFails(job)
       PROVE  BooksInv'
  <2> DEFINE p == job.intent
  <2>1. p \in Intent /\ job \in Job
    BY <1>1
  <2>2. UNCHANGED <<payment, handling, settling, checkout>>
    BY <1>10 DEF CheckJob, CallProvider, CallProviderTooLate, CallFails,
                 paymentRows
  <2>3. \/ UNCHANGED <<intent, event>>
        \/ /\ intent[p] = "AUTHORIZED"
           /\ intent' = [intent EXCEPT ![p] = Wanted(job)]
           /\ event' = Sent(p, Wanted(job))
    BY <1>0, <1>10 DEF CheckJob, CallProvider, CallProviderTooLate, CallFails,
                       CaptureOrVoid
  <2>4. Wanted(job) \in EventStatus /\ Wanted(job) \in HeldOnce
    BY DEF Wanted, EventStatus, HeldOnce
  <2>5. /\ \A q \in Intent : q # p => intent'[q] = intent[q]
        /\ Follows(intent[p], intent'[p])
        /\ intent[p] # "AUTHORIZED" => intent' = intent
    BY <1>1, <2>1, <2>3, <2>4 DEF Follows
  <2>6. \A q \in Intent, s \in EventStatus : event'[<<q, s>>] # "unsent" =>
           event[<<q, s>>] # "unsent" \/ WasIn(intent'[q], s)
    <3>1. CASE UNCHANGED <<intent, event>>
      BY <3>1
    <3>2. CASE ~UNCHANGED <<intent, event>>
      <4>1. intent'[p] = Wanted(job) /\ event' = Sent(p, Wanted(job))
        BY <1>1, <2>1, <2>3, <3>2
      <4>2. WasIn(intent'[p], Wanted(job))
        BY <1>3, <4>1
      <4> QED BY <2>1, <2>4, <4>1, <4>2, SentBooks
    <3> QED BY <3>1, <3>2
  <2>7. checkout[p].pc \in {"idle", "checked", "calling"} =>
           intent'[p] = NoStatus
    BY <1>2, <2>1, <2>5 DEF NoStatus
  <2>8. ASSUME NEW next \in jobs'
        PROVE  \/ next \in jobs
               \/ /\ next.intent = p
                  /\ next.pc = "apply" => WasIn(intent'[p], next.result)
    <3>1. CASE CheckJob(job)
      <4>1. next \in jobs \/ next \in Move(job, "call", NoStatus)
        BY <3>1 DEF CheckJob, Replace
      <4> QED BY <2>1, <4>1 DEF Move, Job
    <3>2. CASE CallProvider(job)
      <4>1. next \in jobs \/ next \in Move(job, "apply", Wanted(job))
        BY <3>2 DEF CallProvider, Replace
      <4>2. intent'[p] = Wanted(job)
        BY <1>1, <2>1, <3>2 DEF CallProvider, CaptureOrVoid
      <4>3. next \in Move(job, "apply", Wanted(job)) =>
               next.intent = p /\ next.result = Wanted(job)
        BY <2>1 DEF Move, Job
      <4> QED BY <1>3, <4>1, <4>2, <4>3
    <3>3. CASE CallProviderTooLate(job)
      <4>1. next \in jobs \/ next \in Move(job, "apply", intent[p])
        BY <1>0, <3>3 DEF CallProviderTooLate, Replace
      <4>2. intent' = intent
        BY <3>3 DEF CallProviderTooLate
      <4>3. next \in Move(job, "apply", intent[p]) =>
               next.intent = p /\ next.result = intent[p]
        BY <2>1 DEF Move, Job
      <4> QED BY <1>3, <4>1, <4>2, <4>3
    <3>4. CASE CallFails(job)
      BY <3>4 DEF CallFails, Replace
    <3> QED BY <1>10, <3>1, <3>2, <3>3, <3>4
  <2> HIDE DEF p
  <2> QED BY <1>0, <1>1, <1>2, <1>3, <2>1, <2>2, <2>5, <2>6, <2>7, <2>8,
             BooksKeep
<1>11. ASSUME NEW job \in jobs, ApplyAnswer(job)
       PROVE  BooksInv'
  <2>1. /\ UNCHANGED <<intent, event, handling, settling, checkout>>
        /\ jobs' \subseteq jobs
    BY <1>11 DEF ApplyAnswer, Replace
  <2>2. \A q \in Intent : WasIn(intent[q], payment'[q].status)
                          /\ Booked(payment'[q])
    <3>1. CASE UNCHANGED paymentRows
      BY <1>2, <3>1 DEF paymentRows
    <3>2. CASE Apply(job.intent, job.result, TRUE)
      <4>1. /\ job.intent \in Intent
            /\ job.result \in EventStatus \cup {NoStatus}
            /\ WasIn(intent[job.intent], job.result)
        BY <1>1, <1>2, <1>11 DEF Job, ApplyAnswer
      <4> QED BY <1>0, <3>2, <4>1, ApplyBooks
    <3> QED BY <1>11, <3>1, <3>2 DEF ApplyAnswer
  <2> QED BY <1>0, <1>1, <1>2, <1>3, <2>1, <2>2, BooksKeep
\* handleProviderWebhook
<1>12. ASSUME NEW e \in Event,
              \/ Deliver(e) \/ HandleUnknown(e) \/ HandleEvent(e)
              \/ HandleConflict(e) \/ HandleFails(e)
       PROVE  BooksInv'
  <2>1. UNCHANGED <<intent, settling, checkout, jobs>>
    BY <1>12 DEF Deliver, HandleUnknown, HandleEvent, HandleConflict,
                 HandleFails
  <2>2. event[e] # "unsent" \/ e \in handling
    BY <1>12 DEF Deliver, HandleUnknown, HandleEvent, HandleConflict,
                 HandleFails
  <2>3. /\ \A f \in Event : f # e => event'[f] = event[f]
        /\ handling' \subseteq handling \cup {e}
    BY <1>1, <1>12 DEF Deliver, HandleUnknown, HandleEvent, HandleConflict,
                       HandleFails
  <2>4. \A q \in Intent, s \in EventStatus :
           event'[<<q, s>>] # "unsent" \/ <<q, s>> \in handling' =>
              event[<<q, s>>] # "unsent" \/ <<q, s>> \in handling
    BY <2>2, <2>3 DEF Event
  <2>5. \A q \in Intent : WasIn(intent[q], payment'[q].status)
                          /\ Booked(payment'[q])
    <3>1. CASE UNCHANGED paymentRows
      BY <1>2, <3>1 DEF paymentRows
    <3>2. CASE HandleEvent(e)
      <4>1. PICK q \in Intent, s \in EventStatus : e = <<q, s>>
        BY DEF Event
      <4>2. Apply(q, s, TRUE) /\ WasIn(intent[q], s)
        BY <1>2, <3>2, <4>1 DEF HandleEvent
      <4> QED BY <1>0, <4>2, ApplyBooks
    <3> QED BY <1>12, <3>1, <3>2
            DEF Deliver, HandleUnknown, HandleConflict, HandleFails
  <2> QED BY <1>0, <1>1, <1>2, <1>3, <2>1, <2>4, <2>5, BooksKeep
<1>13. ASSUME NEW p \in Intent, SettleLocally(p)
       PROVE  BooksInv'
  BY <1>2, <1>13 DEF SettleLocally
\* Crashes, and the bookings by themselves
<1>14. CASE Crash
  <2>1. /\ UNCHANGED <<payment, intent, event, settling>>
        /\ handling' = {} /\ jobs' = {}
    BY <1>14 DEF Crash, paymentRows
  <2>2. \A q \in Intent :
           /\ checkout'[q].pc \in {"idle", "checked", "calling"} =>
                 checkout[q].pc = "idle"
           /\ checkout'[q].result = checkout[q].result
    BY <1>1, <1>14 DEF Crash, Checkout, At
  <2> QED BY <1>0, <1>1, <1>2, <1>3, <2>1, <2>2, BooksKeep
<1>15. CASE \/ BookingsNext /\ UNCHANGED <<paymentRows, intent, event, work>>
            \/ UNCHANGED vars
  <2>1. UNCHANGED <<payment, intent, event, handling, settling, checkout, jobs>>
    BY <1>15 DEF vars, paymentRows, work
  <2> QED BY <1>0, <1>1, <1>2, <1>3, <2>1, BooksKeep
<1>16. CASE Progress
  BY <1>16, <1>4, <1>5, <1>6, <1>8, <1>9, <1>10, <1>11, <1>12, <1>13
     DEF Progress, CheckoutStep, JobStep, WebhookStep
<1>17. CASE Environment
  BY <1>17, <1>4, <1>5, <1>7, <1>10, <1>12, <1>14 DEF Environment
<1> QED BY <1>15, <1>16, <1>17 DEF Next

\* Whatever Stripe answers, reports, repeats, delays or loses, and wherever the
\* process dies: money is entered once, for a payment that shows it and an
\* intent that was captured, and a voided payment's intent is voided
\* (#applyProviderResult, handleProviderWebhook).
THEOREM BooksAgree == Spec => []BooksFollowStripe
<1>1. Init => BooksInv
  BY DEF Init, BooksInv, WasIn, Booked, NoStatus, Event
<1>2. PaymentsInv /\ BooksInv /\ [Next]_vars => BooksInv'
  BY BooksInvStep
<1>3. BooksInv => BooksFollowStripe
  BY DEF BooksInv, BooksFollowStripe, WasIn, Booked, HeldOnce
<1> QED BY <1>1, <1>2, <1>3, PaymentsInvariant, PTL DEF Spec

-----------------------------------------------------------------------------
(* Refunds *)

\* What a row that a call has, or has not, inserted looks like.
RefundRowInv ==
    \A c \in RefundCalls :
        /\ refundCall[c].pc \in {"idle", "checked"} => refundRow[c] = NoRefund
        /\ refundCall[c].pc \in {"created", "answered", "unreachable"} =>
              refundRow[c] = "CREATED"
        /\ c \in refundKnown =>
              /\ refundCall[c].pc = "over"
              /\ refundRow[c] \in {"PROCESSING", "SUCCEEDED", "FAILED"}
        /\ c \notin refundKnown =>
              refundRow[c] \in {NoRefund, "CREATED", "FAILED"}
        /\ refundRow[c] # NoRefund => refundCall[c].ask.amount \in 1..Captured

\* What Stripe has done for a call, and what has been heard of it.
StripeRefundInv ==
    \A c \in RefundCalls :
        /\ refundCall[c].pc \in {"idle", "checked", "created"} =>
              stripeRefund[c] = NoRefund
        /\ stripeRefund[c] # NoRefund => refundRow[c] # NoRefund
        /\ refundCall[c].pc = "answered" /\ refundCall[c].answer = "SUCCEEDED"
              => stripeRefund[c] = "SUCCEEDED"
        /\ <<c, "SUCCEEDED">> \in refundEvent => stripeRefund[c] = "SUCCEEDED"

\* The automatic refund is started by the cancellation that reads the payment.
CancellingInv ==
    /\ cancelling.by = "nobody" => cancelling.pc = "idle"
    /\ cancelling.pc \in {"idle", "read"} => refundCall[AutoCall].pc = "idle"

\* uq_refunds_idempotency_key.
OneRowPerKey ==
    \A c, d \in RefundCalls :
        /\ refundRow[c] # NoRefund /\ refundRow[d] # NoRefund
        /\ refundCall[c].ask.key = refundCall[d].ask.key
        => c = d

\* REFUNDED was right when it was written, and stays so until a refund fails.
RolledUpInv ==
    /\ paidSummary = "REFUNDED_ONLINE" <=> refundPay.status = "REFUNDED"
    /\ (\A c \in RefundCalls : refundRow[c] # "FAILED")
       /\ refundPay.status = "REFUNDED" => refundPay.refunded = Captured
    /\ (\A c \in RefundCalls : refundRow[c] \in {NoRefund, "SUCCEEDED"})
       /\ refundPay.refunded = Captured => refundPay.status = "REFUNDED"

RefundsInv == /\ RefundsTypeOK /\ RefundedIsReserved /\ LedgerFollowsRefunds
              /\ RefundRowInv /\ StripeRefundInv /\ CancellingInv
              /\ OneRowPerKey /\ RolledUpInv

-----------------------------------------------------------------------------
(* Sums of amounts *)

\* The amounts that calls are about.
Amounts(calls) == [c \in RefundCalls |-> calls[c].ask.amount]

\* There are finitely many calls.
LEMMA CallsFinite == IsFiniteSet(RefundCalls)
BY RefundAssumption, FS_AddElement DEF RefundCalls

\* The fold that adds up amounts is a sum.
LEMMA FoldIsSum ==
    ASSUME NEW rc, NEW S \in SUBSET RefundCalls,
           \A c \in S : rc[c].ask.amount \in Nat
    PROVE  MapThenSumSet(LAMBDA c : rc[c].ask.amount, S) =
               SumOver(Amounts(rc), S)
<1> DEFINE f == Amounts(rc)
           A(h) == [s \in SUBSET S |->
                      IF s = {} THEN 0
                      ELSE rc[CHOOSE c \in s : TRUE].ask.amount
                           + h[s \ {CHOOSE c \in s : TRUE}]]
           g == CHOOSE h : h = A(h)
<1>1. IsFiniteSet(S) /\ \A c \in S : f[c] \in Nat
  BY CallsFinite, FS_Subset DEF Amounts
<1>2. ASSUME NEW h PROVE (h = A(h)) <=> IsSum(h, f, S)
  <2>1. ASSUME NEW s \in SUBSET S, s # {}
        PROVE  f[Picked(s)] = rc[CHOOSE c \in s : TRUE].ask.amount
    BY <2>1 DEF Picked, Amounts
  <2> HIDE DEF f
  <2>2. ASSUME NEW s \in SUBSET S
        PROVE  (IF s = {} THEN 0
                ELSE rc[CHOOSE c \in s : TRUE].ask.amount
                     + h[s \ {CHOOSE c \in s : TRUE}])
               = IF s = {} THEN 0 ELSE f[Picked(s)] + h[s \ {Picked(s)}]
    BY <2>1 DEF Picked
  <2>3. A(h) = [s \in SUBSET S |->
            IF s = {} THEN 0 ELSE f[Picked(s)] + h[s \ {Picked(s)}]]
    BY <2>2
  <2> HIDE DEF A
  <2> QED BY <2>3 DEF IsSum
<1>3. MapThenSumSet(LAMBDA c : rc[c].ask.amount, S) = g[S]
  BY DEF MapThenSumSet, MapThenFoldSet
<1> HIDE DEF f, A
<1>4. g = A(g)
  BY <1>1, <1>2, SumExists
<1>5. IsSum(g, f, S)
  BY <1>2, <1>4
<1> HIDE DEF g
<1>6. g[S] = Cardinality(Units(f, S))
  BY <1>1, <1>5, SumUnique
<1> QED BY <1>1, <1>3, <1>6, SumIsCount DEF f

\* The same for calls of the right type, now and after a step.
LEMMA ReservedNow ==
    ASSUME RefundsTypeOK, NEW statuses
    PROVE  SumOf(InStatus(statuses)) =
              SumOver(Amounts(refundCall), InStatus(statuses))
<1>1. \A c \in RefundCalls : refundCall[c].ask.amount \in Nat
  BY RefundAssumption DEF RefundsTypeOK, RefundCallRecord, Ask
<1>2. InStatus(statuses) \in SUBSET RefundCalls
  BY DEF InStatus
<1> QED BY <1>1, <1>2, FoldIsSum
           DEF SumOf, AmountOf, MapThenSumSet, MapThenFoldSet

\* The same for the calls after a step.
LEMMA ReservedNext ==
    ASSUME RefundsTypeOK', NEW statuses
    PROVE  SumOf(InStatus(statuses))' =
              SumOver(Amounts(refundCall'), InStatus(statuses)')
<1>1. \A c \in RefundCalls : refundCall'[c].ask.amount \in Nat
  BY RefundAssumption DEF RefundsTypeOK, RefundCallRecord, Ask
<1>2. InStatus(statuses)' \in SUBSET RefundCalls
  BY DEF InStatus
<1> QED BY <1>1, <1>2, FoldIsSum
           DEF SumOf, AmountOf, MapThenSumSet, MapThenFoldSet

\* Amounts are numbers, and those of finitely many calls.
LEMMA ReservingTyped ==
    ASSUME NEW rc \in [RefundCalls -> RefundCallRecord],
           NEW S \in SUBSET RefundCalls
    PROVE  IsFiniteSet(S) /\ \A c \in S : Amounts(rc)[c] \in Nat
<1>1. IsFiniteSet(S)
  BY CallsFinite, FS_Subset
<1> QED BY <1>1, RefundAssumption DEF Amounts, RefundCallRecord, Ask

\* What is reserved stays the sum when no refund enters or leaves it.
LEMMA ReservedSame ==
    ASSUME RefundedIsReserved, NEW rc \in [RefundCalls -> RefundCallRecord],
           RefundsTypeOK, refundCall' = rc,
           refundPay'.refunded = refundPay.refunded,
           InStatus(Reserving)' = InStatus(Reserving),
           \A c \in InStatus(Reserving) : rc[c].ask = refundCall[c].ask
    PROVE  refundPay'.refunded =
              SumOver(Amounts(refundCall'), InStatus(Reserving)')
<1> DEFINE S == InStatus(Reserving)
           f == Amounts(refundCall)
           g == Amounts(rc)
<1>1. S \in SUBSET RefundCalls
  BY DEF InStatus
<1>2. IsFiniteSet(S) /\ \A c \in S : f[c] \in Nat
  BY <1>1, ReservingTyped DEF RefundsTypeOK
<1>3. \A c \in S : g[c] = f[c]
  BY <1>1 DEF Amounts
<1>4. SumOver(g, S) = SumOver(f, S)
  <2> HIDE DEF f, g, S
  <2> QED BY <1>2, <1>3, SumSame
<1>5. refundPay.refunded = SumOver(f, S)
  BY ReservedNow DEF RefundedIsReserved
<1> QED BY <1>4, <1>5

\* A refund that enters adds its amount to what is reserved.
LEMMA ReservedMore ==
    ASSUME RefundedIsReserved, RefundsTypeOK,
           NEW c \in RefundCalls \ InStatus(Reserving),
           \A d \in RefundCalls : refundCall'[d].ask = refundCall[d].ask,
           InStatus(Reserving)' = InStatus(Reserving) \cup {c},
           refundPay'.refunded = refundPay.refunded + AmountOf(c)
    PROVE  refundPay'.refunded =
              SumOver(Amounts(refundCall'), InStatus(Reserving)')
<1> DEFINE S == InStatus(Reserving)
           f == Amounts(refundCall)
<1>1. S \in SUBSET RefundCalls /\ S \cup {c} \in SUBSET RefundCalls
  BY DEF InStatus
<1>2. IsFiniteSet(S) /\ (\A d \in S : f[d] \in Nat) /\ f[c] \in Nat
  BY <1>1, ReservingTyped DEF RefundsTypeOK
<1>3. Amounts(refundCall') = f
  BY DEF Amounts
<1>4. SumOver(f, S \cup {c}) = SumOver(f, S) + f[c]
  <2> HIDE DEF f, S
  <2> QED BY <1>2, SumAdd DEF S
<1>5. refundPay.refunded = SumOver(f, S)
  BY ReservedNow DEF RefundedIsReserved
<1>6. f[c] = AmountOf(c)
  BY DEF Amounts, AmountOf
<1> QED BY <1>3, <1>4, <1>5, <1>6

\* A refund that leaves takes its amount with it, and had been counted.
LEMMA ReservedLess ==
    ASSUME RefundedIsReserved, RefundsTypeOK, NEW c \in InStatus(Reserving),
           \A d \in RefundCalls : refundCall'[d].ask = refundCall[d].ask,
           InStatus(Reserving)' = InStatus(Reserving) \ {c},
           refundPay'.refunded = refundPay.refunded - AmountOf(c)
    PROVE  /\ refundPay'.refunded =
                 SumOver(Amounts(refundCall'), InStatus(Reserving)')
           /\ refundPay'.refunded \in 0..Captured
<1> DEFINE S == InStatus(Reserving)
           f == Amounts(refundCall)
<1>1. S \in SUBSET RefundCalls
  BY DEF InStatus
<1>2. IsFiniteSet(S) /\ (\A d \in S : f[d] \in Nat)
  BY <1>1, ReservingTyped DEF RefundsTypeOK
<1>3. Amounts(refundCall') = f
  BY DEF Amounts
<1>4. SumOver(f, S \ {c}) = SumOver(f, S) - f[c] /\ f[c] <= SumOver(f, S)
  <2> HIDE DEF f
  <2> QED BY <1>2, SumRemove
<1>5. refundPay.refunded = SumOver(f, S)
  BY ReservedNow DEF RefundedIsReserved
<1>6. f[c] = AmountOf(c) /\ f[c] \in Nat
  BY <1>1, <1>2 DEF Amounts, AmountOf
<1>7. refundPay.refunded \in 0..Captured
  BY DEF RefundsTypeOK
<1> HIDE DEF f
<1> QED BY RefundAssumption, <1>3, <1>4, <1>5, <1>6, <1>7

-----------------------------------------------------------------------------
(* Steps that leave the rows of payments and refunds alone *)

\* They keep what is said of rows alone, if a call that has a row is still
\* about the same refund and what Stripe has paid stays paid.
LEMMA RefundRowsKept ==
    ASSUME RefundsInv, UNCHANGED moneyRows, RefundsTypeOK',
           \A c \in RefundCalls :
               /\ refundRow[c] # NoRefund =>
                     refundCall'[c].ask = refundCall[c].ask
               /\ stripeRefund[c] = "SUCCEEDED" =>
                     stripeRefund'[c] = "SUCCEEDED"
    PROVE  /\ RefundedIsReserved' /\ LedgerFollowsRefunds'
           /\ OneRowPerKey' /\ RolledUpInv'
<1> USE DEF RefundsInv, moneyRows
<1>1. InStatus(Reserving)' = InStatus(Reserving)
  BY DEF InStatus
<1>2. \A c \in InStatus(Reserving) : refundRow[c] # NoRefund
  BY DEF InStatus, Reserving, NoRefund
<1>3. refundPay'.refunded = SumOver(Amounts(refundCall'), InStatus(Reserving)')
  <2>1. refundCall' \in [RefundCalls -> RefundCallRecord]
    BY DEF RefundsTypeOK
  <2>2. \A c \in InStatus(Reserving) :
           refundCall'[c].ask = refundCall[c].ask
    BY <1>2 DEF InStatus
  <2>3. refundPay'.refunded = refundPay.refunded
    OBVIOUS
  <2> QED BY <1>1, <2>1, <2>2, <2>3, ReservedSame
<1>4. RefundedIsReserved'
  BY <1>3, ReservedNext DEF RefundedIsReserved
<1>5. OneRowPerKey'
  BY DEF OneRowPerKey
<1>6. LedgerFollowsRefunds'
  BY DEF LedgerFollowsRefunds
<1>7. RolledUpInv'
  BY DEF RolledUpInv
<1> QED BY <1>4, <1>5, <1>6, <1>7

\* An administrator's request keeps the invariant.
LEMMA CreateRefundKeeps ==
    ASSUME RefundsInv, NEW c \in RefundCalls, CreateRefund(c),
           refundFaults' \in 0..RefundFaultLimit
    PROVE  RefundsInv'
<1> USE DEF RefundsInv
<1>1. PICK ask \in Asked : LookUp(c, ask)
  BY DEF CreateRefund
<1>2. /\ c \in AdminCall /\ refundCall[c].pc = "idle" /\ UNCHANGED moneyRows
      /\ UNCHANGED <<stripeRefund, refundEvent, cancelling, review>>
  BY DEF CreateRefund, RefundAt
<1>3. ask \in Ask
  BY RefundAssumption DEF Ask
<1>4. /\ refundCall'[c].pc \in {"over", "checked"}
      /\ refundCall' \in [RefundCalls -> RefundCallRecord]
      /\ \A d \in RefundCalls : d # c => refundCall'[d] = refundCall[d]
  BY <1>1, <1>3 DEF LookUp, RefundsTypeOK, RefundCallRecord, NoRefund
<1>5. RefundsTypeOK'
  BY <1>2, <1>4 DEF RefundsTypeOK, moneyRows
<1>6. refundRow[c] = NoRefund
  BY <1>2 DEF RefundRowInv
<1>7. c \notin refundKnown /\ stripeRefund[c] = NoRefund
  BY <1>2 DEF RefundRowInv, StripeRefundInv
<1>8. RefundRowInv'
  BY <1>2, <1>4, <1>6, <1>7 DEF RefundRowInv, moneyRows
<1>9. StripeRefundInv'
  BY <1>2, <1>4, <1>7 DEF StripeRefundInv, moneyRows
<1>10. CancellingInv'
  BY <1>2, <1>4, RefundAssumption DEF CancellingInv, RefundCalls
<1> QED BY <1>2, <1>4, <1>5, <1>6, <1>8, <1>9, <1>10, RefundRowsKept

\* A refund that Stripe answers keeps the invariant.
LEMMA SendRefundKeeps ==
    ASSUME RefundsInv, NEW c \in RefundCalls, SendRefund(c),
           refundFaults' \in 0..RefundFaultLimit
    PROVE  RefundsInv'
<1> USE DEF RefundsInv
<1>1. PICK to \in ProviderRefundStatus :
          /\ StripeMakes(c, to)
          /\ refundCall' = [refundCall EXCEPT ![c].pc = "answered",
                                              ![c].answer = to]
  BY DEF SendRefund
<1>2. /\ refundCall[c].pc = "created" /\ UNCHANGED moneyRows
      /\ UNCHANGED <<cancelling, review>>
  BY DEF SendRefund, RefundAt
<1>3. /\ refundCall' \in [RefundCalls -> RefundCallRecord]
      /\ refundCall'[c].pc = "answered" /\ refundCall'[c].answer = to
      /\ refundCall'[c].ask = refundCall[c].ask
      /\ \A d \in RefundCalls : d # c => refundCall'[d] = refundCall[d]
  BY <1>1 DEF RefundsTypeOK, RefundCallRecord
<1>4. /\ stripeRefund' \in
            [RefundCalls -> ProviderRefundStatus \cup {NoRefund}]
      /\ stripeRefund'[c] = to
      /\ \A d \in RefundCalls : d # c => stripeRefund'[d] = stripeRefund[d]
      /\ refundEvent' \subseteq RefundCalls \X ProviderRefundStatus
      /\ refundEvent' \subseteq refundEvent \cup {<<c, to>>}
  BY <1>1, RefundAssumption
     DEF StripeMakes, Report, RefundsTypeOK, ProviderRefundStatus
<1>5. RefundsTypeOK'
  BY <1>2, <1>3, <1>4 DEF RefundsTypeOK, moneyRows
<1>6. stripeRefund[c] = NoRefund /\ c \notin refundKnown
      /\ refundRow[c] = "CREATED"
  BY <1>2 DEF RefundRowInv, StripeRefundInv
<1>7. RefundRowInv'
  BY <1>2, <1>3, <1>6 DEF RefundRowInv, moneyRows
<1>8. StripeRefundInv'
  BY <1>2, <1>3, <1>4, <1>6 DEF StripeRefundInv, moneyRows, NoRefund
<1>9. CancellingInv'
  BY <1>2, <1>3 DEF CancellingInv, RefundCalls
<1> QED BY <1>2, <1>3, <1>4, <1>5, <1>6, <1>7, <1>8, <1>9, RefundRowsKept
           DEF NoRefund

\* A call that stops waiting, whatever Stripe made of its request.
LEMMA StoppingKeeps ==
    ASSUME RefundsInv, NEW c \in RefundCalls,
           refundCall[c].pc \in {"created", "answered", "unreachable"},
           NEW pc \in {"unreachable", "error", "dead"}, Go(c, pc),
           UNCHANGED <<moneyRows, cancelling, review>>,
           \/ UNCHANGED <<stripeRefund, refundEvent>>
           \/ /\ refundCall[c].pc = "created"
              /\ \E to \in ProviderRefundStatus : StripeMakes(c, to),
           refundFaults' \in 0..RefundFaultLimit
    PROVE  RefundsInv'
<1> USE DEF RefundsInv
<1>1. /\ refundCall' \in [RefundCalls -> RefundCallRecord]
      /\ refundCall'[c].pc = pc /\ refundCall'[c].ask = refundCall[c].ask
      /\ \A d \in RefundCalls : d # c => refundCall'[d] = refundCall[d]
  BY DEF Go, RefundsTypeOK, RefundCallRecord
<1>2. refundRow[c] = "CREATED" /\ c \notin refundKnown
  BY DEF RefundRowInv
<1>3. /\ stripeRefund' \in
            [RefundCalls -> ProviderRefundStatus \cup {NoRefund}]
      /\ stripeRefund[c] = "SUCCEEDED" => stripeRefund'[c] = "SUCCEEDED"
      /\ \A d \in RefundCalls : d # c => stripeRefund'[d] = stripeRefund[d]
      /\ refundEvent' \subseteq RefundCalls \X ProviderRefundStatus
      /\ <<c, "SUCCEEDED">> \in refundEvent' => stripeRefund'[c] = "SUCCEEDED"
      /\ \A d \in RefundCalls :
            d # c => (<<d, "SUCCEEDED">> \in refundEvent' =>
                      <<d, "SUCCEEDED">> \in refundEvent)
  <2>1. CASE UNCHANGED <<stripeRefund, refundEvent>>
    BY <2>1 DEF RefundsTypeOK, StripeRefundInv
  <2>2. CASE /\ refundCall[c].pc = "created"
             /\ \E to \in ProviderRefundStatus : StripeMakes(c, to)
    <3>1. PICK to \in ProviderRefundStatus : StripeMakes(c, to)
      BY <2>2
    <3>2. stripeRefund[c] = NoRefund
      BY <2>2 DEF StripeRefundInv
    <3>3. refundEvent' \subseteq refundEvent \cup {<<c, to>>}
      BY <3>1 DEF StripeMakes, Report
    <3>4. <<c, "SUCCEEDED">> \notin refundEvent
      BY <3>2 DEF StripeRefundInv, NoRefund
    <3>5. stripeRefund' = [stripeRefund EXCEPT ![c] = to]
      BY <3>1 DEF StripeMakes
    <3> QED BY <3>2, <3>3, <3>4, <3>5
            DEF RefundsTypeOK, NoRefund, ProviderRefundStatus
  <2> QED BY <2>1, <2>2
<1>4. RefundsTypeOK'
  BY <1>1, <1>3 DEF RefundsTypeOK, moneyRows
<1>5. RefundRowInv'
  BY <1>1, <1>2 DEF RefundRowInv, moneyRows
<1>6. StripeRefundInv'
  BY <1>1, <1>2, <1>3 DEF StripeRefundInv, moneyRows, NoRefund
<1>7. CancellingInv'
  BY <1>1 DEF CancellingInv, RefundCalls
<1> QED BY <1>1, <1>3, <1>4, <1>5, <1>6, <1>7, RefundRowsKept

\* A pending refund that Stripe settles keeps the invariant.
LEMMA StripeSettlesKeeps ==
    ASSUME RefundsInv, NEW c \in RefundCalls, StripeSettles(c),
           refundFaults' \in 0..RefundFaultLimit
    PROVE  RefundsInv'
<1> USE DEF RefundsInv
<1>1. PICK to \in {"SUCCEEDED", "FAILED"} :
          /\ stripeRefund' = [stripeRefund EXCEPT ![c] = to]
          /\ refundEvent' = refundEvent \cup Report(c, to)
  BY DEF StripeSettles
<1>2. /\ stripeRefund[c] = "PROCESSING"
      /\ UNCHANGED <<moneyRows, refundCall, cancelling, review>>
  BY DEF StripeSettles
<1>3. refundEvent' \subseteq refundEvent \cup {<<c, to>>}
  BY <1>1 DEF Report
<1>4. RefundsTypeOK'
  BY <1>1, <1>2, <1>3 DEF RefundsTypeOK, moneyRows, ProviderRefundStatus
<1>5. RefundRowInv' /\ CancellingInv'
  BY <1>2 DEF RefundRowInv, CancellingInv, moneyRows
<1>6. StripeRefundInv'
  BY <1>1, <1>2, <1>3
     DEF StripeRefundInv, moneyRows, NoRefund, RefundsTypeOK
<1>7. \A d \in RefundCalls :
         stripeRefund[d] = "SUCCEEDED" => stripeRefund'[d] = "SUCCEEDED"
  BY <1>1, <1>2 DEF RefundsTypeOK
<1> QED BY <1>2, <1>4, <1>5, <1>6, <1>7, RefundRowsKept

\* The cancellation that reads the payment, and may start the automatic
\* refund, keeps the invariant.
LEMMA ReadRefundableKeeps ==
    ASSUME RefundsInv, ReadRefundable, refundFaults' \in 0..RefundFaultLimit
    PROVE  RefundsInv'
<1> USE DEF RefundsInv
<1> DEFINE due == [key |-> AutoKey, amount |-> Captured - refundPay.refunded]
<1>1. /\ cancelling.pc = "read"
      /\ UNCHANGED <<moneyRows, stripeRefund, refundEvent, review>>
  BY DEF ReadRefundable
<1>2. /\ refundCall[AutoCall].pc = "idle" /\ AutoCall \in RefundCalls
      /\ cancelling.by # "nobody"
  BY <1>1 DEF CancellingInv, RefundCalls
<1>3. refundRow[AutoCall] = NoRefund /\ stripeRefund[AutoCall] = NoRefund
      /\ AutoCall \notin refundKnown
  BY <1>2 DEF RefundRowInv, StripeRefundInv
<1>4. /\ cancelling'.pc \in {"done", "decide"}
      /\ cancelling' \in [by: {"nobody", "customer", "vendor"},
                          pc: {"idle", "read", "decide", "done", "dead"}]
      /\ cancelling'.by = cancelling.by
  BY DEF ReadRefundable, RefundsTypeOK
<1>5. UNCHANGED refundCall \/ LookUp(AutoCall, due)
  BY DEF ReadRefundable
<1>6. due \in Ask
  BY RefundAssumption DEF RefundsTypeOK, Ask, RefundKey
<1> HIDE DEF due
<1>7. /\ refundCall'[AutoCall].pc \in {"idle", "over", "checked"}
      /\ refundCall' \in [RefundCalls -> RefundCallRecord]
      /\ \A d \in RefundCalls :
            d # AutoCall => refundCall'[d] = refundCall[d]
  BY <1>2, <1>5, <1>6 DEF LookUp, RefundsTypeOK, RefundCallRecord, NoRefund
<1>8. RefundsTypeOK'
  BY <1>1, <1>4, <1>7 DEF RefundsTypeOK, moneyRows
<1>9. RefundRowInv'
  BY <1>1, <1>3, <1>7 DEF RefundRowInv, moneyRows
<1>10. StripeRefundInv'
  BY <1>1, <1>3, <1>7 DEF StripeRefundInv, moneyRows
<1>11. CancellingInv'
  BY <1>2, <1>4 DEF CancellingInv
<1> QED BY <1>1, <1>3, <1>7, <1>8, <1>9, <1>10, <1>11, RefundRowsKept

\* The steps of the cancellation, of a decision, of a fault that leave the
\* rows, the calls and the refunds at Stripe alone.
LEMMA NoRefundMoves ==
    ASSUME RefundsInv, UNCHANGED <<moneyRows, refundCall, stripeRefund>>,
           refundEvent' \subseteq refundEvent, RefundsTypeOK', CancellingInv'
    PROVE  RefundsInv'
<1> USE DEF RefundsInv
<1>1. RefundRowInv' /\ StripeRefundInv'
  BY DEF RefundRowInv, StripeRefundInv, moneyRows
<1> QED BY <1>1, RefundRowsKept

\* So do the other steps of a cancellation, the decision that no refund is
\* due, and faults of the cancellation and of the webhook's handler.
LEMMA CancellingKeeps ==
    ASSUME RefundsInv, refundFaults' \in 0..RefundFaultLimit,
           \/ CancelPaidBooking \/ WriteRefundStatus \/ ResolveWithoutRefund
           \/ CancellationDies \/ WebhookDies
    PROVE  RefundsInv'
<1> USE DEF RefundsInv
<1>1. CASE CancelPaidBooking
  BY <1>1, NoRefundMoves
     DEF CancelPaidBooking, RefundsTypeOK, CancellingInv, moneyRows
<1>2. CASE WriteRefundStatus
  BY <1>2, NoRefundMoves
     DEF WriteRefundStatus, RefundsTypeOK, CancellingInv, moneyRows
<1>3. CASE ResolveWithoutRefund
  BY <1>3, NoRefundMoves
     DEF ResolveWithoutRefund, RefundsTypeOK, CancellingInv, moneyRows
<1>4. CASE CancellationDies
  BY <1>4, NoRefundMoves
     DEF CancellationDies, RefundsTypeOK, CancellingInv, moneyRows
<1>5. CASE WebhookDies
  <2>1. refundEvent' \subseteq refundEvent
    BY <1>5 DEF WebhookDies
  <2>2. UNCHANGED <<moneyRows, refundCall, stripeRefund, cancelling, review>>
    BY <1>5 DEF WebhookDies
  <2>3. RefundsTypeOK' /\ CancellingInv'
    BY <2>1, <2>2 DEF RefundsTypeOK, CancellingInv, moneyRows
  <2> QED BY <2>1, <2>2, <2>3, NoRefundMoves
<1> QED BY <1>1, <1>2, <1>3, <1>4, <1>5

-----------------------------------------------------------------------------
(* Steps that write a row of refunds *)

\* The transaction that reserves the amount and inserts the row, or fails.
LEMMA ReserveRefundKeeps ==
    ASSUME RefundsInv, NEW c \in RefundCalls, ReserveRefund(c),
           refundFaults' \in 0..RefundFaultLimit
    PROVE  RefundsInv'
<1> USE DEF RefundsInv
<1>1. /\ refundCall[c].pc = "checked"
      /\ UNCHANGED <<refundKnown, refundLedger, paidSummary, stripeRefund,
                     refundEvent, cancelling, review>>
  BY DEF ReserveRefund, RefundAt
<1>2. /\ refundRow[c] = NoRefund /\ c \notin refundKnown
      /\ stripeRefund[c] = NoRefund
  BY <1>1 DEF RefundRowInv, StripeRefundInv
<1>3. PICK pc \in {"created", "error"} : Go(c, pc)
  BY DEF ReserveRefund
<1>4. /\ refundCall' \in [RefundCalls -> RefundCallRecord]
      /\ refundCall'[c].pc = pc
      /\ \A d \in RefundCalls : refundCall'[d].ask = refundCall[d].ask
      /\ \A d \in RefundCalls : d # c => refundCall'[d] = refundCall[d]
  BY <1>3 DEF Go, RefundsTypeOK, RefundCallRecord
<1>5. CASE pc = "error"
  <2>1. UNCHANGED <<refundPay, refundRow>>
    BY <1>3, <1>5, <1>1 DEF ReserveRefund, Go, RefundsTypeOK, RefundCallRecord
  <2>2. RefundsTypeOK'
    BY <1>1, <1>4, <2>1 DEF RefundsTypeOK
  <2>3. RefundRowInv'
    BY <1>1, <1>2, <1>4, <1>5, <2>1 DEF RefundRowInv
  <2>4. StripeRefundInv'
    BY <1>1, <1>2, <1>4, <1>5, <2>1 DEF StripeRefundInv, NoRefund
  <2>5. CancellingInv'
    BY <1>1, <1>4 DEF CancellingInv, RefundCalls
  <2> QED BY <1>1, <1>4, <2>1, <2>2, <2>3, <2>4, <2>5, RefundRowsKept
          DEF moneyRows
<1>6. CASE pc = "created"
  <2>1. /\ RefundAllowed(c) /\ KeyInserted(c) /\ Reserve(c)
        /\ refundRow' = [refundRow EXCEPT ![c] = "CREATED"]
    BY <1>3, <1>4, <1>6
       DEF ReserveRefund, Go, RefundsTypeOK, RefundCallRecord
  <2>2. /\ refundPay.status \in Refundable
        /\ AmountOf(c) \in 1..(Captured - refundPay.refunded)
        /\ refundPay'.refunded = refundPay.refunded + AmountOf(c)
        /\ refundPay'.status = refundPay.status
        /\ refundPay'.refunded \in 0..Captured
    BY <2>1, RefundAssumption DEF RefundAllowed, Reserve, RefundsTypeOK
  <2>3. RefundsTypeOK'
    BY <1>1, <1>4, <2>1, <2>2
       DEF RefundsTypeOK, Reserve, RefundStatus
  <2>4. AmountOf(c) \in 1..Captured
    BY <2>2, RefundAssumption DEF RefundsTypeOK
  <2>5. RefundRowInv'
    BY <1>1, <1>2, <1>4, <1>6, <2>1, <2>4
       DEF RefundRowInv, RefundsTypeOK, AmountOf
  <2>6. StripeRefundInv'
    BY <1>1, <1>2, <1>4, <1>6, <2>1
       DEF StripeRefundInv, RefundsTypeOK, NoRefund
  <2>7. CancellingInv'
    BY <1>1, <1>4 DEF CancellingInv, RefundCalls
  <2>8. OneRowPerKey'
    BY <1>2, <1>4, <2>1
       DEF OneRowPerKey, KeyInserted, KeyTaken, RefundsTypeOK, NoRefund
  <2>9. LedgerFollowsRefunds'
    BY <1>1, <1>2, <2>1 DEF LedgerFollowsRefunds, RefundsTypeOK, NoRefund
  <2>10. RolledUpInv'
    BY <1>1, <1>2, <2>1, <2>2
       DEF RolledUpInv, RefundsTypeOK, NoRefund, Refundable
  <2>11. /\ c \in RefundCalls \ InStatus(Reserving)
         /\ InStatus(Reserving)' = InStatus(Reserving) \cup {c}
    BY <1>2, <2>1 DEF InStatus, Reserving, NoRefund, RefundsTypeOK
  <2>12. RefundedIsReserved'
    BY <1>4, <2>2, <2>3, <2>11, ReservedMore, ReservedNext
       DEF RefundedIsReserved
  <2> QED BY <2>3, <2>5, <2>6, <2>7, <2>8, <2>9, <2>10, <2>12
<1> QED BY <1>5, <1>6

\* The transaction that releases the amount of a refund that could not be
\* sent.
LEMMA GiveUpRefundKeeps ==
    ASSUME RefundsInv, NEW c \in RefundCalls, GiveUpRefund(c),
           refundFaults' \in 0..RefundFaultLimit
    PROVE  RefundsInv'
<1> USE DEF RefundsInv
<1>1. /\ refundCall[c].pc = "unreachable" /\ Release(c) /\ Go(c, "error")
      /\ refundRow' = [refundRow EXCEPT ![c] = "FAILED"]
      /\ UNCHANGED <<refundKnown, refundLedger, paidSummary, stripeRefund,
                     refundEvent, cancelling, review>>
  BY DEF GiveUpRefund, RefundAt
<1>2. refundRow[c] = "CREATED" /\ c \notin refundKnown
  BY <1>1 DEF RefundRowInv
<1>3. /\ refundCall' \in [RefundCalls -> RefundCallRecord]
      /\ refundCall'[c].pc = "error"
      /\ \A d \in RefundCalls : refundCall'[d].ask = refundCall[d].ask
      /\ \A d \in RefundCalls : d # c => refundCall'[d] = refundCall[d]
  BY <1>1 DEF Go, RefundsTypeOK, RefundCallRecord
<1>4. /\ refundPay'.refunded = refundPay.refunded - AmountOf(c)
      /\ refundPay'.status = refundPay.status
      /\ refundPay' = [refundPay EXCEPT !.refunded = refundPay'.refunded]
  BY <1>1 DEF Release, RefundsTypeOK
<1>5. /\ c \in InStatus(Reserving)
      /\ InStatus(Reserving)' = InStatus(Reserving) \ {c}
  BY <1>1, <1>2 DEF InStatus, Reserving, RefundsTypeOK
<1>6. /\ refundPay'.refunded =
            SumOver(Amounts(refundCall'), InStatus(Reserving)')
      /\ refundPay'.refunded \in 0..Captured
  BY <1>3, <1>4, <1>5, ReservedLess
<1>7. RefundsTypeOK'
  BY <1>1, <1>3, <1>4, <1>6 DEF RefundsTypeOK, RefundStatus
<1>8. RefundedIsReserved'
  BY <1>6, <1>7, ReservedNext DEF RefundedIsReserved
<1>9. RefundRowInv'
  BY <1>1, <1>2, <1>3 DEF RefundRowInv, RefundsTypeOK, NoRefund
<1>10. StripeRefundInv'
  BY <1>1, <1>2, <1>3 DEF StripeRefundInv, RefundsTypeOK, NoRefund
<1>11. CancellingInv'
  BY <1>1, <1>3 DEF CancellingInv, RefundCalls
<1>12. OneRowPerKey'
  BY <1>1, <1>2, <1>3 DEF OneRowPerKey, RefundsTypeOK, NoRefund
<1>13. LedgerFollowsRefunds'
  BY <1>1, <1>2 DEF LedgerFollowsRefunds, RefundsTypeOK
<1>14. RolledUpInv'
  BY <1>1, <1>4 DEF RolledUpInv, RefundsTypeOK, NoRefund
<1> QED BY <1>7, <1>8, <1>9, <1>10, <1>11, <1>12, <1>13, <1>14

\* What an answer of Stripe does to the rows, by whichever way it comes.
LEMMA AppliedRowsKeep ==
    ASSUME RefundsInv, NEW c \in RefundCalls, NEW to \in ProviderRefundStatus,
           ApplyRefundResult(c, to),
           to = "SUCCEEDED" => stripeRefund[c] = "SUCCEEDED",
           refundCall' \in [RefundCalls -> RefundCallRecord],
           \A d \in RefundCalls : refundCall'[d].ask = refundCall[d].ask,
           UNCHANGED <<stripeRefund, cancelling>>,
           refundEvent' \subseteq refundEvent,
           refundFaults' \in 0..RefundFaultLimit
    PROVE  /\ RefundsTypeOK' /\ RefundedIsReserved' /\ LedgerFollowsRefunds'
           /\ OneRowPerKey' /\ RolledUpInv'
<1> USE DEF RefundsInv
<1>1. /\ refundRow' = [refundRow EXCEPT ![c] = to]
      /\ refundKnown' = refundKnown \cup {c}
      /\ refundRow[c] \in {"CREATED", "PROCESSING"}
      /\ to \in {"PROCESSING", "SUCCEEDED", "FAILED"}
  BY DEF ApplyRefundResult, Applies, RefundTransitions, ProviderRefundStatus
<1>2. OneRowPerKey'
  BY <1>1 DEF OneRowPerKey, RefundsTypeOK, NoRefund
<1>3. CASE to = "SUCCEEDED"
  <2> DEFINE rolled == RollUp(refundPay.refunded)
  <2>1. /\ refundPay' = [refundPay EXCEPT !.status = rolled]
        /\ paidSummary' = SummaryWord[rolled]
        /\ review' = CloseReview
        /\ refundLedger' = [refundLedger EXCEPT ![c] = @ + 1]
    BY <1>3 DEF ApplyRefundResult, IsDefinitiveFailure
  <2>2. /\ rolled \in {"REFUNDED", "PARTIALLY_REFUNDED"}
        /\ rolled = "REFUNDED" <=> refundPay.refunded = Captured
    BY DEF RollUp
  <2> HIDE DEF rolled
  <2>3. /\ paidSummary' \in {"REFUNDED_ONLINE", "PARTIALLY_REFUNDED_ONLINE"}
        /\ paidSummary' = "REFUNDED_ONLINE" <=> rolled = "REFUNDED"
    BY <2>1, <2>2 DEF SummaryWord
  <2>4. refundPay'.refunded = refundPay.refunded /\ refundPay'.status = rolled
    BY <2>1 DEF RefundsTypeOK
  <2>5. RefundsTypeOK'
    BY <1>1, <2>1, <2>2, <2>3
       DEF RefundsTypeOK, RefundStatus, CloseReview, Refundable
  <2>6. RolledUpInv'
    BY <1>1, <2>2, <2>3, <2>4 DEF RolledUpInv, RefundsTypeOK
  <2>7. InStatus(Reserving)' = InStatus(Reserving)
    BY <1>1, <1>3 DEF InStatus, Reserving, RefundsTypeOK
  <2>8. RefundedIsReserved'
    <3>1. \A d \in InStatus(Reserving) :
             refundCall'[d].ask = refundCall[d].ask
      BY DEF InStatus
    <3> QED BY <2>4, <2>5, <2>7, <3>1, ReservedSame, ReservedNext
            DEF RefundedIsReserved
  <2>9. LedgerFollowsRefunds'
    BY <1>1, <1>3, <2>1 DEF LedgerFollowsRefunds, RefundsTypeOK
  <2> QED BY <1>2, <2>5, <2>6, <2>8, <2>9
<1>4. CASE to = "FAILED"
  <2>1. Release(c) /\ UNCHANGED <<paidSummary, review, refundLedger>>
    BY <1>4 DEF ApplyRefundResult, IsDefinitiveFailure
  <2>2. /\ refundPay'.refunded = refundPay.refunded - AmountOf(c)
        /\ refundPay'.status = refundPay.status
        /\ refundPay' = [refundPay EXCEPT !.refunded = refundPay'.refunded]
    BY <2>1 DEF Release, RefundsTypeOK
  <2>3. /\ c \in InStatus(Reserving)
        /\ InStatus(Reserving)' = InStatus(Reserving) \ {c}
    BY <1>1, <1>4 DEF InStatus, Reserving, RefundsTypeOK
  <2>4. /\ refundPay'.refunded =
              SumOver(Amounts(refundCall'), InStatus(Reserving)')
        /\ refundPay'.refunded \in 0..Captured
    BY <2>2, <2>3, ReservedLess
  <2>5. RefundsTypeOK'
    BY <1>1, <2>1, <2>2, <2>4 DEF RefundsTypeOK, RefundStatus
  <2>6. RefundedIsReserved'
    BY <2>4, <2>5, ReservedNext DEF RefundedIsReserved
  <2>7. LedgerFollowsRefunds'
    BY <1>1, <1>4, <2>1 DEF LedgerFollowsRefunds, RefundsTypeOK
  <2>8. RolledUpInv'
    BY <1>1, <1>4, <2>1, <2>2 DEF RolledUpInv, RefundsTypeOK, NoRefund
  <2> QED BY <1>2, <2>5, <2>6, <2>7, <2>8
<1>5. CASE to = "PROCESSING"
  <2>1. UNCHANGED <<refundPay, paidSummary, review, refundLedger>>
    BY <1>5 DEF ApplyRefundResult, IsDefinitiveFailure
  <2>2. RefundsTypeOK'
    BY <1>1, <2>1 DEF RefundsTypeOK, RefundStatus
  <2>3. InStatus(Reserving)' = InStatus(Reserving)
    BY <1>1, <1>5 DEF InStatus, Reserving, RefundsTypeOK
  <2>4. RefundedIsReserved'
    <3>1. \A d \in InStatus(Reserving) :
             refundCall'[d].ask = refundCall[d].ask
      BY DEF InStatus
    <3> QED BY <2>1, <2>2, <2>3, <3>1, ReservedSame, ReservedNext
            DEF RefundedIsReserved
  <2>5. LedgerFollowsRefunds'
    BY <1>1, <1>5, <2>1 DEF LedgerFollowsRefunds, RefundsTypeOK
  <2>6. RolledUpInv'
    BY <1>1, <1>5, <2>1 DEF RolledUpInv, RefundsTypeOK, NoRefund
  <2> QED BY <1>2, <2>2, <2>4, <2>5, <2>6
<1> QED BY <1>1, <1>3, <1>4, <1>5

\* The transaction that applies Stripe's answer to the request.
LEMMA ApplyRefundAnswerKeeps ==
    ASSUME RefundsInv, NEW c \in RefundCalls, ApplyRefundAnswer(c),
           refundFaults' \in 0..RefundFaultLimit
    PROVE  RefundsInv'
<1> USE DEF RefundsInv
<1> DEFINE to == refundCall[c].answer
<1>1. /\ refundCall[c].pc = "answered" /\ ApplyRefundResult(c, to)
      /\ Go(c, "over") /\ UNCHANGED <<stripeRefund, refundEvent, cancelling>>
  BY DEF ApplyRefundAnswer, RefundAt
<1>0. to \in {"PROCESSING", "SUCCEEDED", "FAILED", "NONE"}
  BY DEF RefundsTypeOK, RefundCallRecord, ProviderRefundStatus, NoRefund
<1> HIDE DEF to
<1>2. /\ refundRow' = [refundRow EXCEPT ![c] = to]
      /\ refundKnown' = refundKnown \cup {c}
      /\ to \in {"PROCESSING", "SUCCEEDED", "FAILED"}
      /\ refundRow[c] = "CREATED"
  BY <1>0, <1>1
     DEF ApplyRefundResult, Applies, RefundTransitions, RefundRowInv
<1>3. /\ refundCall' \in [RefundCalls -> RefundCallRecord]
      /\ refundCall'[c].pc = "over"
      /\ \A d \in RefundCalls : refundCall'[d].ask = refundCall[d].ask
      /\ \A d \in RefundCalls : d # c => refundCall'[d] = refundCall[d]
  BY <1>1 DEF Go, RefundsTypeOK, RefundCallRecord
<1>4. to = "SUCCEEDED" => stripeRefund[c] = "SUCCEEDED"
  BY <1>1 DEF StripeRefundInv, to
<1>5. /\ RefundsTypeOK' /\ RefundedIsReserved' /\ LedgerFollowsRefunds'
      /\ OneRowPerKey' /\ RolledUpInv'
  BY <1>1, <1>2, <1>3, <1>4, AppliedRowsKeep DEF ProviderRefundStatus
<1>6. RefundRowInv'
  BY <1>2, <1>3 DEF RefundRowInv, RefundsTypeOK, NoRefund
<1>7. StripeRefundInv'
  BY <1>1, <1>2, <1>3 DEF StripeRefundInv, RefundsTypeOK, NoRefund
<1>8. CancellingInv'
  BY <1>1, <1>3 DEF CancellingInv, RefundCalls
<1> QED BY <1>5, <1>6, <1>7, <1>8

\* The transaction that applies a webhook, or drops it.
LEMMA RefundWebhookKeeps ==
    ASSUME RefundsInv, NEW c \in RefundCalls, NEW to \in ProviderRefundStatus,
           RefundWebhook(c, to), refundFaults' \in 0..RefundFaultLimit
    PROVE  RefundsInv'
<1> USE DEF RefundsInv
<1>1. /\ <<c, to>> \in refundEvent /\ refundEvent' = refundEvent \ {<<c, to>>}
      /\ UNCHANGED <<refundCall, stripeRefund, cancelling>>
  BY DEF RefundWebhook
<1>2. CASE FoundByProviderId(c) /\ ApplyRefundResult(c, to)
  <2>1. /\ refundRow' = [refundRow EXCEPT ![c] = to]
        /\ refundKnown' = refundKnown
        /\ refundRow[c] # NoRefund /\ c \in refundKnown
        /\ to \in {"PROCESSING", "SUCCEEDED", "FAILED"}
    BY <1>2 DEF FoundByProviderId, ApplyRefundResult, Applies,
                RefundTransitions, ProviderRefundStatus, NoRefund
  <2>2. to = "SUCCEEDED" => stripeRefund[c] = "SUCCEEDED"
    BY <1>1 DEF StripeRefundInv
  <2>3. /\ RefundsTypeOK' /\ RefundedIsReserved' /\ LedgerFollowsRefunds'
        /\ OneRowPerKey' /\ RolledUpInv'
    BY <1>1, <1>2, <2>2, AppliedRowsKeep DEF RefundsTypeOK
  <2>4. RefundRowInv'
    BY <1>1, <2>1 DEF RefundRowInv, RefundsTypeOK, NoRefund
  <2>5. StripeRefundInv'
    BY <1>1, <2>1 DEF StripeRefundInv, RefundsTypeOK, NoRefund
  <2>6. CancellingInv'
    BY <1>1 DEF CancellingInv
  <2> QED BY <2>3, <2>4, <2>5, <2>6
<1>3. CASE UNCHANGED <<moneyRows, review>>
  <2>1. refundEvent' \subseteq refundEvent
    BY <1>1
  <2>2. RefundsTypeOK' /\ CancellingInv'
    BY <1>1, <1>3, <2>1 DEF RefundsTypeOK, CancellingInv, moneyRows
  <2> QED BY <1>1, <1>3, <2>1, <2>2, NoRefundMoves
<1> QED BY <1>2, <1>3 DEF RefundWebhook

\* The invariant holds before any refund.
LEMMA RefundsInitially == InitRefunds => RefundsInv
<1> SUFFICES ASSUME InitRefunds PROVE RefundsInv
  OBVIOUS
<1>1. RefundsTypeOK
  BY RefundAssumption
     DEF InitRefunds, RefundsTypeOK, RefundCallRecord, Ask, RefundKey,
         Refundable, NoRefund
<1>2. InStatus(Reserving) = {}
  BY DEF InitRefunds, InStatus, Reserving, NoRefund
<1>3. RefundedIsReserved
  BY <1>1, <1>2, ReservedNow, SumEmpty DEF InitRefunds, RefundedIsReserved
<1>4. LedgerFollowsRefunds /\ RefundRowInv /\ StripeRefundInv
  BY DEF InitRefunds, LedgerFollowsRefunds, RefundRowInv, StripeRefundInv,
         NoRefund
<1>5. CancellingInv
  BY DEF InitRefunds, CancellingInv, RefundCalls
<1>6. OneRowPerKey
  BY DEF InitRefunds, OneRowPerKey
<1>7. RolledUpInv
  BY RefundAssumption DEF InitRefunds, RolledUpInv
<1> QED BY <1>1, <1>3, <1>4, <1>5, <1>6, <1>7 DEF RefundsInv

\* Nothing changes.
LEMMA RefundsStutter == RefundsInv /\ UNCHANGED refundVars => RefundsInv'
<1> SUFFICES ASSUME RefundsInv, UNCHANGED refundVars PROVE RefundsInv'
  OBVIOUS
<1>1. RefundsTypeOK' /\ CancellingInv'
  BY DEF RefundsInv, RefundsTypeOK, CancellingInv, refundVars
<1> QED BY <1>1, NoRefundMoves DEF refundVars, moneyRows

\* Every step keeps it.
LEMMA RefundsStepKeeps == RefundsInv /\ [RefundsNext]_refundVars => RefundsInv'
<1> SUFFICES ASSUME RefundsInv, RefundsNext PROVE RefundsInv'
  BY RefundsStutter
<1>1. refundFaults' \in 0..RefundFaultLimit
  BY RefundAssumption
     DEF RefundsNext, RefundFault, RefundsInv, RefundsTypeOK
<1>2. ASSUME NEW c \in RefundCalls, CreateRefund(c) PROVE RefundsInv'
  BY <1>1, <1>2, CreateRefundKeeps
<1>3. ASSUME NEW c \in RefundCalls, RefundWork(c) PROVE RefundsInv'
  <2>1. CASE ReserveRefund(c) BY <1>1, <2>1, ReserveRefundKeeps
  <2>2. CASE SendRefund(c) BY <1>1, <2>2, SendRefundKeeps
  <2>3. CASE StripeRefuses(c)
    <3>1. /\ refundCall[c].pc \in {"created", "answered", "unreachable"}
          /\ Go(c, "unreachable")
          /\ UNCHANGED <<moneyRows, stripeRefund, refundEvent, cancelling,
                         review>>
      BY <2>3 DEF StripeRefuses, RefundAt
    <3> QED BY <1>1, <3>1, StoppingKeeps
  <2>4. CASE GiveUpRefund(c) BY <1>1, <2>4, GiveUpRefundKeeps
  <2>5. CASE ApplyRefundAnswer(c) BY <1>1, <2>5, ApplyRefundAnswerKeeps
  <2> QED BY <1>3, <2>1, <2>2, <2>3, <2>4, <2>5 DEF RefundWork
<1>4. ASSUME NEW c \in RefundCalls, StripeSettles(c) PROVE RefundsInv'
  BY <1>1, <1>4, StripeSettlesKeeps
<1>5. ASSUME NEW c \in RefundCalls, NEW to \in ProviderRefundStatus,
             RefundWebhook(c, to)
      PROVE  RefundsInv'
  BY <1>1, <1>5, RefundWebhookKeeps
<1>6. ASSUME CancelPaidBooking \/ WriteRefundStatus \/ ResolveWithoutRefund
             \/ CancellationDies \/ WebhookDies
      PROVE  RefundsInv'
  BY <1>1, <1>6, CancellingKeeps
<1>7. ASSUME ReadRefundable PROVE RefundsInv'
  BY <1>1, <1>7, ReadRefundableKeeps
<1>8. ASSUME NEW c \in RefundCalls, RefundUnreachable(c) PROVE RefundsInv'
  <2>1. /\ refundCall[c].pc = "created" /\ Go(c, "unreachable")
        /\ UNCHANGED <<moneyRows, cancelling, review>>
        /\ \/ \E to \in ProviderRefundStatus : StripeMakes(c, to)
           \/ UNCHANGED <<stripeRefund, refundEvent>>
    BY <1>8 DEF RefundUnreachable, RefundAt
  <2> QED BY <1>1, <2>1, StoppingKeeps
<1>9. ASSUME NEW c \in RefundCalls, RequestDies(c) PROVE RefundsInv'
  <2>1. /\ refundCall[c].pc \in {"created", "answered", "unreachable"}
        /\ Go(c, "dead") \/ Go(c, "error")
        /\ UNCHANGED <<moneyRows, stripeRefund, refundEvent, cancelling,
                       review>>
    BY <1>9 DEF RequestDies
  <2> QED BY <1>1, <2>1, StoppingKeeps
<1> QED BY <1>2, <1>3, <1>4, <1>5, <1>6, <1>7, <1>8, <1>9
        DEF RefundsNext, RefundStep, RefundFault, CancelWork

-----------------------------------------------------------------------------
(* The theorems *)

\* The invariant holds in every state.
THEOREM RefundsInvariant == RefundsSpec => []RefundsInv
<1>1. InitRefunds => RefundsInv
  BY RefundsInitially
<1>2. RefundsInv /\ [RefundsNext]_refundVars => RefundsInv'
  BY RefundsStepKeeps
<1> QED BY <1>1, <1>2, PTL DEF RefundsSpec

\* Every variable keeps its type; refunded_amount never exceeds what was
\* captured.
THEOREM RefundsTypes == RefundsSpec => []RefundsTypeOK
<1>1. RefundsInv => RefundsTypeOK
  BY DEF RefundsInv
<1> QED BY <1>1, RefundsInvariant, PTL

\* refunded_amount is the sum of the refunds that were or may yet be made,
\* however answers, webhooks, failures and crashes interleave
\* (reserveRefundAmount, releaseRefundAmount).
THEOREM ReservationsAddUp == RefundsSpec => []RefundedIsReserved
<1>1. RefundsInv => RefundedIsReserved
  BY DEF RefundsInv
<1> QED BY <1>1, RefundsInvariant, PTL

\* However many requests with one idempotency key overlap, Stripe makes one
\* refund for it (uq_refunds_idempotency_key).
THEOREM StripeRefundsOncePerKey == RefundsSpec => []OneRefundPerKey
<1>1. RefundsInv => OneRefundPerKey
  BY DEF RefundsInv, StripeRefundInv, OneRowPerKey, OneRefundPerKey
<1> QED BY <1>1, RefundsInvariant, PTL

\* A refund has one ledger entry exactly when the refunds table says that it
\* was made, and then Stripe has made it (#applyRefundResult).
THEOREM LedgerIsOfRefunds == RefundsSpec => []LedgerFollowsRefunds
<1>1. RefundsInv => LedgerFollowsRefunds
  BY DEF RefundsInv
<1> QED BY <1>1, RefundsInvariant, PTL

\* When no refund is pending or has failed, REFUNDED means that all of the
\* captured amount went back (#applyRefundResult's roll-up).
THEOREM RefundedIsAll == RefundsSpec => []RefundedMeansAll
<1>1. RefundsInv => RefundedMeansAll
  <2> SUFFICES ASSUME RefundsInv,
                      \A c \in RefundCalls :
                         refundRow[c] \in {NoRefund, "SUCCEEDED"}
               PROVE  LET all == SumOf(InStatus({"SUCCEEDED"})) = Captured IN
                      /\ (refundPay.status = "REFUNDED") = all
                      /\ (paidSummary = "REFUNDED_ONLINE") = all
    BY DEF RefundedMeansAll
  <2>1. InStatus({"SUCCEEDED"}) = InStatus(Reserving)
    BY DEF InStatus, Reserving, NoRefund
  <2>2. refundPay.refunded = SumOf(InStatus({"SUCCEEDED"}))
    BY <2>1 DEF RefundsInv, RefundedIsReserved
  <2>3. refundPay.status = "REFUNDED" <=> refundPay.refunded = Captured
    BY DEF RefundsInv, RolledUpInv, NoRefund
  <2>4. paidSummary = "REFUNDED_ONLINE" <=> refundPay.status = "REFUNDED"
    BY DEF RefundsInv, RolledUpInv
  <2> QED BY <2>2, <2>3, <2>4
<1> QED BY <1>1, RefundsInvariant, PTL

-----------------------------------------------------------------------------
(* The refund status of a booking *)

RefundHasFailed == \E c \in RefundCalls : refundRow[c] = "FAILED"

\* Only the cancellation uses the key of the automatic refund.
AdminKeys ==
    \A c \in AdminCall :
        refundCall[c].pc = "idle" \/ refundCall[c].ask.key # AutoKey

\* The automatic refund is about all that is left, when it is asked for and,
\* unless a refund fails, ever after.
AutoTakesAll ==
    \/ RefundHasFailed
    \/ /\ refundCall[AutoCall].pc = "checked" =>
             refundPay.refunded + AmountOf(AutoCall) >= Captured
       /\ refundRow[AutoCall] # NoRefund => refundPay.refunded = Captured

\* What a written status stands for.
ReviewInv ==
    /\ review = "AUTO_REFUNDED" => refundRow[AutoCall] # NoRefund
    /\ review = "REFUND_FAILED" => refundCall[AutoCall].pc = "error"
    /\ review = "MANUALLY_REFUNDED" =>
          \E c \in RefundCalls : refundRow[c] = "SUCCEEDED"

EarnedInv ==
    /\ AdminKeys /\ AutoTakesAll /\ ReviewInv
    /\ refundCall[AutoCall].pc = "over" => refundRow[AutoCall] # NoRefund

\* Every step leaves the rows alone, inserts one, or settles one; and
\* refunded_amount goes down only with a refund that fails.
LEMMA RowsMove ==
    ASSUME RefundsInv, RefundsInv', RefundsNext
    PROVE  /\ \A c \in RefundCalls :
                 /\ refundRow[c] # NoRefund => refundRow'[c] # NoRefund
                 /\ refundRow[c] \in {"SUCCEEDED", "FAILED"} =>
                       refundRow'[c] = refundRow[c]
           /\ \/ refundPay'.refunded >= refundPay.refunded
              \/ \E c \in RefundCalls : refundRow'[c] = "FAILED"
<1> USE DEF RefundsInv
<1>1. refundPay.refunded \in Nat
  BY RefundAssumption DEF RefundsTypeOK
<1>2. CASE UNCHANGED <<refundPay, refundRow>>
  BY <1>1, <1>2
<1>3. ASSUME NEW c \in RefundCalls, ReserveRefund(c),
             ~UNCHANGED <<refundPay, refundRow>>
      PROVE  /\ \A d \in RefundCalls :
                   refundRow[d] # NoRefund => refundRow'[d] = refundRow[d]
             /\ refundPay'.refunded >= refundPay.refunded
             /\ refundRow'[c] # NoRefund
  <2>1. /\ RefundAllowed(c) /\ Reserve(c)
        /\ refundRow' = [refundRow EXCEPT ![c] = "CREATED"]
        /\ refundRow[c] = NoRefund
    BY <1>3 DEF ReserveRefund, RefundAt, RefundRowInv
  <2>2. /\ refundPay'.refunded = refundPay.refunded + AmountOf(c)
        /\ AmountOf(c) \in Nat
    BY <2>1, RefundAssumption DEF RefundAllowed, Reserve, RefundsTypeOK
  <2> QED BY <1>1, <2>1, <2>2 DEF RefundsTypeOK, NoRefund
<1>4. ASSUME NEW c \in RefundCalls, GiveUpRefund(c)
      PROVE  /\ \A d \in RefundCalls \ {c} : refundRow'[d] = refundRow[d]
             /\ refundRow[c] = "CREATED" /\ refundRow'[c] = "FAILED"
  BY <1>4 DEF GiveUpRefund, RefundAt, RefundRowInv, RefundsTypeOK
<1>5. ASSUME NEW c \in RefundCalls, NEW to, ApplyRefundResult(c, to)
      PROVE  /\ \A d \in RefundCalls \ {c} : refundRow'[d] = refundRow[d]
             /\ refundRow[c] \in {"CREATED", "PROCESSING"}
             /\ refundRow'[c] = to /\ to # NoRefund
             /\ \/ refundPay'.refunded = refundPay.refunded
                \/ to \in {"FAILED", "CANCELLED"}
  <2>1. /\ refundRow' = [refundRow EXCEPT ![c] = to]
        /\ refundRow[c] \in {"CREATED", "PROCESSING"} /\ to # NoRefund
    BY <1>5 DEF ApplyRefundResult, Applies, RefundTransitions, NoRefund
  <2>2. \/ refundPay'.refunded = refundPay.refunded
        \/ to \in {"FAILED", "CANCELLED"}
    BY <1>5 DEF ApplyRefundResult, IsDefinitiveFailure, RefundsTypeOK
  <2> QED BY <2>1, <2>2 DEF RefundsTypeOK
<1>6. \/ UNCHANGED <<refundPay, refundRow>>
      \/ \E c \in RefundCalls :
            \/ ReserveRefund(c) \/ GiveUpRefund(c)
            \/ \E to \in ProviderRefundStatus : ApplyRefundResult(c, to)
  <2>1. ASSUME NEW c \in RefundCalls, ApplyRefundAnswer(c)
        PROVE  \E to \in ProviderRefundStatus : ApplyRefundResult(c, to)
    <3>1. ApplyRefundResult(c, refundCall[c].answer)
      BY <2>1 DEF ApplyRefundAnswer
    <3>2. refundCall[c].answer \in ProviderRefundStatus
      BY <3>1 DEF ApplyRefundResult, Applies, RefundTransitions, RefundsTypeOK,
                  RefundCallRecord, NoRefund
    <3> QED BY <3>1, <3>2
  <2> QED BY <2>1
          DEF RefundsNext, RefundStep, RefundFault, CreateRefund, RefundWork,
              SendRefund, StripeRefuses, StripeSettles, RefundWebhook,
              CancelPaidBooking, CancelWork, ReadRefundable, WriteRefundStatus,
              ResolveWithoutRefund, RefundUnreachable, RequestDies,
              CancellationDies, WebhookDies, moneyRows
<1>7. \A to \in ProviderRefundStatus : to # "CANCELLED"
  BY DEF ProviderRefundStatus
<1> QED BY <1>1, <1>2, <1>3, <1>4, <1>5, <1>6, <1>7 DEF NoRefund

\* Every step leaves the automatic refund alone, asks for all that is left,
\* tries to reserve it, or goes on with a refund that has been reserved.
LEMMA AutoCallMoves ==
    ASSUME RefundsInv, RefundsInv', AdminKeys, RefundsNext
    PROVE  \/ refundCall'[AutoCall] = refundCall[AutoCall]
           \/ /\ refundCall[AutoCall].pc = "idle"
              /\ refundCall'[AutoCall].pc = "checked"
              /\ refundRow'[AutoCall] = NoRefund
              /\ refundCall'[AutoCall].ask.amount
                    = Captured - refundPay.refunded
              /\ refundPay' = refundPay
           \/ ReserveRefund(AutoCall)
           \/ /\ refundCall[AutoCall].pc \in
                    {"created", "answered", "unreachable"}
              /\ refundCall'[AutoCall].pc # "checked"
<1> USE DEF RefundsInv
<1>1. AutoCall \in RefundCalls /\ AutoCall \notin AdminCall
  BY RefundAssumption DEF RefundCalls
<1>2. CASE UNCHANGED refundCall
  BY <1>2
<1>3. ASSUME NEW c \in RefundCalls, NEW to, Go(c, to),
             refundCall[c].pc \in {"created", "answered", "unreachable"},
             to # "checked"
      PROVE  \/ refundCall'[AutoCall] = refundCall[AutoCall]
             \/ /\ refundCall[AutoCall].pc \in
                      {"created", "answered", "unreachable"}
                /\ refundCall'[AutoCall].pc # "checked"
  BY <1>1, <1>3 DEF Go, RefundsTypeOK, RefundCallRecord
<1>4. ASSUME NEW c \in RefundCalls, SendRefund(c)
      PROVE  \/ refundCall'[AutoCall] = refundCall[AutoCall]
             \/ /\ refundCall[AutoCall].pc \in
                      {"created", "answered", "unreachable"}
                /\ refundCall'[AutoCall].pc # "checked"
  BY <1>1, <1>4 DEF SendRefund, RefundAt, RefundsTypeOK, RefundCallRecord
<1>5. ASSUME NEW c \in AdminCall, CreateRefund(c)
      PROVE  refundCall'[AutoCall] = refundCall[AutoCall]
  BY <1>1, <1>5 DEF CreateRefund, LookUp, RefundsTypeOK
<1>6. ASSUME ReadRefundable, ~UNCHANGED refundCall
      PROVE  /\ refundCall[AutoCall].pc = "idle"
             /\ refundCall'[AutoCall].pc = "checked"
             /\ refundRow'[AutoCall] = NoRefund
             /\ refundCall'[AutoCall].ask.amount = Captured - refundPay.refunded
             /\ refundPay' = refundPay
  <2> DEFINE due == [key |-> AutoKey, amount |-> Captured - refundPay.refunded]
  <2>1. LookUp(AutoCall, due) /\ UNCHANGED moneyRows /\ cancelling.pc = "read"
    BY <1>6 DEF ReadRefundable
  <2>2. refundCall[AutoCall].pc = "idle" /\ refundRow[AutoCall] = NoRefund
    BY <1>1, <2>1 DEF CancellingInv, RefundRowInv
  <2>3. \A c \in RefundCalls \ {AutoCall} :
           refundRow[c] # NoRefund => refundCall[c].ask.key # AutoKey
    BY DEF AdminKeys, RefundRowInv, RefundCalls
  <2>4. ~KeyTaken(AutoCall, due.key)
    BY <2>3 DEF KeyTaken
  <2>5. refundCall'[AutoCall].pc = "checked"
        /\ refundCall'[AutoCall].ask = due
    BY <1>1, <2>1, <2>4 DEF LookUp, RefundsTypeOK
  <2> QED BY <2>1, <2>2, <2>5 DEF moneyRows
<1>7. ASSUME NEW c \in RefundCalls \ {AutoCall}, ReserveRefund(c)
      PROVE  refundCall'[AutoCall] = refundCall[AutoCall]
  BY <1>1, <1>7 DEF ReserveRefund, Go, RefundsTypeOK
<1>8. \/ UNCHANGED refundCall
      \/ \E c \in RefundCalls :
            \/ CreateRefund(c) /\ c \in AdminCall
            \/ ReserveRefund(c) \/ SendRefund(c)
            \/ /\ refundCall[c].pc \in {"created", "answered", "unreachable"}
               /\ \E to \in {"unreachable", "error", "over", "dead"} : Go(c, to)
      \/ ReadRefundable
  BY DEF RefundsNext, RefundStep, RefundFault, CreateRefund, RefundWork,
         StripeRefuses, GiveUpRefund, ApplyRefundAnswer, StripeSettles,
         RefundWebhook, CancelPaidBooking, CancelWork, WriteRefundStatus,
         ResolveWithoutRefund, RefundUnreachable, RequestDies,
         CancellationDies, WebhookDies, RefundAt
<1> QED BY <1>2, <1>3, <1>4, <1>5, <1>6, <1>7, <1>8

\* Only the transaction that reserves the amount inserts a row.
LEMMA OnlyReservingInserts ==
    ASSUME RefundsInv, RefundsNext, NEW c \in RefundCalls,
           refundRow[c] = NoRefund, ~ReserveRefund(c)
    PROVE  refundRow'[c] = NoRefund
<1> USE DEF RefundsInv
<1>1. ASSUME NEW d \in RefundCalls, ReserveRefund(d)
      PROVE  refundRow'[c] = NoRefund
  BY <1>1 DEF ReserveRefund, RefundsTypeOK
<1>2. ASSUME NEW d \in RefundCalls, GiveUpRefund(d)
      PROVE  refundRow'[c] = NoRefund
  BY <1>2 DEF GiveUpRefund, RefundAt, RefundRowInv, RefundsTypeOK, NoRefund
<1>3. ASSUME NEW d \in RefundCalls, NEW to, ApplyRefundResult(d, to)
      PROVE  refundRow'[c] = NoRefund
  BY <1>3 DEF ApplyRefundResult, Applies, RefundTransitions, RefundsTypeOK,
              NoRefund
<1>4. \/ UNCHANGED refundRow
      \/ \E d \in RefundCalls :
            \/ ReserveRefund(d) \/ GiveUpRefund(d)
            \/ \E to : ApplyRefundResult(d, to)
  BY DEF RefundsNext, RefundStep, RefundFault, CreateRefund, RefundWork,
         SendRefund, StripeRefuses, ApplyRefundAnswer, StripeSettles,
         RefundWebhook, CancelPaidBooking, CancelWork, ReadRefundable,
         WriteRefundStatus, ResolveWithoutRefund, RefundUnreachable,
         RequestDies, CancellationDies, WebhookDies, moneyRows
<1> QED BY <1>1, <1>2, <1>3, <1>4

\* The administrators' keys stay theirs.
LEMMA AdminKeysKept ==
    ASSUME RefundsInv, AdminKeys, RefundsNext
    PROVE  AdminKeys'
<1> USE DEF RefundsInv
<1> SUFFICES ASSUME NEW d \in AdminCall
             PROVE  refundCall'[d].pc = "idle"
                    \/ refundCall'[d].ask.key # AutoKey
  BY DEF AdminKeys
<1>1. d \in RefundCalls /\ d # AutoCall
  BY RefundAssumption DEF RefundCalls
<1>2. refundCall[d].pc = "idle" \/ refundCall[d].ask.key # AutoKey
  BY DEF AdminKeys
<1>3. CASE UNCHANGED refundCall
  BY <1>2, <1>3
<1>4. ASSUME NEW c \in RefundCalls, CreateRefund(c)
      PROVE  refundCall'[d] = refundCall[d]
             \/ refundCall'[d].ask.key # AutoKey
  <2>1. PICK ask \in Asked : LookUp(c, ask)
    BY <1>4 DEF CreateRefund
  <2>2. ask.key # AutoKey
    BY RefundAssumption
  <2> QED BY <1>1, <2>1, <2>2 DEF LookUp, RefundsTypeOK
<1>5. ASSUME ReadRefundable PROVE refundCall'[d] = refundCall[d]
  BY <1>1, <1>5 DEF ReadRefundable, LookUp, RefundsTypeOK
<1>6. ASSUME NEW c \in RefundCalls, refundCall[c].pc # "idle",
             ReserveRefund(c) \/ SendRefund(c) \/ \E to : Go(c, to)
      PROVE  /\ refundCall'[d].ask = refundCall[d].ask
             /\ refundCall'[d] = refundCall[d] \/ c = d
  BY <1>1, <1>6 DEF ReserveRefund, SendRefund, Go, RefundsTypeOK,
                    RefundCallRecord
<1>7. \/ UNCHANGED refundCall
      \/ \E c \in RefundCalls :
            \/ CreateRefund(c)
            \/ /\ refundCall[c].pc # "idle"
               /\ ReserveRefund(c) \/ SendRefund(c) \/ \E to : Go(c, to)
      \/ ReadRefundable
  BY DEF RefundsNext, RefundStep, RefundFault, RefundWork, ReserveRefund,
         SendRefund, StripeRefuses, GiveUpRefund, ApplyRefundAnswer,
         StripeSettles, RefundWebhook, CancelPaidBooking, CancelWork,
         WriteRefundStatus, ResolveWithoutRefund, RefundUnreachable,
         RequestDies, CancellationDies, WebhookDies, RefundAt
<1> QED BY <1>2, <1>3, <1>4, <1>5, <1>6, <1>7

\* What may be written on the booking, and when.
LEMMA ReviewMoves ==
    ASSUME RefundsInv, RefundsNext
    PROVE  \/ review' = review
           \/ review' \in {"REQUIRES_MANUAL_REVIEW", "RESOLVED_NO_REFUND"}
           \/ /\ review' = "MANUALLY_REFUNDED"
              /\ \E c \in RefundCalls : refundRow'[c] = "SUCCEEDED"
           \/ /\ UNCHANGED <<refundRow, refundCall>>
              /\ \/ /\ review' = "AUTO_REFUNDED"
                    /\ refundCall[AutoCall].pc = "over"
                 \/ /\ review' = "REFUND_FAILED"
                    /\ refundCall[AutoCall].pc = "error"
<1> USE DEF RefundsInv
<1>1. ASSUME NEW c \in RefundCalls, NEW to, ApplyRefundResult(c, to)
      PROVE  \/ review' = review
             \/ /\ review' = "MANUALLY_REFUNDED"
                /\ \E d \in RefundCalls : refundRow'[d] = "SUCCEEDED"
  BY <1>1 DEF ApplyRefundResult, IsDefinitiveFailure, CloseReview,
              RefundsTypeOK
<1>2. ASSUME WriteRefundStatus
      PROVE  \/ review' = "REQUIRES_MANUAL_REVIEW"
             \/ /\ UNCHANGED <<refundRow, refundCall>>
                /\ \/ /\ review' = "AUTO_REFUNDED"
                      /\ refundCall[AutoCall].pc = "over"
                   \/ /\ review' = "REFUND_FAILED"
                      /\ refundCall[AutoCall].pc = "error"
  BY <1>2 DEF WriteRefundStatus, AutoRefunded, AutoRefundFailed, RefundAt,
              moneyRows
<1>3. \/ review' = review \/ WriteRefundStatus
      \/ review' = "RESOLVED_NO_REFUND"
      \/ \E c \in RefundCalls : \E to : ApplyRefundResult(c, to)
  BY DEF RefundsNext, RefundStep, RefundFault, CreateRefund, RefundWork,
         ReserveRefund, SendRefund, StripeRefuses, GiveUpRefund,
         ApplyRefundAnswer, StripeSettles, RefundWebhook, CancelPaidBooking,
         CancelWork, ReadRefundable, ResolveWithoutRefund, RefundUnreachable,
         RequestDies, CancellationDies, WebhookDies
<1> QED BY <1>1, <1>2, <1>3

\* So the invariant is kept.
LEMMA EarnedStep ==
    ASSUME RefundsInv, RefundsInv', EarnedInv, [RefundsNext]_refundVars
    PROVE  EarnedInv'
<1>1. CASE UNCHANGED refundVars
  BY <1>1 DEF EarnedInv, AdminKeys, AutoTakesAll, ReviewInv, RefundHasFailed,
              AmountOf, refundVars
<1>2. CASE RefundsNext
  <2> USE DEF EarnedInv
  <2>1. AdminKeys'
    BY <1>2, AdminKeysKept
  <2>2. AutoCall \in RefundCalls
    BY DEF RefundCalls
  <2>3. /\ refundPay.refunded \in 0..Captured
        /\ refundPay'.refunded \in 0..Captured
        /\ AmountOf(AutoCall) \in Nat /\ Captured \in Nat
    BY <2>2, RefundAssumption
       DEF RefundsInv, RefundsTypeOK, RefundCallRecord, Ask, AmountOf
  <2>4. /\ \A c \in RefundCalls :
              /\ refundRow[c] # NoRefund => refundRow'[c] # NoRefund
              /\ refundRow[c] \in {"SUCCEEDED", "FAILED"} =>
                    refundRow'[c] = refundRow[c]
        /\ refundPay'.refunded >= refundPay.refunded \/ RefundHasFailed'
    BY <1>2, RowsMove DEF RefundHasFailed
  <2>5. RefundHasFailed => RefundHasFailed'
    BY <2>4 DEF RefundHasFailed
  <2>6. ASSUME refundRow[AutoCall] # NoRefund
        PROVE  /\ refundRow'[AutoCall] # NoRefund
               /\ refundPay'.refunded = Captured \/ RefundHasFailed'
    BY <2>2, <2>3, <2>4, <2>5, <2>6 DEF AutoTakesAll
  <2>7. ASSUME ReserveRefund(AutoCall)
        PROVE  /\ AutoTakesAll'
               /\ refundCall'[AutoCall].pc = "over" =>
                     refundRow'[AutoCall] # NoRefund
    <3>1. /\ refundCall[AutoCall].pc = "checked"
          /\ refundRow[AutoCall] = NoRefund
          /\ refundCall'[AutoCall].pc \in {"created", "error"}
      BY <2>2, <2>7 DEF ReserveRefund, RefundAt, Go, RefundsInv, RefundsTypeOK,
                        RefundCallRecord, RefundRowInv
    <3>2. \/ refundRow' = refundRow
          \/ refundPay'.refunded = refundPay.refunded + AmountOf(AutoCall)
      BY <2>7 DEF ReserveRefund, Reserve, RefundsInv, RefundsTypeOK
    <3>3. refundRow'[AutoCall] = NoRefund \/ refundPay'.refunded = Captured
          \/ RefundHasFailed'
      BY <2>3, <2>5, <3>1, <3>2 DEF AutoTakesAll
    <3> QED BY <3>1, <3>3 DEF AutoTakesAll
  <2>8. ASSUME ~ReserveRefund(AutoCall), refundRow[AutoCall] = NoRefund
        PROVE  /\ AutoTakesAll'
               /\ refundCall'[AutoCall].pc = "over" =>
                     refundRow'[AutoCall] # NoRefund
    <3>1. refundRow'[AutoCall] = NoRefund
      BY <1>2, <2>2, <2>8, OnlyReservingInserts
    <3>2. \/ refundCall'[AutoCall] = refundCall[AutoCall]
          \/ /\ refundCall'[AutoCall].pc = "checked"
             /\ refundCall'[AutoCall].ask.amount
                   = Captured - refundPay.refunded
             /\ refundPay' = refundPay
      BY <1>2, <2>2, <2>8, AutoCallMoves DEF RefundsInv, RefundRowInv, NoRefund
    <3>3. AutoTakesAll'
      BY <2>3, <2>4, <2>5, <3>1, <3>2 DEF AutoTakesAll, AmountOf
    <3>4. refundCall'[AutoCall].pc # "over"
      BY <2>8, <3>2
    <3> QED BY <3>3, <3>4 DEF AutoTakesAll
  <2>9. ASSUME ~ReserveRefund(AutoCall), refundRow[AutoCall] # NoRefund
        PROVE  /\ AutoTakesAll'
               /\ refundCall'[AutoCall].pc = "over" =>
                     refundRow'[AutoCall] # NoRefund
    <3>1. refundCall'[AutoCall].pc # "checked"
      BY <2>2, <2>6, <2>9 DEF RefundsInv, RefundRowInv
    <3> QED BY <2>6, <2>9, <3>1 DEF AutoTakesAll
  <2>10. /\ AutoTakesAll'
         /\ refundCall'[AutoCall].pc = "over" => refundRow'[AutoCall] # NoRefund
    BY <2>7, <2>8, <2>9
  <2>11. ReviewInv'
    <3>1. refundCall[AutoCall].pc = "error" =>
             refundCall'[AutoCall].pc = "error"
      BY <1>2, AutoCallMoves DEF ReserveRefund, RefundAt
    <3> QED BY <1>2, <2>2, <2>4, <3>1, ReviewMoves DEF ReviewInv
  <2> QED BY <2>1, <2>10, <2>11
<1> QED BY <1>1, <1>2

\* What the refund status says of a cancelled booking is so, however requests,
\* answers, webhooks and faults interleave (#resolvePaymentForCancelledBooking,
\* #applyRefundResult).
THEOREM RefundStatusEarned == RefundsSpec => []RefundStatusIsEarned
<1>1. InitRefunds => EarnedInv
  BY DEF InitRefunds, EarnedInv, AdminKeys, AutoTakesAll, ReviewInv,
         RefundHasFailed, RefundCalls, NoRefund
<1>2. RefundsInv /\ RefundsInv' /\ EarnedInv /\ [RefundsNext]_refundVars
         => EarnedInv'
  BY EarnedStep
<1>3. RefundsInv /\ EarnedInv => RefundStatusIsEarned
  <2> SUFFICES ASSUME RefundsInv, EarnedInv PROVE RefundStatusIsEarned
    OBVIOUS
  <2>1. AutoCall \in RefundCalls
    BY DEF RefundCalls
  <2>2. review = "AUTO_REFUNDED" =>
           (refundPay.refunded = Captured
              \/ InStatus({"FAILED", "CANCELLED"}) # {})
    BY DEF EarnedInv, ReviewInv, AutoTakesAll, RefundHasFailed, InStatus
  <2>3. review = "REFUND_FAILED" =>
           refundRow[AutoCall] \notin {"PROCESSING", "SUCCEEDED"}
    BY <2>1 DEF EarnedInv, ReviewInv, RefundsInv, RefundRowInv, NoRefund
  <2>4. review = "MANUALLY_REFUNDED" => InStatus({"SUCCEEDED"}) # {}
    BY DEF EarnedInv, ReviewInv, InStatus
  <2> QED BY <2>2, <2>3, <2>4 DEF RefundStatusIsEarned
<1> QED BY <1>1, <1>2, <1>3, RefundsInvariant, PTL DEF RefundsSpec

-----------------------------------------------------------------------------
(* #executeRefund and the webhooks implement Escrow *)

\* The refinement mapping of Refunds.
Aside == [c \in RefundCalls |-> IF refundRow[c] \in {"CREATED", "PROCESSING"}
                                THEN AmountOf(c) ELSE 0]
Paid == [c \in RefundCalls |-> IF refundRow[c] = "SUCCEEDED"
                               THEN AmountOf(c) ELSE 0]

\* What Escrow holds is refunded_amount.
LEMMA EscrowTotal ==
    ASSUME RefundsInv
    PROVE  RefundsAreEscrow!Total = refundPay.refunded
<1> DEFINE all == [c \in RefundCalls |-> Aside[c] + Paid[c]]
           T == InStatus(Reserving)
           f == Amounts(refundCall)
<1>1. \A c \in RefundCalls : AmountOf(c) \in Nat
  BY RefundAssumption
     DEF RefundsInv, RefundsTypeOK, RefundCallRecord, Ask, AmountOf
<1>2. \A c \in RefundCalls :
         Aside[c] \in Nat /\ Paid[c] \in Nat /\ all[c] = Aside[c] + Paid[c]
  BY <1>1 DEF Aside, Paid
<1>3. T \in SUBSET RefundCalls
  BY DEF InStatus
<1>4. \A c \in T : f[c] \in Nat /\ all[c] = f[c]
  BY <1>1, <1>3 DEF Aside, Paid, Amounts, AmountOf, InStatus, Reserving
<1>5. \A c \in RefundCalls \ T : all[c] = 0
  BY DEF Aside, Paid, InStatus, Reserving
<1>6. refundPay.refunded = SumOver(f, T)
  BY ReservedNow DEF RefundsInv, RefundedIsReserved
<1>7. RefundsAreEscrow!Total =
         MapThenSumSet(LAMBDA c : Aside[c] + Paid[c], RefundCalls)
  BY DEF RefundsAreEscrow!Total, Aside, Paid, MapThenSumSet, MapThenFoldSet,
         RefundsAreEscrow!MapThenSumSet, RefundsAreEscrow!MapThenFoldSet
<1> HIDE DEF all, T, f
<1>8. SumOver(all, RefundCalls) = SumOver(f, T)
  BY <1>3, <1>4, <1>5, CallsFinite, SumOutside
<1>9. SumOver(all, RefundCalls) =
         SumOver(Aside, RefundCalls) + SumOver(Paid, RefundCalls)
  BY <1>2, CallsFinite, SumPlus
<1>10. MapThenSumSet(LAMBDA c : Aside[c] + Paid[c], RefundCalls) =
          SumOver(Aside, RefundCalls) + SumOver(Paid, RefundCalls)
  BY <1>2, CallsFinite, SumOfTwo
<1> QED BY <1>6, <1>7, <1>8, <1>9, <1>10

\* Neither a row nor the amount of a row changes.
LEMMA EscrowStutters ==
    ASSUME UNCHANGED refundRow,
           \A c \in RefundCalls :
              refundRow[c] # NoRefund => refundCall'[c].ask = refundCall[c].ask
    PROVE  Aside' = Aside /\ Paid' = Paid
<1>1. \A c \in RefundCalls :
         (IF refundRow'[c] \in {"CREATED", "PROCESSING"}
          THEN refundCall'[c].ask.amount ELSE 0) =
         (IF refundRow[c] \in {"CREATED", "PROCESSING"}
          THEN refundCall[c].ask.amount ELSE 0)
  BY DEF NoRefund
<1>2. \A c \in RefundCalls :
         (IF refundRow'[c] = "SUCCEEDED"
          THEN refundCall'[c].ask.amount ELSE 0) =
         (IF refundRow[c] = "SUCCEEDED"
          THEN refundCall[c].ask.amount ELSE 0)
  BY DEF NoRefund
<1> QED BY <1>1, <1>2 DEF Aside, Paid, AmountOf

\* A reservation is paid, given back, or known at Stripe.
LEMMA EscrowSettles ==
    ASSUME RefundsInv, NEW c \in RefundCalls,
           refundRow[c] \in {"CREATED", "PROCESSING"},
           NEW to \in {"PROCESSING", "SUCCEEDED", "FAILED"},
           refundRow' = [refundRow EXCEPT ![c] = to],
           \A d \in RefundCalls : refundCall'[d].ask = refundCall[d].ask
    PROVE  \/ Aside' = Aside /\ Paid' = Paid
           \/ /\ Aside[c] > 0 /\ Aside' = [Aside EXCEPT ![c] = 0]
              /\ Paid' = Paid \/ Paid' = [Paid EXCEPT ![c] = Aside[c]]
<1>1. Aside[c] > 0 /\ Aside[c] = AmountOf(c) /\ Paid[c] = 0
  BY RefundAssumption
     DEF RefundsInv, RefundRowInv, Aside, Paid, AmountOf, NoRefund
<1>2. /\ Aside' = [d \in RefundCalls |->
                     IF refundRow'[d] \in {"CREATED", "PROCESSING"}
                     THEN AmountOf(d) ELSE 0]
      /\ Paid' = [d \in RefundCalls |->
                     IF refundRow'[d] = "SUCCEEDED"
                     THEN AmountOf(d) ELSE 0]
  BY DEF Aside, Paid, AmountOf
<1>3. /\ refundRow'[c] = to
      /\ \A d \in RefundCalls \ {c} : refundRow'[d] = refundRow[d]
  BY DEF RefundsInv, RefundsTypeOK
<1>4. CASE to = "PROCESSING"
  BY <1>2, <1>3, <1>4 DEF Aside, Paid
<1>5. CASE to = "SUCCEEDED"
  <2>1. Aside' = [Aside EXCEPT ![c] = 0]
    BY <1>2, <1>3, <1>5 DEF Aside
  <2>2. Paid' = [Paid EXCEPT ![c] = Aside[c]]
    BY <1>1, <1>2, <1>3, <1>5 DEF Paid
  <2> QED BY <1>1, <2>1, <2>2
<1>6. CASE to = "FAILED"
  <2>1. Aside' = [Aside EXCEPT ![c] = 0]
    BY <1>2, <1>3, <1>6 DEF Aside
  <2>2. Paid' = Paid
    BY <1>1, <1>2, <1>3, <1>6 DEF Paid
  <2> QED BY <1>1, <2>1, <2>2
<1> QED BY <1>4, <1>5, <1>6

\* A row that is inserted sets its amount aside.
LEMMA EscrowOpens ==
    ASSUME RefundsInv, NEW c \in RefundCalls, refundRow[c] = NoRefund,
           refundRow' = [refundRow EXCEPT ![c] = "CREATED"],
           \A d \in RefundCalls : refundCall'[d].ask = refundCall[d].ask
    PROVE  /\ Aside[c] = 0 /\ Paid[c] = 0 /\ Paid' = Paid
           /\ Aside' = [Aside EXCEPT ![c] = AmountOf(c)]
<1>1. Aside[c] = 0 /\ Paid[c] = 0
  BY DEF Aside, Paid, NoRefund
<1>2. /\ Aside' = [d \in RefundCalls |->
                     IF refundRow'[d] \in {"CREATED", "PROCESSING"}
                     THEN AmountOf(d) ELSE 0]
      /\ Paid' = [d \in RefundCalls |->
                     IF refundRow'[d] = "SUCCEEDED"
                     THEN AmountOf(d) ELSE 0]
  BY DEF Aside, Paid, AmountOf
<1>3. refundRow'[c] = "CREATED"
      /\ \A d \in RefundCalls \ {c} : refundRow'[d] = refundRow[d]
  BY DEF RefundsInv, RefundsTypeOK
<1>4. Aside' = [Aside EXCEPT ![c] = AmountOf(c)]
  BY <1>2, <1>3 DEF Aside
<1>5. Paid' = Paid
  BY <1>1, <1>2, <1>3 DEF Paid
<1> QED BY <1>1, <1>4, <1>5

\* Every step is a step of Escrow, or none.
LEMMA EscrowStep ==
    ASSUME RefundsInv, [RefundsNext]_refundVars
    PROVE  RefundsAreEscrow!EscrowNext \/ (Aside' = Aside /\ Paid' = Paid)
<1>1. ASSUME UNCHANGED refundRow,
             \A c \in RefundCalls :
                refundRow[c] # NoRefund =>
                   refundCall'[c].ask = refundCall[c].ask
      PROVE  Aside' = Aside /\ Paid' = Paid
  BY <1>1, EscrowStutters
<1>2. CASE UNCHANGED refundVars
  BY <1>1, <1>2 DEF refundVars
<1>3. ASSUME NEW c \in RefundCalls, NEW pc, Go(c, pc)
      PROVE  \A d \in RefundCalls : refundCall'[d].ask = refundCall[d].ask
  BY <1>3 DEF Go, RefundsInv, RefundsTypeOK, RefundCallRecord
<1>4. ASSUME NEW c \in RefundCalls, NEW to, ApplyRefundResult(c, to),
             to \in {"PROCESSING", "SUCCEEDED", "FAILED", "NONE"},
             \A d \in RefundCalls : refundCall'[d].ask = refundCall[d].ask
      PROVE  RefundsAreEscrow!EscrowNext \/ (Aside' = Aside /\ Paid' = Paid)
  <2>1. /\ refundRow' = [refundRow EXCEPT ![c] = to]
        /\ refundRow[c] \in {"CREATED", "PROCESSING"}
        /\ to \in {"PROCESSING", "SUCCEEDED", "FAILED"}
    BY <1>4 DEF ApplyRefundResult, Applies, RefundTransitions
  <2>2. \/ Aside' = Aside /\ Paid' = Paid
        \/ /\ Aside[c] > 0 /\ Aside' = [Aside EXCEPT ![c] = 0]
           /\ Paid' = Paid \/ Paid' = [Paid EXCEPT ![c] = Aside[c]]
    BY <1>4, <2>1, EscrowSettles
  <2> QED BY <2>2 DEF RefundsAreEscrow!EscrowNext, RefundsAreEscrow!PayOut,
                      RefundsAreEscrow!PutBack, Aside, Paid
<1>5. ASSUME NEW c \in RefundCalls, ReserveRefund(c)
      PROVE  RefundsAreEscrow!EscrowNext \/ (Aside' = Aside /\ Paid' = Paid)
  <2>1. \A d \in RefundCalls : refundCall'[d].ask = refundCall[d].ask
    BY <1>3, <1>5 DEF ReserveRefund
  <2>2. CASE UNCHANGED refundRow
    BY <1>1, <2>1, <2>2
  <2>3. CASE /\ RefundAllowed(c)
             /\ refundRow' = [refundRow EXCEPT ![c] = "CREATED"]
    <3>1. refundRow[c] = NoRefund
      BY <1>5 DEF ReserveRefund, RefundAt, RefundsInv, RefundRowInv
    <3>2. /\ Aside[c] = 0 /\ Paid[c] = 0 /\ Paid' = Paid
          /\ Aside' = [Aside EXCEPT ![c] = AmountOf(c)]
      BY <2>1, <2>3, <3>1, EscrowOpens
    <3>3. /\ AmountOf(c) \in 1..Captured
          /\ RefundsAreEscrow!Total + AmountOf(c) <= Captured
      <4>1. AmountOf(c) \in 1..(Captured - refundPay.refunded)
        BY <2>3 DEF RefundAllowed
      <4>2. refundPay.refunded \in 0..Captured
        BY DEF RefundsInv, RefundsTypeOK
      <4> QED BY <4>1, <4>2, EscrowTotal, RefundAssumption
    <3>4. \E amount \in 1..Captured : RefundsAreEscrow!SetAside(c, amount)
      BY <3>2, <3>3 DEF RefundsAreEscrow!SetAside, Aside, Paid
    <3> QED BY <3>4 DEF RefundsAreEscrow!EscrowNext
  <2> QED BY <1>5, <2>2, <2>3 DEF ReserveRefund
<1>6. ASSUME NEW c \in RefundCalls, GiveUpRefund(c)
      PROVE  RefundsAreEscrow!EscrowNext \/ (Aside' = Aside /\ Paid' = Paid)
  <2>1. /\ refundRow' = [refundRow EXCEPT ![c] = "FAILED"]
        /\ refundRow[c] = "CREATED"
    BY <1>6 DEF GiveUpRefund, RefundAt, RefundsInv, RefundRowInv
  <2>2. \A d \in RefundCalls : refundCall'[d].ask = refundCall[d].ask
    BY <1>3, <1>6 DEF GiveUpRefund
  <2>3. \/ Aside' = Aside /\ Paid' = Paid
        \/ /\ Aside[c] > 0 /\ Aside' = [Aside EXCEPT ![c] = 0]
           /\ Paid' = Paid \/ Paid' = [Paid EXCEPT ![c] = Aside[c]]
    BY <2>1, <2>2, EscrowSettles
  <2> QED BY <2>3 DEF RefundsAreEscrow!EscrowNext, RefundsAreEscrow!PayOut,
                      RefundsAreEscrow!PutBack, Aside, Paid
<1>7. ASSUME NEW c \in RefundCalls, ApplyRefundAnswer(c)
      PROVE  RefundsAreEscrow!EscrowNext \/ (Aside' = Aside /\ Paid' = Paid)
  <2>1. refundCall[c].answer \in {"PROCESSING", "SUCCEEDED", "FAILED", "NONE"}
    BY DEF RefundsInv, RefundsTypeOK, RefundCallRecord, NoRefund,
           ProviderRefundStatus
  <2>2. \A d \in RefundCalls : refundCall'[d].ask = refundCall[d].ask
    BY <1>3, <1>7 DEF ApplyRefundAnswer
  <2> QED BY <1>4, <1>7, <2>1, <2>2 DEF ApplyRefundAnswer
<1>8. ASSUME NEW c \in RefundCalls, NEW to \in ProviderRefundStatus,
             RefundWebhook(c, to)
      PROVE  RefundsAreEscrow!EscrowNext \/ (Aside' = Aside /\ Paid' = Paid)
  <2>1. UNCHANGED refundCall
    BY <1>8 DEF RefundWebhook
  <2>2. CASE ApplyRefundResult(c, to)
    BY <1>4, <2>1, <2>2 DEF ProviderRefundStatus
  <2>3. CASE UNCHANGED <<moneyRows, review>>
    BY <1>1, <2>1, <2>3 DEF moneyRows
  <2> QED BY <1>8, <2>2, <2>3 DEF RefundWebhook
<1>9. ASSUME NEW c \in RefundCalls, NEW ask, LookUp(c, ask),
             refundCall[c].pc = "idle"
      PROVE  \A d \in RefundCalls :
                refundRow[d] # NoRefund =>
                   refundCall'[d].ask = refundCall[d].ask
  BY <1>9 DEF LookUp, RefundsInv, RefundsTypeOK, RefundRowInv
<1>10. ASSUME NEW c \in RefundCalls, CreateRefund(c)
       PROVE  Aside' = Aside /\ Paid' = Paid
  BY <1>1, <1>9, <1>10 DEF CreateRefund, RefundAt, moneyRows
<1>11. ASSUME NEW c \in RefundCalls, SendRefund(c)
       PROVE  Aside' = Aside /\ Paid' = Paid
  <2>1. \A d \in RefundCalls : refundCall'[d].ask = refundCall[d].ask
    BY <1>11 DEF SendRefund, RefundsInv, RefundsTypeOK, RefundCallRecord
  <2> QED BY <1>1, <1>11, <2>1 DEF SendRefund, moneyRows
<1>12. ASSUME NEW c \in RefundCalls,
              \/ StripeRefuses(c) \/ RefundUnreachable(c) \/ RequestDies(c)
       PROVE  Aside' = Aside /\ Paid' = Paid
  <2>1. \A d \in RefundCalls : refundCall'[d].ask = refundCall[d].ask
    BY <1>3, <1>12 DEF StripeRefuses, RefundUnreachable, RequestDies
  <2>2. UNCHANGED refundRow
    BY <1>12 DEF StripeRefuses, RefundUnreachable, RequestDies, moneyRows
  <2> QED BY <1>1, <2>1, <2>2
<1>13. ASSUME ReadRefundable PROVE Aside' = Aside /\ Paid' = Paid
  <2>1. /\ refundCall[AutoCall].pc = "idle" /\ AutoCall \in RefundCalls
        /\ UNCHANGED refundRow
    BY <1>13 DEF ReadRefundable, RefundsInv, CancellingInv, RefundCalls,
                 moneyRows
  <2>2. CASE UNCHANGED refundCall
    BY <1>1, <2>1, <2>2
  <2>3. CASE \E ask : LookUp(AutoCall, ask)
    BY <1>1, <1>9, <2>1, <2>3
  <2> QED BY <1>13, <2>2, <2>3 DEF ReadRefundable
<1>14. ASSUME \/ CancelPaidBooking \/ WriteRefundStatus \/ CancellationDies
              \/ ResolveWithoutRefund \/ WebhookDies
              \/ \E c \in RefundCalls : StripeSettles(c)
       PROVE  Aside' = Aside /\ Paid' = Paid
  <2>1. UNCHANGED <<refundRow, refundCall>>
    BY <1>14
       DEF CancelPaidBooking, WriteRefundStatus, ResolveWithoutRefund,
           CancellationDies, WebhookDies, StripeSettles, moneyRows
  <2> QED BY <1>1, <2>1
<1> QED BY <1>2, <1>5, <1>6, <1>7, <1>8, <1>10, <1>11, <1>12, <1>13, <1>14
        DEF RefundsNext, RefundStep, RefundFault, RefundWork, CancelWork

\* #executeRefund, the webhooks and the cancellation implement Escrow: money
\* is set aside once per refund, then paid or put back once, and never exceeds
\* the captured amount.
THEOREM RefundsImplementEscrow == RefundsSpec => ImplementsEscrow
<1>1. InitRefunds => RefundsAreEscrow!EscrowInit
  BY DEF InitRefunds, RefundsAreEscrow!EscrowInit, NoRefund, AmountOf
<1>2. RefundsInv /\ [RefundsNext]_refundVars =>
         [RefundsAreEscrow!EscrowNext]_(RefundsAreEscrow!escrowVars)
  BY EscrowStep DEF Aside, Paid, RefundsAreEscrow!escrowVars
<1> QED BY <1>1, <1>2, RefundsInvariant, PTL
        DEF RefundsSpec, ImplementsEscrow, RefundsAreEscrow!EscrowSpec
=============================================================================
