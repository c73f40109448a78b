------------------------------ MODULE Payments ------------------------------
(***************************************************************************)
(* Checkout, capture and void:                                             *)
(* apps/api/src/modules/payments/services/paymentService.js, with the      *)
(* bookings it pays for.  No transaction is open during a call to the      *)
(* provider, so a checkout, a capture and a void are each a chain of       *)
(* steps: a transaction that checks the payment row, the call, and a       *)
(* transaction that applies the answer to whatever the row is by then.     *)
(* The provider reports every change as a webhook, delivered late, out of  *)
(* order and repeatedly; the row in payment_provider_events, inserted      *)
(* before the event is processed, makes a repetition do nothing.           *)
(*                                                                         *)
(* Every step of a request takes one payment row or booking row under its  *)
(* lock, so a step is one transaction.  Amounts play no part: a capture    *)
(* is always of the whole.                                                 *)
(***************************************************************************)
EXTENDS Bookings

CONSTANTS
    Intent,     \* checkout requests, each with the payment row it may insert
    BookingOf,  \* the booking each of them pays for
    Provider,   \* "stripe", or "local", the simulation used in development
    Subscribed  \* the statuses Stripe is configured to report

VARIABLES
    payment,       \* payments, one row per intent
    summary,       \* bookings.payment_status_id
    refundStatus,  \* bookings.refund_status
    intent,        \* the provider's own status of each intent
    event,         \* webhooks, and the payment_provider_events rows of them
    handling,      \* events whose handler is running
    syncing,       \* intents in #syncPaymentWithBookingDecision
    settling,      \* jobs in the local settlement queue
    checkout,      \* createPaymentIntent requests
    jobs,          \* #executeCaptureOrVoid calls
    refundCheck    \* cancelled bookings that had no authorization to void

paymentRows == <<payment, summary, refundStatus>>
work == <<handling, syncing, settling, checkout, jobs, refundCheck>>
vars == <<bookingVars, paymentRows, intent, event, work>>

NoStatus == "NONE"
PaymentRow == [status: PaymentStatus \cup {NoStatus},
               known: BOOLEAN,   \* provider_payment_id is set
               received: Nat]    \* CUSTOMER_PAYMENT_RECEIVED ledger entries
EventStatus == {"CREATED", "REQUIRES_ACTION", "PROCESSING", "AUTHORIZED",
                "SUCCEEDED", "CANCELLED", "FAILED"}
Event == Intent \X EventStatus
ASSUME IntentAssumption ==
    /\ BookingOf \in [Intent -> Booking]
    /\ Provider \in {"stripe", "local"}
    /\ Subscribed \subseteq EventStatus

EventState == {"unsent", "sent", "PENDING", "PROCESSED", "FAILED"}

\* saw: the booking's status when the request checked it.
Checkout == [pc: {"idle", "checked", "calling", "returned", "unreachable",
                  "over"},
             saw: BookingStatus, result: EventStatus \cup {NoStatus}]
Job == [intent: Intent, by: {"decision", "checkout", "webhook"},
        action: {"capture", "void"}, pc: {"check", "call", "apply"},
        result: EventStatus \cup {NoStatus}]

Payable == {"PENDING_VENDOR", "CONFIRMED"}
Cancellation == {"customerCancel", "vendorCancel"}

BookingPaymentStatus == {"NOT_REQUIRED_ON_PLATFORM", "AWAITING_PAYMENT",
                         "AUTHORIZED_AWAITING_CAPTURE", "PAID_ONLINE",
                         "PAYMENT_FAILED", "PAYMENT_VOIDED"}

\* BOOKING_PAYMENT_STATUS_BY_INTENT_STATUS
SummaryOf(paymentStatus) ==
    CASE paymentStatus = "AUTHORIZED" -> "AUTHORIZED_AWAITING_CAPTURE"
      [] paymentStatus = "SUCCEEDED" -> "PAID_ONLINE"
      [] paymentStatus = "FAILED" -> "PAYMENT_FAILED"
      [] paymentStatus = "CANCELLED" -> "PAYMENT_VOIDED"
      [] OTHER -> "AWAITING_PAYMENT"

Init ==
    /\ BookingsInit
    /\ payment = [p \in Intent |->
                     [status |-> NoStatus, known |-> FALSE, received |-> 0]]
    /\ summary = [b \in Booking |-> "NOT_REQUIRED_ON_PLATFORM"]
    /\ refundStatus = [b \in Booking |-> "NOT_APPLICABLE"]
    /\ intent = [p \in Intent |-> NoStatus]
    /\ event = [e \in Event |-> "unsent"]
    /\ handling = {} /\ syncing = {} /\ settling = {}
    /\ checkout = [p \in Intent |->
                      [pc |-> "idle", saw |-> "DRAFT", result |-> NoStatus]]
    /\ jobs = {} /\ refundCheck = {}

-----------------------------------------------------------------------------
(* #applyProviderResult, on a locked payment row *)

\* MUTANT: an answer is applied whatever the row has become.
AlwaysApplicable(p, to) == payment[p].status # NoStatus

Applicable(p, to) ==
    \/ to = payment[p].status
    \/ <<payment[p].status, to>> \in PaymentTransitions

\* The same answer again: nothing is written.
Repeated(p, to) == to = payment[p].status /\ payment[p].known

Entries(p, to) == IF to = "SUCCEEDED" /\ payment[p].status # to THEN 1 ELSE 0

\* recordPaymentOutcome writes the booking row, and so waits for its lock.
Apply(p, to, known) ==
    /\ Applicable(p, to)
    /\ \/ /\ Repeated(p, to)
          /\ UNCHANGED paymentRows
       \/ /\ ~Repeated(p, to)
          /\ Lockable(BookingOf[p])
          /\ payment' = [payment EXCEPT ![p] =
                [status |-> to, known |-> known,
                 received |-> @.received + Entries(p, to)]]
          /\ summary' = [summary EXCEPT ![BookingOf[p]] = SummaryOf(to)]
          /\ UNCHANGED refundStatus

-----------------------------------------------------------------------------
(* The provider.  Stripe sends the webhooks its endpoint is subscribed to;  *)
(* an intent that has been reported in a status does not enter it again.   *)

Unsent(p, to) == to \in Subscribed => event[<<p, to>>] = "unsent"

Sent(p, to) == [event EXCEPT ![<<p, to>>] =
                   IF @ = "unsent" /\ to \in Subscribed THEN "sent" ELSE @]

StripeMoves ==
    {<<"CREATED", "REQUIRES_ACTION">>, <<"CREATED", "AUTHORIZED">>,
     <<"REQUIRES_ACTION", "AUTHORIZED">>}

\* The customer has the client secret of an intent whose id has been stored.
StripeProgress(p) ==
    /\ Provider = "stripe" /\ payment[p].known
    /\ \E to \in EventStatus :
          /\ <<intent[p], to>> \in StripeMoves
          /\ Unsent(p, to)
          /\ intent' = [intent EXCEPT ![p] = to]
          /\ event' = Sent(p, to)
    /\ UNCHANGED <<bookingVars, paymentRows, work>>

\* payment_intent.payment_failed: the intent can be confirmed again.
StripeAttemptFails(p) ==
    /\ Provider = "stripe" /\ payment[p].known
    /\ intent[p] \in {"CREATED", "REQUIRES_ACTION"}
    /\ Unsent(p, "FAILED")
    /\ intent' = [intent EXCEPT ![p] = "CREATED"]
    /\ event' = Sent(p, "FAILED")
    /\ UNCHANGED <<bookingVars, paymentRows, work>>

\* An authorization nobody captures is released after some days.
StripeReleases(p) ==
    /\ Provider = "stripe" /\ intent[p] = "AUTHORIZED"
    /\ intent' = [intent EXCEPT ![p] = "CANCELLED"]
    /\ event' = Sent(p, "CANCELLED")
    /\ UNCHANGED <<bookingVars, paymentRows, work>>

-----------------------------------------------------------------------------
(* createPaymentIntent *)

At(p, pc) == checkout[p].pc = pc

BeginCheckout(p) ==
    /\ At(p, "idle")
    /\ status[BookingOf[p]] \in Payable
    /\ checkout' = [checkout EXCEPT ![p].pc = "checked",
                                    ![p].saw = status[BookingOf[p]]]
    /\ UNCHANGED <<bookingVars, paymentRows, intent, event, handling, syncing,
                   settling, jobs, refundCheck>>

\* MUTANT: a row that no provider has answered for yet does not count.
ActiveOnceAnswered(b) == {p \in Intent : /\ BookingOf[p] = b
                                         /\ payment[p].known
                                         /\ payment[p].status
                                               \in ActivePaymentStatus}

ActiveFor(b) == {p \in Intent : /\ BookingOf[p] = b
                                /\ payment[p].status \in ActivePaymentStatus}

\* findActiveForBooking locks the gap of the booking's payments, so that the
\* check and the insert are one step.
InsertPayment(p) ==
    /\ At(p, "checked")
    /\ ActiveFor(BookingOf[p]) = {}
    /\ Lockable(BookingOf[p])
    /\ payment' = [payment EXCEPT ![p].status = "CREATED"]
    /\ summary' = [summary EXCEPT ![BookingOf[p]] = SummaryOf("CREATED")]
    /\ checkout' = [checkout EXCEPT ![p].pc = "calling"]
    /\ UNCHANGED <<bookingVars, refundStatus, intent, event, handling, syncing,
                   settling, jobs, refundCheck>>

RefuseCheckout(p) ==
    /\ At(p, "checked")
    /\ ActiveFor(BookingOf[p]) # {}
    /\ checkout' = [checkout EXCEPT ![p].pc = "over"]
    /\ UNCHANGED <<bookingVars, paymentRows, intent, event, handling, syncing,
                   settling, jobs, refundCheck>>

Answers == IF Provider = "stripe" THEN {"CREATED"}
           ELSE {"FAILED", "PROCESSING", "REQUIRES_ACTION", "AUTHORIZED"}

CreateIntent(p) ==
    /\ At(p, "calling")
    /\ \E answer \in Answers :
          /\ intent' = [intent EXCEPT ![p] = answer]
          /\ event' = IF Provider = "stripe" THEN Sent(p, answer) ELSE event
          /\ checkout' = [checkout EXCEPT ![p].pc = "returned",
                                          ![p].result = answer]
    /\ UNCHANGED <<bookingVars, paymentRows, handling, syncing, settling, jobs,
                   refundCheck>>

\* Every retry failed or was lost; Stripe may have the intent all the same.
ProviderUnreachable(p) ==
    /\ Provider = "stripe" /\ At(p, "calling") /\ faults < MaxFaults
    /\ faults' = faults + 1
    /\ \/ UNCHANGED <<intent, event>>
       \/ /\ intent' = [intent EXCEPT ![p] = "CREATED"]
          /\ event' = Sent(p, "CREATED")
    /\ checkout' = [checkout EXCEPT ![p].pc = "unreachable"]
    /\ UNCHANGED <<bookingRows, paymentRows, handling, syncing, settling, jobs,
                   refundCheck>>

NewJob(p, by, action) == [intent |-> p, by |-> by, action |-> action,
                          pc |-> "check", result |-> NoStatus]

\* TX-2, and what follows it in the same request.
FinishCheckout(p) ==
    LET to == checkout[p].result
    IN  /\ At(p, "returned")
        /\ Apply(p, to, TRUE)
        /\ checkout' = [checkout EXCEPT ![p].pc = "over"]
        /\ settling' = settling \cup {x \in {p} : to = "PROCESSING"}
        /\ jobs' = jobs \cup
              {NewJob(x, "checkout", "capture") :
                  x \in {y \in {p} : to = "AUTHORIZED"
                                     /\ checkout[p].saw = "CONFIRMED"}}
        /\ UNCHANGED <<bookingVars, intent, event, handling, syncing,
                       refundCheck>>

FailCheckout(p) ==
    /\ At(p, "unreachable")
    /\ Apply(p, "FAILED", FALSE)
    /\ checkout' = [checkout EXCEPT ![p].pc = "over"]
    /\ UNCHANGED <<bookingVars, intent, event, handling, syncing, settling,
                   jobs, refundCheck>>

-----------------------------------------------------------------------------
(* After a decision has been committed *)

\* MUTANT: the payment is looked up by the status it is about to have.
AuthorizedForCaptured(b) ==
    {p \in ActiveFor(b) : payment[p].status = "SUCCEEDED"}

\* findAuthorizedForBooking
AuthorizedFor(b) ==
    {p \in ActiveFor(b) : payment[p].status = "AUTHORIZED"}

\* findRefundableForBooking
RefundableFor(b) ==
    {p \in ActiveFor(b) : payment[p].status \in {"SUCCEEDED",
                                                 "PARTIALLY_REFUNDED"}}

ActionFor(decision) == IF decision = "confirm" THEN "capture" ELSE "void"

\* MUTANT: a confirmation or rejection without a payment is a cancellation.
AlwaysRefunds(decision) == TRUE

\* Only a cancellation goes on to ask whether a refund is due.
MayRefund(decision) == decision \in Cancellation

\* #capturePaymentForConfirmedBooking, #voidAuthorizedPaymentForBooking and the
\* first half of #resolvePaymentForCancelledBooking.
SettleAuthorization(b, decision) ==
    /\ <<b, decision>> \in afterCommit
    /\ afterCommit' = afterCommit \ {<<b, decision>>}
    /\ \/ /\ AuthorizedFor(b) = {}
          /\ refundCheck' = refundCheck \cup
                {x \in {<<b, decision>>} : MayRefund(decision)}
          /\ UNCHANGED jobs
       \/ \E p \in AuthorizedFor(b) :
             /\ jobs' = jobs \cup {NewJob(p, "decision", ActionFor(decision))}
             /\ UNCHANGED refundCheck
    /\ UNCHANGED <<status, restored, sweep, faults, paymentRows, intent, event,
                   handling, syncing, settling, checkout>>

\* NO_REFUND_DUE and REQUIRES_MANUAL_REVIEW.  After AUTO_REFUND_FULL the entry
\* stays: the refund itself is not modelled here.
ResolveRefundPolicy(b, decision) ==
    /\ <<b, decision>> \in refundCheck
    /\ \/ /\ RefundableFor(b) = {}
          /\ UNCHANGED refundStatus
       \/ /\ RefundableFor(b) # {} /\ decision = "customerCancel"
          /\ Lockable(b)
          /\ refundStatus' =
                [refundStatus EXCEPT ![b] = "REQUIRES_MANUAL_REVIEW"]
    /\ refundCheck' = refundCheck \ {<<b, decision>>}
    /\ UNCHANGED <<bookingVars, payment, summary, intent, event, handling,
                   syncing, settling, checkout, jobs>>

-----------------------------------------------------------------------------
(* #executeCaptureOrVoid *)

Replace(job, next) == jobs' = (jobs \ {job}) \cup next

Move(job, pc, result) == {[job EXCEPT !.pc = pc, !.result = result]}

\* TX-1: only an AUTHORIZED payment can be captured or voided.
CheckJob(job) ==
    /\ job.pc = "check"
    /\ Replace(job, IF payment[job.intent].status = "AUTHORIZED"
                    THEN Move(job, "call", NoStatus) ELSE {})
    /\ UNCHANGED <<bookingVars, paymentRows, intent, event, handling, syncing,
                   settling, checkout, refundCheck>>

Wanted(job) == IF job.action = "capture" THEN "SUCCEEDED" ELSE "CANCELLED"

\* The provider does what is asked of a held authorization.
CaptureOrVoid(job) ==
    /\ intent[job.intent] = "AUTHORIZED"
    /\ intent' = [intent EXCEPT ![job.intent] = Wanted(job)]
    /\ event' = IF Provider = "stripe" THEN Sent(job.intent, Wanted(job))
                                       ELSE event

CallProvider(job) ==
    /\ job.pc = "call"
    /\ CaptureOrVoid(job)
    /\ Replace(job, Move(job, "apply", Wanted(job)))
    /\ UNCHANGED <<bookingVars, paymentRows, handling, syncing, settling,
                   checkout, refundCheck>>

\* An intent that is no longer held: the simulation answers as if it were;
\* Stripe refuses or returns the status the intent has.
CallProviderTooLate(job) ==
    /\ job.pc = "call"
    /\ intent[job.intent] # "AUTHORIZED"
    /\ \/ Provider = "local" /\ Replace(job, Move(job, "apply", Wanted(job)))
       \/ /\ Provider = "stripe"
          /\ \/ Replace(job, Move(job, "apply", intent[job.intent]))
             \/ Replace(job, {})
    /\ UNCHANGED <<bookingVars, paymentRows, intent, event, handling, syncing,
                   settling, checkout, refundCheck>>

\* The caller logs the error; the provider may have acted all the same.
CallFails(job) ==
    /\ job.pc = "call" /\ Provider = "stripe" /\ faults < MaxFaults
    /\ faults' = faults + 1
    /\ CaptureOrVoid(job) \/ UNCHANGED <<intent, event>>
    /\ Replace(job, {})
    /\ UNCHANGED <<bookingRows, paymentRows, handling, syncing, settling,
                   checkout, refundCheck>>

\* TX-2; an answer the row can no longer take is an error, logged.
ApplyAnswer(job) ==
    /\ job.pc = "apply"
    /\ \/ Apply(job.intent, job.result, TRUE)
       \/ ~Applicable(job.intent, job.result) /\ UNCHANGED paymentRows
    /\ Replace(job, {})
    /\ UNCHANGED <<bookingVars, intent, event, handling, syncing, settling,
                   checkout, refundCheck>>

-----------------------------------------------------------------------------
(* handleProviderWebhook *)

\* The event row is inserted in a transaction of its own.  A later delivery of
\* the same event violates the table's unique key and is answered
\* `duplicate`: it changes nothing, whatever became of the first.
Deliver(e) ==
    /\ event[e] = "sent"
    /\ event' = [event EXCEPT ![e] = "PENDING"]
    /\ handling' = handling \cup {e}
    /\ UNCHANGED <<bookingVars, paymentRows, intent, syncing, settling,
                   checkout, jobs, refundCheck>>

\* The local settlement job delivers the only event the simulation has.
SettleLocally(p) ==
    /\ p \in settling
    /\ payment[p].status = "PROCESSING"
    /\ settling' = settling \ {p}
    /\ intent' = [intent EXCEPT ![p] = "AUTHORIZED"]
    /\ event' = [event EXCEPT ![<<p, "AUTHORIZED">>] = "PENDING"]
    /\ handling' = handling \cup {<<p, "AUTHORIZED">>}
    /\ UNCHANGED <<bookingVars, paymentRows, syncing, checkout, jobs,
                   refundCheck>>

\* markFailed: no payment has this provider_payment_id (yet).
HandleUnknown(e) ==
    /\ e \in handling /\ ~payment[e[1]].known
    /\ event' = [event EXCEPT ![e] = "FAILED"]
    /\ handling' = handling \ {e}
    /\ UNCHANGED <<bookingVars, paymentRows, intent, syncing, settling,
                   checkout, jobs, refundCheck>>

HandleEvent(e) ==
    /\ e \in handling /\ payment[e[1]].known
    /\ Apply(e[1], e[2], TRUE)
    /\ event' = [event EXCEPT ![e] = "PROCESSED"]
    /\ handling' = handling \ {e}
    /\ syncing' = syncing \cup {p \in {e[1]} : e[2] = "AUTHORIZED"}
    /\ UNCHANGED <<bookingVars, intent, settling, checkout, jobs, refundCheck>>

\* The transition is refused: the transaction rolls back, the event row stays.
HandleConflict(e) ==
    /\ e \in handling /\ payment[e[1]].known
    /\ ~Applicable(e[1], e[2])
    /\ handling' = handling \ {e}
    /\ UNCHANGED <<bookingVars, paymentRows, intent, event, syncing, settling,
                   checkout, jobs, refundCheck>>

\* A deadlock or a timeout does the same.
HandleFails(e) ==
    /\ e \in handling /\ faults < MaxFaults
    /\ faults' = faults + 1
    /\ handling' = handling \ {e}
    /\ UNCHANGED <<bookingRows, paymentRows, intent, event, syncing, settling,
                   checkout, jobs, refundCheck>>

NotToBePaid == {"REJECTED", "CANCELLED_BY_CUSTOMER", "CANCELLED_BY_VENDOR",
                "EXPIRED"}

\* MUTANT: whatever the vendor said, the money is taken.
SyncActionsCapture(bookingStatus) == {"capture"}

SyncActions(bookingStatus) ==
    IF bookingStatus = "CONFIRMED" THEN {"capture"}
    ELSE IF bookingStatus \in NotToBePaid THEN {"void"} ELSE {}

\* #syncPaymentWithBookingDecision
SyncWithDecision(p) ==
    /\ p \in syncing
    /\ syncing' = syncing \ {p}
    /\ jobs' = jobs \cup {NewJob(p, "webhook", action) :
                             action \in SyncActions(status[BookingOf[p]])}
    /\ UNCHANGED <<bookingVars, paymentRows, intent, event, handling, settling,
                   checkout, refundCheck>>

-----------------------------------------------------------------------------
(* Specification *)

\* The process dies: everything it was doing is forgotten, and only what is
\* committed, or queued in Redis, is left.
Crash ==
    /\ faults < MaxFaults
    /\ faults' = faults + 1
    /\ sweep' = NoSweep
    /\ afterCommit' = {} /\ refundCheck' = {}
    /\ jobs' = {} /\ handling' = {} /\ syncing' = {}
    /\ checkout' = [p \in Intent |->
                       IF At(p, "idle") THEN checkout[p]
                       ELSE [checkout[p] EXCEPT !.pc = "over"]]
    /\ UNCHANGED <<status, restored, paymentRows, intent, event, settling>>

CheckoutStep(p) ==
    \/ InsertPayment(p) \/ RefuseCheckout(p) \/ CreateIntent(p)
    \/ FinishCheckout(p) \/ FailCheckout(p)

DecisionStep(b, decision) ==
    SettleAuthorization(b, decision) \/ ResolveRefundPolicy(b, decision)

JobStep(job) ==
    \/ CheckJob(job) \/ CallProvider(job) \/ CallProviderTooLate(job)
    \/ ApplyAnswer(job)

WebhookStep(e) ==
    Deliver(e) \/ HandleUnknown(e) \/ HandleEvent(e) \/ HandleConflict(e)

\* What the program does by itself once it has begun.
Progress ==
    \/ \E p \in Intent :
          CheckoutStep(p) \/ SettleLocally(p) \/ SyncWithDecision(p)
    \/ \E b \in Booking, decision \in Decision : DecisionStep(b, decision)
    \/ \E job \in jobs : JobStep(job)
    \/ \E e \in Event : WebhookStep(e)

\* What customers, vendors, banks and misfortune do.
Environment ==
    \/ \E p \in Intent :
          \/ BeginCheckout(p) \/ StripeProgress(p) \/ StripeAttemptFails(p)
          \/ StripeReleases(p) \/ ProviderUnreachable(p)
    \/ \E job \in jobs : CallFails(job)
    \/ \E e \in Event : HandleFails(e)
    \/ Crash

Next == \/ Progress
        \/ Environment
        \/ BookingsNext /\ UNCHANGED <<paymentRows, intent, event, work>>

Spec == Init /\ [][Next]_vars

SweepGoesOn == /\ SweepCommit \/ \E b \in Booking : SweepWrite(b)
               /\ UNCHANGED <<faults, paymentRows, intent, event, work>>

\* A process that runs gets on with what it has begun, and Stripe delivers its
\* webhooks.  The customer, the vendor and the bank may do nothing.
FairSpec == Spec /\ WF_vars(Progress) /\ WF_vars(SweepGoesOn)

-----------------------------------------------------------------------------
(* Properties *)

TypeOK ==
    /\ BookingsTypeOK
    /\ payment \in [Intent -> PaymentRow]
    /\ summary \in [Booking -> BookingPaymentStatus]
    /\ refundStatus \in [Booking -> {"NOT_APPLICABLE",
                                     "REQUIRES_MANUAL_REVIEW"}]
    /\ intent \in [Intent -> EventStatus \cup {NoStatus}]
    /\ event \in [Event -> EventState]
    /\ handling \subseteq Event
    /\ syncing \subseteq Intent /\ settling \subseteq Intent
    /\ checkout \in [Intent -> Checkout]
    /\ jobs \subseteq Job
    /\ refundCheck \subseteq Booking \X Cancellation

\* findActiveForBooking: however many checkouts run and whatever the provider
\* answers, a booking has at most one payment that may still be charged.
OneActivePayment ==
    \A p, q \in Intent :
        /\ BookingOf[p] = BookingOf[q]
        /\ {payment[p].status, payment[q].status} \subseteq ActivePaymentStatus
        => p = q

\* The books never run ahead of Stripe: money is entered in the ledger once,
\* for a payment that shows it and an intent that was captured; a voided
\* payment's intent is voided.
BooksFollowStripe ==
    Provider = "stripe" =>
        \A p \in Intent :
            /\ payment[p].received =
                  IF payment[p].status = "SUCCEEDED" THEN 1 ELSE 0
            /\ payment[p].status \in {"SUCCEEDED", "CANCELLED"}
                  => intent[p] = payment[p].status
            /\ payment[p].status = "AUTHORIZED"
                  => intent[p] \in {"AUTHORIZED", "SUCCEEDED", "CANCELLED"}

\* A card is charged only for a booking its vendor has accepted: no capture
\* reaches a booking that is still open or was rejected, whichever of checkout,
\* decision and webhook comes first.
ChargedOnlyIfAccepted ==
    \A p \in Intent :
        intent[p] = "SUCCEEDED" =>
            status[BookingOf[p]] \notin {"DRAFT", "PENDING_VENDOR", "REJECTED"}

\* recordPaymentOutcome, in the transaction of the payment row: what the
\* booking shows is the state of the payment that may still be charged, and
\* answers about earlier payments do not overwrite it.
SummaryFollowsPayment ==
    \A p \in Intent :
        payment[p].status \in ActivePaymentStatus =>
            summary[BookingOf[p]] = SummaryOf(payment[p].status)

\* If nothing fails, an authorization that is there when a vendor decides, or
\* a booking is cancelled, does not stay: it is captured or voided.
DecisionSettlesAuthorization ==
    \A p \in Intent :
        /\ \E decision \in Decision : <<BookingOf[p], decision>> \in afterCommit
        /\ payment[p].status = "AUTHORIZED"
        ~> payment[p].status # "AUTHORIZED"

-----------------------------------------------------------------------------
(* Sentences of the code that do not hold: the runs cancel_capture and
   redelivery *)

InFlight(b) ==
    \/ \E decision \in Decision : <<b, decision>> \in afterCommit
    \/ \E decision \in Decision : <<b, decision>> \in refundCheck
    \/ \E p \in Intent :
          /\ BookingOf[p] = b
          /\ \/ checkout[p].pc \notin {"idle", "over"}
             \/ p \in syncing \cup settling
             \/ \E job \in jobs : job.intent = p
             \/ \E s \in EventStatus :
                   <<p, s>> \in handling \/ event[<<p, s>>] = "sent"

\* cancelBooking: bookings.refund_status always says what became of money that
\* was taken for a cancelled booking.
CancelledMoneyIsResolved ==
    \A p \in Intent :
        /\ status[BookingOf[p]] = "CANCELLED_BY_CUSTOMER"
        /\ ~InFlight(BookingOf[p])
        /\ payment[p].status = "SUCCEEDED"
        => refundStatus[BookingOf[p]] # "NOT_APPLICABLE"

\* A redelivered event is "an already-handled no-op": an event that has been
\* recorded, and so would be answered as a duplicate, has been handled or is.
RecordedIsHandled ==
    \A e \in Event : event[e] = "PENDING" => e \in handling
=============================================================================
