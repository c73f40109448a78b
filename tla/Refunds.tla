------------------------------ MODULE Refunds ------------------------------
(***************************************************************************)
(* Refunds of one captured payment, and what the cancellation of its       *)
(* booking does about it: #executeRefund and the refund webhooks of        *)
(* apps/api/src/modules/payments/services/paymentService.js, and           *)
(* #resolvePaymentForCancelledBooking of                                   *)
(* apps/api/src/modules/bookings/services/bookingService.js.               *)
(*                                                                         *)
(* A refund is a look-up by idempotency key, a transaction that reserves   *)
(* the amount and inserts the row, a call to Stripe with no transaction    *)
(* open, and a transaction that applies the answer.  Stripe settles a      *)
(* pending refund later and says so in a webhook, which is delivered in    *)
(* any order, and may be delivered before the answer has been applied.     *)
(***************************************************************************)
EXTENDS Naturals, FiniteSets, FiniteSetsExt

CONSTANTS
    AdminCall,        \* createRefund requests
    AutoCall,         \* the refund a vendor's cancellation starts
    Asked,            \* what an administrator may ask for
    AutoKey,          \* `auto-refund:booking:${id}`
    Captured,         \* payments.captured_amount
    RefundReports,    \* the statuses Stripe is configured to report
    RefundFaultLimit  \* bound: lost answers and crashes

RefundKey == {ask.key : ask \in Asked} \cup {AutoKey}
Ask == [key: RefundKey, amount: 0..Captured]

ASSUME RefundAssumption ==
    /\ IsFiniteSet(AdminCall) /\ AutoCall \notin AdminCall
    /\ Captured \in Nat \ {0} /\ RefundFaultLimit \in Nat
    /\ RefundReports \subseteq {"PROCESSING", "SUCCEEDED", "FAILED"}
    /\ Asked \subseteq [key: RefundKey \ {AutoKey}, amount: 1..Captured]

VARIABLES
    refundPay,    \* the payments row: status_id and refunded_amount
    refundRow,    \* refunds.status_id of the row each call inserts
    refundKnown,  \* rows whose provider_refund_id has been stored
    refundCall,   \* #executeRefund calls
    refundLedger, \* REFUND_ISSUED entries of each refund
    stripeRefund, \* the refund at Stripe
    refundEvent,  \* webhooks sent and not yet delivered
    cancelling,   \* cancelBooking and #resolvePaymentForCancelledBooking
    review,       \* bookings.refund_status
    paidSummary,  \* bookings.payment_status_id
    refundFaults

refundVars == <<refundPay, refundRow, refundKnown, refundCall, refundLedger,
                stripeRefund, refundEvent, cancelling, review, paidSummary,
                refundFaults>>
moneyRows == <<refundPay, refundRow, refundKnown, refundLedger, paidSummary>>

RefundCalls == AdminCall \cup {AutoCall}
RefundStatus == {"CREATED", "PROCESSING", "SUCCEEDED", "FAILED", "CANCELLED"}
NoRefund == "NONE"

RefundTransitions ==
    {<<"CREATED", "PROCESSING">>, <<"CREATED", "SUCCEEDED">>,
     <<"CREATED", "FAILED">>, <<"CREATED", "CANCELLED">>,
     <<"PROCESSING", "SUCCEEDED">>, <<"PROCESSING", "FAILED">>}

\* Refunds whose amount is part of refunded_amount.
Reserving == {"CREATED", "PROCESSING", "SUCCEEDED"}

ProviderRefundStatus == {"PROCESSING", "SUCCEEDED", "FAILED"}
Refundable == {"SUCCEEDED", "PARTIALLY_REFUNDED"}

RefundCallRecord ==
    [pc: {"idle", "checked", "created", "answered", "unreachable",
          "over", "error", "dead"},
     ask: Ask, answer: ProviderRefundStatus \cup {NoRefund}]

AmountOf(c) == refundCall[c].ask.amount
SumOf(calls) == MapThenSumSet(AmountOf, calls)
InStatus(statuses) == {c \in RefundCalls : refundRow[c] \in statuses}

InitRefunds ==
    /\ refundPay = [status |-> "SUCCEEDED", refunded |-> 0]
    /\ refundRow = [c \in RefundCalls |-> NoRefund]
    /\ refundKnown = {} /\ refundEvent = {}
    /\ refundCall = [c \in RefundCalls |->
                        [pc |-> "idle", answer |-> NoRefund,
                         ask |-> [key |-> AutoKey, amount |-> 0]]]
    /\ refundLedger = [c \in RefundCalls |-> 0]
    /\ stripeRefund = [c \in RefundCalls |-> NoRefund]
    /\ cancelling = [by |-> "nobody", pc |-> "idle"]
    /\ review = "NOT_APPLICABLE"
    /\ paidSummary = "PAID_ONLINE"
    /\ refundFaults = 0

RefundAt(c, pc) == refundCall[c].pc = pc
Go(c, pc) == refundCall' = [refundCall EXCEPT ![c].pc = pc]

-----------------------------------------------------------------------------
(* #executeRefund *)

KeyTaken(c, key) ==
    \E d \in RefundCalls \ {c} :
        refundRow[d] # NoRefund /\ refundCall[d].ask.key = key

\* findByIdempotencyKey: a row with the key is the answer, whatever became
\* of it.
LookUp(c, ask) ==
    refundCall' = [refundCall EXCEPT ![c] =
        [pc |-> IF KeyTaken(c, ask.key) THEN "over" ELSE "checked",
         ask |-> ask, answer |-> NoRefund]]

CreateRefund(c) ==
    /\ RefundAt(c, "idle") /\ c \in AdminCall
    /\ \E ask \in Asked : LookUp(c, ask)
    /\ UNCHANGED <<moneyRows, stripeRefund, refundEvent, cancelling, review>>

\* MUTANT: the amount is checked but not reserved.
Unreserved(c) == UNCHANGED refundPay

\* reserveRefundAmount
Reserve(c) ==
    refundPay' = [refundPay EXCEPT !.refunded = @ + AmountOf(c)]

\* MUTANT: no unique key on refunds.idempotency_key.
AnyKeyInserted(c) == TRUE

\* uq_refunds_idempotency_key: the insert fails and the transaction with it.
KeyInserted(c) == ~KeyTaken(c, refundCall[c].ask.key)

\* The guards of the first transaction, under the lock of the payment row.
RefundAllowed(c) ==
    /\ refundPay.status \in Refundable
    /\ AmountOf(c) \in 1..(Captured - refundPay.refunded)

ReserveRefund(c) ==
    /\ RefundAt(c, "checked")
    /\ \/ /\ RefundAllowed(c) /\ KeyInserted(c)
          /\ Reserve(c)
          /\ refundRow' = [refundRow EXCEPT ![c] = "CREATED"]
          /\ Go(c, "created")
       \/ /\ ~(RefundAllowed(c) /\ KeyInserted(c))
          /\ Go(c, "error")
          /\ UNCHANGED <<refundPay, refundRow>>
    /\ UNCHANGED <<refundKnown, refundLedger, paidSummary, stripeRefund,
                   refundEvent, cancelling, review>>

AtStripe ==
    {c \in RefundCalls : stripeRefund[c] \in {"PROCESSING", "SUCCEEDED"}}

Report(c, to) == {<<c, to>>} \cap (RefundCalls \X RefundReports)

\* Stripe refunds no more than is left of the charge.
StripeMakes(c, to) ==
    /\ SumOf(AtStripe) + AmountOf(c) <= Captured
    /\ stripeRefund' = [stripeRefund EXCEPT ![c] = to]
    /\ refundEvent' = refundEvent \cup Report(c, to)

SendRefund(c) ==
    /\ RefundAt(c, "created")
    /\ \E to \in ProviderRefundStatus :
          /\ StripeMakes(c, to)
          /\ refundCall' = [refundCall EXCEPT ![c].pc = "answered",
                                              ![c].answer = to]
    /\ UNCHANGED <<moneyRows, cancelling, review>>

StripeRefuses(c) ==
    /\ RefundAt(c, "created")
    /\ SumOf(AtStripe) + AmountOf(c) > Captured
    /\ Go(c, "unreachable")
    /\ UNCHANGED <<moneyRows, stripeRefund, refundEvent, cancelling, review>>

\* The request or its answer is lost: the provider call throws.
RefundUnreachable(c) ==
    /\ RefundAt(c, "created")
    /\ Go(c, "unreachable")
    /\ \/ \E to \in ProviderRefundStatus : StripeMakes(c, to)
       \/ UNCHANGED <<stripeRefund, refundEvent>>
    /\ UNCHANGED <<moneyRows, cancelling, review>>

\* MUTANT: a refund that cannot be sent keeps its reservation.
KeepReservation(c) == UNCHANGED refundPay

\* releaseRefundAmount
Release(c) ==
    refundPay' = [refundPay EXCEPT !.refunded = @ - AmountOf(c)]

GiveUpRefund(c) ==
    /\ RefundAt(c, "unreachable")
    /\ Release(c)
    /\ refundRow' = [refundRow EXCEPT ![c] = "FAILED"]
    /\ Go(c, "error")
    /\ UNCHANGED <<refundKnown, refundLedger, paidSummary, stripeRefund,
                   refundEvent, cancelling, review>>

\* MUTANT: the payment counts as refunded as soon as some of it is.
RolledUpStatus(refunded) == "REFUNDED"

\* A payment is REFUNDED when all of it is refunded or being refunded.
RollUp(refunded) == IF refunded = Captured THEN "REFUNDED"
                                           ELSE "PARTIALLY_REFUNDED"

\* The booking's payment summary.
SummaryWord == [REFUNDED |-> "REFUNDED_ONLINE",
                PARTIALLY_REFUNDED |-> "PARTIALLY_REFUNDED_ONLINE"]

\* resolveManualReviewRefundSystemInternal
CloseReview ==
    IF review = "REQUIRES_MANUAL_REVIEW" THEN "MANUALLY_REFUNDED" ELSE review

\* MUTANT: a repeated answer writes its ledger entries again.
AlwaysApplies(c, to) ==
    refundRow[c] = to \/ <<refundRow[c], to>> \in RefundTransitions

Applies(c, to) == <<refundRow[c], to>> \in RefundTransitions

IsDefinitiveFailure(to) == to \in {"FAILED", "CANCELLED"}

\* #applyRefundResult on the locked rows; an answer that repeats the status
\* changes nothing, and one that is not a transition is an error.
ApplyRefundResult(c, to) ==
    /\ Applies(c, to)
    /\ refundRow' = [refundRow EXCEPT ![c] = to]
    /\ refundKnown' = refundKnown \cup {c}
    /\ \/ /\ to = "SUCCEEDED"
          /\ refundPay' = [refundPay EXCEPT
                              !.status = RollUp(refundPay.refunded)]
          /\ paidSummary' = SummaryWord[RollUp(refundPay.refunded)]
          /\ review' = CloseReview
          /\ refundLedger' = [refundLedger EXCEPT ![c] = @ + 1]
       \/ /\ IsDefinitiveFailure(to)
          /\ Release(c)
          /\ UNCHANGED <<paidSummary, review, refundLedger>>
       \/ /\ to # "SUCCEEDED" /\ ~IsDefinitiveFailure(to)
          /\ UNCHANGED <<refundPay, paidSummary, review, refundLedger>>

ApplyRefundAnswer(c) ==
    /\ RefundAt(c, "answered")
    /\ ApplyRefundResult(c, refundCall[c].answer)
    /\ Go(c, "over")
    /\ UNCHANGED <<stripeRefund, refundEvent, cancelling>>

-----------------------------------------------------------------------------
(* Webhooks *)

StripeSettles(c) ==
    /\ stripeRefund[c] = "PROCESSING"
    /\ \E to \in {"SUCCEEDED", "FAILED"} :
          /\ stripeRefund' = [stripeRefund EXCEPT ![c] = to]
          /\ refundEvent' = refundEvent \cup Report(c, to)
    /\ UNCHANGED <<moneyRows, refundCall, cancelling, review>>

\* MUTANT: only a refund that is settled has its id stored.
FoundOnceSettled(c) == c \in refundKnown /\ refundRow[c] # "PROCESSING"

\* lockByProviderRefundId
FoundByProviderId(c) == c \in refundKnown

\* #applyRefundWebhookEvent.  The event's row, inserted before, makes it the
\* last delivery, whatever comes of it.
RefundWebhook(c, to) ==
    /\ <<c, to>> \in refundEvent
    /\ refundEvent' = refundEvent \ {<<c, to>>}
    /\ \/ FoundByProviderId(c) /\ ApplyRefundResult(c, to)
       \/ /\ ~FoundByProviderId(c) \/ ~Applies(c, to)
          /\ UNCHANGED <<moneyRows, review>>
    /\ UNCHANGED <<refundCall, stripeRefund, cancelling>>

-----------------------------------------------------------------------------
(* The booking is cancelled *)

CancelPaidBooking ==
    /\ cancelling.by = "nobody"
    /\ \E by \in {"customer", "vendor"} :
          cancelling' = [by |-> by, pc |-> "read"]
    /\ UNCHANGED <<moneyRows, refundCall, stripeRefund, refundEvent, review>>

\* findRefundableForBooking, resolveCancellationRefundAction: no refund is due,
\* a person decides, or all that has not been refunded is, from what was read.
ReadRefundable ==
    /\ cancelling.pc = "read"
    /\ \/ /\ refundPay.status \notin Refundable
          /\ cancelling' = [cancelling EXCEPT !.pc = "done"]
          /\ UNCHANGED refundCall
       \/ /\ refundPay.status \in Refundable
          /\ cancelling' = [cancelling EXCEPT !.pc = "decide"]
          /\ \/ /\ cancelling.by = "customer"
                /\ UNCHANGED refundCall
             \/ /\ cancelling.by = "vendor"
                /\ LookUp(AutoCall,
                          [key |-> AutoKey,
                           amount |-> Captured - refundPay.refunded])
    /\ UNCHANGED <<moneyRows, stripeRefund, refundEvent, review>>

\* MUTANT: a failed automatic refund leaves no trace on the booking.
IgnoreFailedRefund == FALSE

AutoRefundFailed == cancelling.by = "vendor" /\ RefundAt(AutoCall, "error")

\* MUTANT: a refund that has failed counts as one that was issued.
AutoRefundReturned == RefundAt(AutoCall, "over") \/ RefundAt(AutoCall, "error")

\* issueSystemRefund has returned.
AutoRefunded == RefundAt(AutoCall, "over")

\* updateRefundStatus, unconditional.
WriteRefundStatus ==
    /\ cancelling.pc = "decide"
    /\ cancelling' = [cancelling EXCEPT !.pc = "done"]
    /\ \/ /\ cancelling.by = "customer"
          /\ review' = "REQUIRES_MANUAL_REVIEW"
       \/ /\ cancelling.by = "vendor" /\ AutoRefunded
          /\ review' = "AUTO_REFUNDED"
       \/ /\ AutoRefundFailed
          /\ review' = "REFUND_FAILED"
    /\ UNCHANGED <<moneyRows, refundCall, stripeRefund, refundEvent>>

\* resolveRefundReviewWithoutRefund, under the booking's lock.
ResolveWithoutRefund ==
    /\ review = "REQUIRES_MANUAL_REVIEW"
    /\ review' = "RESOLVED_NO_REFUND"
    /\ UNCHANGED <<moneyRows, refundCall, stripeRefund, refundEvent,
                   cancelling>>

-----------------------------------------------------------------------------
(* Faults *)

\* The process dies with one request, or its last transaction is rolled back.
RequestDies(c) ==
    /\ refundCall[c].pc \in {"created", "answered", "unreachable"}
    /\ Go(c, "dead") \/ (c = AutoCall /\ Go(c, "error"))
    /\ UNCHANGED <<moneyRows, stripeRefund, refundEvent, cancelling, review>>

CancellationDies ==
    /\ cancelling.pc \in {"read", "decide"}
    /\ cancelling' = [cancelling EXCEPT !.pc = "dead"]
    /\ UNCHANGED <<moneyRows, refundCall, stripeRefund, refundEvent, review>>

\* The handler fails after the event's row is in: a redelivery is a duplicate.
WebhookDies ==
    /\ \E e \in refundEvent : refundEvent' = refundEvent \ {e}
    /\ UNCHANGED <<moneyRows, refundCall, stripeRefund, cancelling, review>>

-----------------------------------------------------------------------------
(* Specification *)

RefundWork(c) == ReserveRefund(c) \/ SendRefund(c) \/ StripeRefuses(c)
                 \/ GiveUpRefund(c) \/ ApplyRefundAnswer(c)
CancelWork == ReadRefundable \/ WriteRefundStatus

RefundStep ==
    \/ \E c \in RefundCalls :
          \/ CreateRefund(c) \/ RefundWork(c) \/ StripeSettles(c)
          \/ \E to \in ProviderRefundStatus : RefundWebhook(c, to)
    \/ CancelPaidBooking \/ CancelWork \/ ResolveWithoutRefund

RefundFault ==
    /\ refundFaults < RefundFaultLimit
    /\ refundFaults' = refundFaults + 1
    /\ \/ \E c \in RefundCalls : RefundUnreachable(c) \/ RequestDies(c)
       \/ CancellationDies \/ WebhookDies

RefundsNext == (RefundStep /\ UNCHANGED refundFaults) \/ RefundFault
RefundsSpec == InitRefunds /\ [][RefundsNext]_refundVars

\* A request goes on, Stripe settles what is pending and delivers its events.
RefundsFairness ==
    /\ \A c \in RefundCalls :
          /\ WF_refundVars(RefundWork(c) /\ UNCHANGED refundFaults)
          /\ WF_refundVars(StripeSettles(c) /\ UNCHANGED refundFaults)
          /\ \A to \in ProviderRefundStatus :
                WF_refundVars(RefundWebhook(c, to) /\ UNCHANGED refundFaults)
    /\ WF_refundVars(CancelWork /\ UNCHANGED refundFaults)

RefundsFairSpec == RefundsSpec /\ RefundsFairness

-----------------------------------------------------------------------------
(* Properties *)

RefundsTypeOK ==
    /\ refundPay \in
         [status: Refundable \cup {"REFUNDED"}, refunded: 0..Captured]
    /\ refundRow \in [RefundCalls -> RefundStatus \cup {NoRefund}]
    /\ refundKnown \subseteq RefundCalls
    /\ refundCall \in [RefundCalls -> RefundCallRecord]
    /\ refundLedger \in [RefundCalls -> Nat]
    /\ stripeRefund \in [RefundCalls -> ProviderRefundStatus \cup {NoRefund}]
    /\ refundEvent \subseteq RefundCalls \X ProviderRefundStatus
    /\ cancelling \in [by: {"nobody", "customer", "vendor"},
                       pc: {"idle", "read", "decide", "done", "dead"}]
    /\ review \in {"NOT_APPLICABLE", "AUTO_REFUNDED", "REQUIRES_MANUAL_REVIEW",
                   "REFUND_FAILED", "MANUALLY_REFUNDED", "RESOLVED_NO_REFUND"}
    /\ paidSummary \in {"PAID_ONLINE", "REFUNDED_ONLINE",
                        "PARTIALLY_REFUNDED_ONLINE"}
    /\ refundFaults \in 0..RefundFaultLimit

\* refunded_amount is exactly what the refunds that were made, or may still be
\* made, add up to: every reservation is taken once and given back once,
\* whichever of the answer, the webhook and a failure comes first
\* (reserveRefundAmount, releaseRefundAmount).  It counts what CREATED and
\* PROCESSING refunds set aside because the code does; the comment of
\* refundStatusTransitions.js, "`payments.refunded_amount` is only ever updated
\* as a derived rollup once a refund reaches `SUCCEEDED`", says otherwise.
RefundedIsReserved == refundPay.refunded = SumOf(InStatus(Reserving))

\* Two requests with one idempotency key, however they overlap, make Stripe
\* refund once (findByIdempotencyKey and uq_refunds_idempotency_key).
OneRefundPerKey ==
    \A c, d \in RefundCalls :
        /\ stripeRefund[c] # NoRefund /\ stripeRefund[d] # NoRefund
        /\ refundCall[c].ask.key = refundCall[d].ask.key
        => c = d

\* The ledger has one entry for each refund Stripe really paid and the refunds
\* table knows of, and none for any other (#applyRefundResult).
LedgerFollowsRefunds ==
    \A c \in RefundCalls :
        \/ refundLedger[c] = 0 /\ refundRow[c] # "SUCCEEDED"
        \/ /\ refundLedger[c] = 1 /\ refundRow[c] = "SUCCEEDED"
           /\ stripeRefund[c] = "SUCCEEDED"

\* When no refund is pending or has failed, a payment is REFUNDED, for the
\* booking too, exactly if all of the captured amount went back.
RefundedMeansAll ==
    (\A c \in RefundCalls : refundRow[c] \in {NoRefund, "SUCCEEDED"}) =>
        LET all == SumOf(InStatus({"SUCCEEDED"})) = Captured IN
        /\ (refundPay.status = "REFUNDED") = all
        /\ (paidSummary = "REFUNDED_ONLINE") = all

\* "A refund outcome - success, failure, or needs a human - must never be
\* silent": a booking cancelled after its payment was captured ends with a
\* refund status, unless all of the money had already been refunded or the
\* process dies first.
CancellationsAreDecided ==
    cancelling.by # "nobody" ~>
        \/ review # "NOT_APPLICABLE"
        \/ refundPay.status = "REFUNDED"
        \/ cancelling.pc = "dead" \/ RefundAt(AutoCall, "dead")

\* The refund status of a cancelled booking is earned: AUTO_REFUNDED when all
\* that was captured has been set aside or paid, though it was computed from a
\* payment read before, unless a refund failed; REFUND_FAILED only if the
\* automatic refund neither has been made nor waits for a webhook;
\* MANUALLY_REFUNDED only beside a refund that was paid
\* (#resolvePaymentForCancelledBooking, #applyRefundResult).  An AUTO_REFUNDED
\* refund may still be PROCESSING, and may fail later: no word is written then.
RefundStatusIsEarned ==
    /\ review = "AUTO_REFUNDED" =>
          (\/ refundPay.refunded = Captured
           \/ InStatus({"FAILED", "CANCELLED"}) # {})
    /\ review = "REFUND_FAILED" =>
          refundRow[AutoCall] \notin {"PROCESSING", "SUCCEEDED"}
    /\ review = "MANUALLY_REFUNDED" => InStatus({"SUCCEEDED"}) # {}

\* Money is set aside once per refund, then paid or put back.
RefundsAreEscrow ==
    INSTANCE Escrow WITH
        Call <- RefundCalls,
        aside <- [c \in RefundCalls |->
                     IF refundRow[c] \in {"CREATED", "PROCESSING"}
                     THEN AmountOf(c) ELSE 0],
        paid <- [c \in RefundCalls |->
                    IF refundRow[c] = "SUCCEEDED" THEN AmountOf(c) ELSE 0]

\* #executeRefund and the webhooks implement the abstract Escrow.
ImplementsEscrow == RefundsAreEscrow!EscrowSpec

\* "PROCESSING - leave the reservation in place; a later webhook resolves it to
\* SUCCEEDED or FAILED" (the end of #applyRefundResult).  It does when Stripe
\* settles the refund after the answer has been recorded: a webhook that comes
\* before finds no row with the provider's id and is dropped.
PendingRefundsResolve ==
    \A c \in RefundCalls :
        refundRow[c] = "PROCESSING" /\ stripeRefund[c] = "PROCESSING" ~>
            refundRow[c] \in {"SUCCEEDED", "FAILED"} \/ refundFaults > 0
=============================================================================
