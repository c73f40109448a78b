----------------------------- MODULE Lifecycle -----------------------------
(***************************************************************************)
(* The status machines of apps/api/src/core/domain: for every status the   *)
(* statuses a row may move to from it.                                     *)
(***************************************************************************)

BookingStatus == {"DRAFT", "PENDING_VENDOR", "CONFIRMED", "REJECTED",
                  "CANCELLED_BY_CUSTOMER", "CANCELLED_BY_VENDOR", "COMPLETED",
                  "NO_SHOW", "EXPIRED"}

BookingTransitions ==
    (   {<<"DRAFT", "PENDING_VENDOR">>}
     \cup ({"PENDING_VENDOR"} \X {"CONFIRMED", "REJECTED", "EXPIRED"})
     \cup ({"CONFIRMED"} \X {"CANCELLED_BY_CUSTOMER", "CANCELLED_BY_VENDOR",
                             "COMPLETED", "NO_SHOW"}))

PaymentStatus == {"CREATED", "REQUIRES_ACTION", "PROCESSING", "AUTHORIZED",
                  "SUCCEEDED", "PARTIALLY_REFUNDED", "REFUNDED", "FAILED",
                  "CANCELLED"}

PaymentTransitions ==
    (   ({"CREATED"} \X {"REQUIRES_ACTION", "PROCESSING", "AUTHORIZED",
                         "SUCCEEDED", "FAILED", "CANCELLED"})
     \cup ({"REQUIRES_ACTION"} \X {"PROCESSING", "CANCELLED", "FAILED"})
     \cup ({"PROCESSING"} \X {"AUTHORIZED", "SUCCEEDED", "FAILED"})
     \cup ({"AUTHORIZED"} \X {"SUCCEEDED", "CANCELLED", "FAILED"})
     \cup ({"SUCCEEDED"} \X {"PARTIALLY_REFUNDED", "REFUNDED"})
     \cup ({"PARTIALLY_REFUNDED"} \X {"PARTIALLY_REFUNDED", "REFUNDED"}))

\* isActivePaymentStatus: such a payment keeps its booking from another one.
ActivePaymentStatus == PaymentStatus \ {"FAILED", "CANCELLED", "REFUNDED"}
=============================================================================
