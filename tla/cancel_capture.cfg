SPECIFICATION Spec
CONSTANTS
    Booking = {b1}
    SlaBatch = 1
    MaxFaults = 0
    Intent = {p1}
    BookingOf <- SameBooking
    Provider = "stripe"
    Subscribed = {"CREATED", "REQUIRES_ACTION", "AUTHORIZED", "SUCCEEDED", "CANCELLED", "FAILED"}
INVARIANTS CancelledMoneyIsResolved
CHECK_DEADLOCK FALSE
