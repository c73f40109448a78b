SPECIFICATION Spec
CONSTANTS
    Booking = {b1}
    SlaBatch = 1
    MaxFaults = 1
    Intent = {p1}
    BookingOf <- SameBooking
    Provider = "local"
    Subscribed = {"CREATED", "REQUIRES_ACTION", "AUTHORIZED", "SUCCEEDED", "CANCELLED", "FAILED"}
INVARIANTS RecordedIsHandled
CHECK_DEADLOCK FALSE
