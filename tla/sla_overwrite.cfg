SPECIFICATION BookingsSpec
CONSTANTS
    Booking = {b1, b2}
    SlaBatch = 1
    MaxFaults = 1

PROPERTY LegalTransitions
CHECK_DEADLOCK FALSE
