SPECIFICATION Spec
CONSTANTS
    Worker = {w1, w2}
    NoWorker = NoWorker
    User = {alice}
    System = System
    Unit = {room}
    Capacity <- CapacityOne
    MaxDay = 3
    Lodging = TRUE
    HoldRequests <- HoldBoth
    RecordRequests <- NoRequests
    ImportRequests <- NoRequests
    EditRequests <- EditTotals
    RemovableSlots <- Slot
    BlackoutDays = {1, 2}
    SweepLimit = 2
    MaxHoldRequests = 1
    MaxBookings = 1
    MaxRecords = 1
    MaxFaults = 0
    MaxQuantity = 2
INVARIANT NeverNegative
PROPERTY HoldsOnlyOnOpenDays
SYMMETRY WorkerSymmetry
