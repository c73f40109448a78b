SPECIFICATION Spec
CONSTANTS
    Worker = {w1, w2}
    NoWorker = NoWorker
    User = {alice}
    System = System
    Unit = {room}
    Capacity <- CapacityOne
    MaxDay = 3
    Lodging = TRUE
    HoldRequests <- HoldSecond
    RecordRequests <- NoRequests
    ImportRequests <- NoRequests
    EditRequests <- NoRequests
    RemovableSlots <- NoRequests
    BlackoutDays = {}
    SweepLimit = 2
    MaxHoldRequests = 1
    MaxBookings = 2
    MaxRecords = 1
    MaxFaults = 0
    MaxQuantity = 2
INVARIANT NoOverbooking
SYMMETRY WorkerSymmetry
CHECK_DEADLOCK FALSE
