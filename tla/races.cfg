SPECIFICATION Spec
CONSTANTS
    Worker = {w1, w2}
    NoWorker = NoWorker
    User = {alice}
    System = System
    Unit = {room}
    Capacity <- CapacityOne
    MaxDay = 3
    Lodging = TRUE
    HoldRequests <- HoldEither
    RecordRequests <- SecondNight
    ImportRequests <- BothNights
    EditRequests <- NoRequests
    RemovableSlots <- NoRequests
    BlackoutDays = {}
    SweepLimit = 2
    MaxHoldRequests = 2
    MaxBookings = 2
    MaxRecords = 1
    MaxFaults = 1
    MaxQuantity = 2
INVARIANTS TypeOK CapacityNeverLost
SYMMETRY WorkerSymmetry
CHECK_DEADLOCK FALSE
