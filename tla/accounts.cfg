SPECIFICATION SerialSpec
CONSTANTS
    Worker = {w1, w2}
    NoWorker = NoWorker
    User = {alice}
    System = System
    Unit = {room}
    Capacity <- CapacityTwo
    MaxDay = 3
    Lodging = TRUE
    HoldRequests <- HoldTwoAtOnce
    RecordRequests <- BothNights
    ImportRequests <- NoRequests
    EditRequests <- NoRequests
    RemovableSlots <- NoRequests
    BlackoutDays = {}
    SweepLimit = 2
    MaxHoldRequests = 2
    MaxBookings = 2
    MaxRecords = 1
    MaxFaults = 1
    MaxQuantity = 2
INVARIANT Conservation
PROPERTY ImplementsInventory
SYMMETRY WorkerSymmetry
CHECK_DEADLOCK FALSE
