SPECIFICATION PlatformSpec
CONSTANTS
    Scopes = {"bookings", "checkouts", "refunds", "oneSync", "patched",
              "twoSyncs", "oneAdRequest", "oneAd", "staff", "sessions",
              "oneEditor", "noGuest", "notices", "twoSenders", "oneSender"}
    Booking = {b1, b2}
    SlaBatch = 1
    MaxFaults = 1
    Intent = {p1, p2}
    BookingOf <- SameBooking
    Provider = "local"
    Subscribed = {}
    AdminCall = {c1, c2}
    AutoCall = auto
    Asked <- AskedPart
    AutoKey = "auto"
    Captured = 2
    RefundReports = {"SUCCEEDED", "FAILED"}
    RefundFaultLimit = 1
    Uids <- TwoUids
    CalendarSlot = {"mon", "tue"}
    SlotCapacity = 1
    SyncRun = {r1, r2}
    FeedLimit = 3
    SyncFaultLimit = 2
    Ad = {a1, a2}
    AdRequest = {t1, t2}
    AdPeriod <- AdPeriods
    LastDate = 2
    ReminderDay = {0}
    Invitee = {u1}
    StaffRole = {"STAFF"}
    Invitation = {i1, i2}
    Member = {m1, m2}
    StaffRequest = {q1, q2}
    Tab = {tab1, tab2}
    TokenLimit = 4
    BlackoutRow = {x1, x2}
    Editor = {e1, e2}
    Guest = {g1}
    LastBlackoutDay = 2
    DomainEvent = {d1}
    Recipient = {u1}
    Audience <- Everybody
    DeliveryAttempts = 3
    NoticeFaultLimit = 3
    SendRequest = {s1, s2}
    ChatWindow = {w1}
    PageSize = 2
    MessageLimit = 3
INVARIANTS
    PlatformTypeOK
    CapacityFollowsStatus OneActivePayment SummaryFollowsPayment
    RefundedIsReserved OneRefundPerKey LedgerFollowsRefunds RefundedMeansAll
    RefundStatusIsEarned
    ImportedRoomAccounted FeedMirrored PartnerWasTold
    ShownIsPaid SerialPeriodsDisjoint ReminderWasSent
    CookieIsTheSession BlackoutsHold MailedAgainOnlyAfterFault ReadWasSeen
PROPERTIES
    NeverReopened ImplementsEscrow DeadLinksStayDead EndedSessionsStayEnded
SYMMETRY IntentSymmetry
CHECK_DEADLOCK FALSE
