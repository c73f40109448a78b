SPECIFICATION NotificationsSpec
CONSTANTS
    DomainEvent = {e1}
    Recipient = {u1}
    Audience <- Everybody
    DeliveryAttempts = 3
    NoticeFaultLimit = 0
INVARIANT DroppedAfterAllAttempts
CHECK_DEADLOCK FALSE
