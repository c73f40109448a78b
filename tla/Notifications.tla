--------------------------- MODULE Notifications ---------------------------
(***************************************************************************)
(* From a domain event to a mail: the event bus of                         *)
(* apps/api/src/core/events/domainEventBus.js, and the subscriptions, the  *)
(* service and the delivery queue of apps/api/src/modules/notifications.   *)
(*                                                                         *)
(* A notification is one event for one recipient.  Its handler runs in the *)
(* process that published the event; the mail is a job of a BullMQ queue   *)
(* kept in Redis, which outlives the process.                              *)
(*                                                                         *)
(* The handlers differ in whom they notify and in the payload.  `Audience` *)
(* stands for the first, the second is left out.                           *)
(***************************************************************************)
EXTENDS Naturals, FiniteSets

CONSTANTS
    DomainEvent,       \* published events
    Recipient,         \* users
    Audience,          \* whom the subscription of each event notifies
    DeliveryAttempts,  \* DELIVERY_JOB_ATTEMPTS
    NoticeFaultLimit   \* bound: lost handlers, failed statements, dead workers

ASSUME NoticeAssumption ==
    /\ Audience \in [DomainEvent -> SUBSET Recipient]
    /\ DeliveryAttempts \in Nat \ {0} /\ NoticeFaultLimit \in Nat

VARIABLES
    preference,    \* notification_preferences of the events' category
    notice,        \* notifications, and the handlers that write them
    delivery,      \* the delivery jobs
    mail,          \* what the provider did, and email_deliveries
    noticeFaults   \* faults so far

noticeVars == <<preference, notice, delivery, mail, noticeFaults>>

Notice == DomainEvent \X Recipient

\* shown: is_in_app_visible.
NoticeRow == [pc: {"none", "running", "storing", "dispatching", "queueing",
                   "over"},
              stored: BOOLEAN, shown: BOOLEAN, read: BOOLEAN,
              archived: BOOLEAN, deleted: BOOLEAN]

\* delivered: what the provider's answer says, while the job has it.  The
\* processor has "returned" before the job is completed in Redis.
Delivery == [pc: {"none", "waiting", "sending", "answered", "returned", "done",
                  "failed"},
             left: 0..DeliveryAttempts, stalled: BOOLEAN, delivered: BOOLEAN]

\* unrecorded: answers that did not become a row of email_deliveries.
Mail == [received: Nat, sentRows: Nat, failedRows: Nat, unrecorded: Nat]

InitNotifications ==
    /\ preference = [u \in Recipient |-> [inApp |-> TRUE, email |-> TRUE]]
    /\ notice = [n \in Notice |->
          [pc |-> "none", stored |-> FALSE, shown |-> FALSE, read |-> FALSE,
           archived |-> FALSE, deleted |-> FALSE]]
    /\ delivery = [n \in Notice |->
          [pc |-> "none", left |-> DeliveryAttempts, stalled |-> FALSE,
           delivered |-> FALSE]]
    /\ mail = [n \in Notice |-> [received |-> 0, sentRows |-> 0,
                                 failedRows |-> 0, unrecorded |-> 0]]
    /\ noticeFaults = 0

NoticeFault == /\ noticeFaults < NoticeFaultLimit
               /\ noticeFaults' = noticeFaults + 1

-----------------------------------------------------------------------------
(* The event and its handlers *)

SetPreference ==
    /\ \E u \in Recipient, on \in [inApp: BOOLEAN, email: BOOLEAN] :
          preference' = [preference EXCEPT ![u] = on]
    /\ UNCHANGED <<notice, delivery, mail, noticeFaults>>

\* publish: one handler for each of the audience, and none if there is none.
Publish(e) ==
    /\ \A u \in Recipient : notice[<<e, u>>].pc = "none"
    /\ notice' = [n \in Notice |->
          IF n[1] = e /\ n[2] \in Audience[e]
          THEN [notice[n] EXCEPT !.pc = "running"] ELSE notice[n]]
    /\ UNCHANGED <<preference, delivery, mail, noticeFaults>>

ReadVisibility(n) ==
    /\ notice[n].pc = "running"
    /\ notice' = [notice EXCEPT ![n].pc = "storing",
                                ![n].shown = preference[n[2]].inApp]
    /\ UNCHANGED <<preference, delivery, mail, noticeFaults>>

StoreNotice(n) ==
    /\ notice[n].pc = "storing"
    /\ notice' = [notice EXCEPT ![n].pc = "dispatching", ![n].stored = TRUE]
    /\ UNCHANGED <<preference, delivery, mail, noticeFaults>>

\* NotificationDeliveryService.dispatch
Dispatch(n) ==
    /\ notice[n].pc = "dispatching"
    /\ notice' = [notice EXCEPT ![n].pc =
                     IF preference[n[2]].email THEN "queueing" ELSE "over"]
    /\ UNCHANGED <<preference, delivery, mail, noticeFaults>>

EnqueueDelivery(n) ==
    /\ notice[n].pc = "queueing"
    /\ notice' = [notice EXCEPT ![n].pc = "over"]
    /\ delivery' = [delivery EXCEPT ![n].pc = "waiting"]
    /\ UNCHANGED <<preference, mail, noticeFaults>>

\* A rejected handler is logged and forgotten; so is one whose process dies.
HandlerLost(n) ==
    /\ notice[n].pc \notin {"none", "over"}
    /\ NoticeFault
    /\ notice' = [notice EXCEPT ![n].pc = "over"]
    /\ UNCHANGED <<preference, delivery, mail>>

-----------------------------------------------------------------------------
(* The recipient *)

Present(n) == notice[n].stored /\ ~notice[n].deleted

\* markAsRead, markAllAsRead, archive, softDelete
RecipientActs(u) ==
    /\ \/ \E n \in Notice :
             /\ n[2] = u /\ Present(n)
             /\ \/ notice' = [notice EXCEPT ![n].read = TRUE]
                \/ notice' = [notice EXCEPT ![n].archived = TRUE]
                \/ notice' = [notice EXCEPT ![n].deleted = TRUE]
       \/ notice' = [n \in Notice |->
             IF n[2] = u /\ Present(n) THEN [notice[n] EXCEPT !.read = TRUE]
                                       ELSE notice[n]]
    /\ UNCHANGED <<preference, delivery, mail, noticeFaults>>

-----------------------------------------------------------------------------
(* The worker: deliverViaChannel *)

StartDelivery(n) ==
    /\ delivery[n].pc = "waiting"
    /\ delivery' = [delivery EXCEPT ![n].pc =
                       IF Present(n) THEN "sending" ELSE "returned"]
    /\ UNCHANGED <<preference, notice, mail, noticeFaults>>

\* ResendEmailProvider.send answers, whatever happens: an error or a time-out
\* is an answer that says the mail was not delivered, and after a time-out it
\* may have been.
SendMail(n) ==
    /\ delivery[n].pc = "sending"
    /\ \E received, delivered \in BOOLEAN :
          /\ delivered => received
          /\ mail' = [mail EXCEPT ![n].received = @ + IF received THEN 1 ELSE 0]
          /\ delivery' = [delivery EXCEPT ![n].pc = "answered",
                                          ![n].delivered = delivered]
    /\ UNCHANGED <<preference, notice, noticeFaults>>

\* MUTANT: a send that failed is tried again.
RetryUndelivered(job) ==
    IF job.delivered THEN [job EXCEPT !.pc = "done"]
    ELSE IF job.left = 1 THEN [job EXCEPT !.pc = "failed", !.left = 0]
    ELSE [job EXCEPT !.pc = "waiting", !.left = @ - 1]

\* The processor has returned: the job is complete, whatever the answer was.
Completed(job) == [job EXCEPT !.pc = "done"]

\* emailDeliveryRepository.create, the last statement of the processor.
RecordDelivery(n) ==
    /\ delivery[n].pc = "answered"
    /\ delivery' = [delivery EXCEPT ![n].pc = "returned"]
    /\ mail' = IF delivery[n].delivered
               THEN [mail EXCEPT ![n].sentRows = @ + 1]
               ELSE [mail EXCEPT ![n].failedRows = @ + 1]
    /\ UNCHANGED <<preference, notice, noticeFaults>>

\* BullMQ learns of the return and ends the job in Redis.
CompleteDelivery(n) ==
    /\ delivery[n].pc = "returned"
    /\ delivery' = [delivery EXCEPT ![n] = Completed(@)]
    /\ UNCHANGED <<preference, notice, mail, noticeFaults>>

Unrecorded(n) ==
    [mail EXCEPT ![n].unrecorded =
        @ + IF delivery[n].pc = "answered" THEN 1 ELSE 0]

\* A statement throws: BullMQ tries the job again, up to its attempts.
DeliveryThrows(n) ==
    /\ delivery[n].pc \in {"waiting", "sending", "answered"}
    /\ NoticeFault
    /\ delivery' = [delivery EXCEPT
          ![n].pc = IF delivery[n].left = 1 THEN "failed" ELSE "waiting",
          ![n].left = @ - 1]
    /\ mail' = Unrecorded(n)
    /\ UNCHANGED <<preference, notice>>

\* The worker dies, or cannot complete the job: BullMQ gives a stalled job to
\* a worker once more, also one whose answer has its row.
WorkerDies(n) ==
    /\ delivery[n].pc \in {"waiting", "sending", "answered", "returned"}
    /\ NoticeFault
    /\ delivery' = [delivery EXCEPT
          ![n].pc = IF delivery[n].stalled THEN "failed" ELSE "waiting",
          ![n].stalled = TRUE]
    /\ mail' = Unrecorded(n)
    /\ UNCHANGED <<preference, notice>>

-----------------------------------------------------------------------------
NotificationsNext ==
    \/ SetPreference
    \/ \E e \in DomainEvent : Publish(e)
    \/ \E u \in Recipient : RecipientActs(u)
    \/ \E n \in Notice :
          \/ ReadVisibility(n) \/ StoreNotice(n) \/ Dispatch(n)
          \/ EnqueueDelivery(n) \/ HandlerLost(n)
          \/ StartDelivery(n) \/ SendMail(n) \/ RecordDelivery(n)
          \/ CompleteDelivery(n) \/ DeliveryThrows(n) \/ WorkerDies(n)

NotificationsSpec == InitNotifications /\ [][NotificationsNext]_noticeVars

-----------------------------------------------------------------------------
(* Properties *)

NotificationsTypeOK ==
    /\ preference \in [Recipient -> [inApp: BOOLEAN, email: BOOLEAN]]
    /\ notice \in [Notice -> NoticeRow]
    /\ delivery \in [Notice -> Delivery]
    /\ mail \in [Notice -> Mail]
    /\ noticeFaults \in Nat

\* A recipient gets a further copy of a mail only after an answer that could
\* not be recorded, or from the one run a stalled job is given again: a row of
\* email_deliveries does not stop a second send.  And when the processor has
\* returned for the last time, every mail the recipient got is in the table
\* ("enough delivery metadata to answer `did this actually send?`") or is one
\* whose answer was lost.
MailedAgainOnlyAfterFault ==
    \A n \in Notice :
        /\ mail[n].received <=
              1 + mail[n].unrecorded + IF delivery[n].stalled THEN 1 ELSE 0
        /\ mail[n].received <= DeliveryAttempts + 1
        /\ mail[n].sentRows <= mail[n].received
        /\ delivery[n].pc \in {"returned", "done", "failed"} =>
              mail[n].received <= mail[n].unrecorded + mail[n].sentRows
                                  + mail[n].failedRows

-----------------------------------------------------------------------------
(* A sentence of the code that does not hold: the run email_retry *)

\* notificationDeliveryQueue: "a transient failure (email provider timeout, a
\* momentary DB blip) was a silent, permanent drop with no second attempt", for
\* which there are now three.  A mail that never arrived has had them all.
DroppedAfterAllAttempts ==
    \A n \in Notice :
        /\ delivery[n].pc \in {"done", "failed"}
        /\ mail[n].received = 0 /\ ~notice[n].deleted
        => delivery[n].left = 0
=============================================================================
