---------------------------- MODULE Advertising ----------------------------
(***************************************************************************)
(* Promotions of one listing at one placement:                             *)
(* apps/api/src/modules/advertising/services/advertisementService.js and   *)
(* jobs/advertisementLifecycleSweep.js.                                    *)
(*                                                                         *)
(* A request reads the row, or the open rows it must not overlap, checks   *)
(* what it read, and then writes, without looking at the row again; the    *)
(* sweep reads its lists and writes them one row after another.  Every     *)
(* request is therefore two steps, and what is between them may have made  *)
(* the check stale.                                                        *)
(*                                                                         *)
(* REQUEST_SUBMITTED is left in the transaction that enters it, so reject  *)
(* and the REJECTED branch of cancel find no row to act on.                *)
(***************************************************************************)
EXTENDS Naturals, FiniteSets

CONSTANTS
    Ad,             \* advertisements rows that may be created
    AdRequest,      \* administrators' requests at a time
    AdPeriod,       \* periods that are asked for
    ReminderDay,    \* 7 and 2: days before the end with a reminder
    LastDate        \* bound: the last day of the calendar

AdDate == 1..LastDate

ASSUME AdvertisingAssumption ==
    /\ LastDate \in Nat \ {0} /\ Ad # {}
    /\ AdPeriod \subseteq
         {p \in [start: AdDate, end: AdDate] : p.start <= p.end}
    /\ ReminderDay \subseteq Nat

VARIABLES
    ads,       \* the rows
    noticed,   \* reminders that were published, with the end they name
    adTask,    \* requests
    adSweep,   \* runLifecycleSweep
    today,     \* CURDATE()
    adRaced    \* requests or the sweep have overlapped, or a reminder was lost

adVars == <<ads, noticed, adTask, adSweep, today, adRaced>>

AdStatus == {"AWAITING_OFFLINE_PAYMENT", "PAID_MANUAL", "APPROVED",
             "SCHEDULED", "ACTIVE", "CANCELLED", "EXPIRED"}
EndedAd == {"CANCELLED", "EXPIRED"}
ShownStatus == {"APPROVED", "SCHEDULED", "ACTIVE"}   \* VISIBLE_STATUS_CODES

NoAd == "NONE"
AdRow == [status: AdStatus \cup {NoAd}, start: AdDate, end: AdDate,
          paid: BOOLEAN, reminded: SUBSET ReminderDay]
AdOp == {"create", "markPaid", "approve", "cancel", "extend"}

\* A reminder: the promotion, the days before its end, and that end.
Reminder == Ad \X ReminderDay \X AdDate

\* row: what the request read, or the row it is about to insert.
AdTask == [pc: {"idle", "read"}, op: AdOp, ad: Ad, row: AdRow, end: AdDate]
AdSweep == [activate: SUBSET Ad, expire: SUBSET Ad,
            remind: SUBSET Reminder, publish: SUBSET Reminder]

BlankRow == [status |-> NoAd, start |-> 1, end |-> 1, paid |-> FALSE,
             reminded |-> {}]
IdleTask == [pc |-> "idle", op |-> "create", ad |-> CHOOSE a \in Ad : TRUE,
             row |-> BlankRow, end |-> 1]
IdleSweep == [activate |-> {}, expire |-> {}, remind |-> {}, publish |-> {}]

InitAdvertising ==
    /\ ads = [a \in Ad |-> BlankRow]
    /\ noticed = {}
    /\ adTask = [t \in AdRequest |-> IdleTask]
    /\ adSweep = IdleSweep
    /\ today = 1
    /\ adRaced = FALSE

AdBusy == (\E t \in AdRequest : adTask[t].pc # "idle") \/ adSweep # IdleSweep

-----------------------------------------------------------------------------
(* Requests: what is read and checked *)

AdOpen(a) == ads[a].status \notin EndedAd \cup {NoAd}

\* rangesOverlap
Overlap(p, q) == p.start <= q.end /\ q.start <= p.end

\* MUTANT: an extension is not compared with the other promotions.
OverlapsNothing(a, start, end) == FALSE

\* #assertNoOverlap
OverlapsOther(a, start, end) ==
    \E b \in Ad \ {a} :
        AdOpen(b) /\ Overlap(ads[b], [start |-> start, end |-> end])

Begin(t, op, a, row, end) ==
    /\ adTask[t].pc = "idle"
    /\ adTask' = [adTask EXCEPT ![t] =
          [pc |-> "read", op |-> op, ad |-> a, row |-> row, end |-> end]]
    /\ adRaced' = (adRaced \/ AdBusy)
    /\ UNCHANGED <<ads, noticed, adSweep, today>>

\* One transaction walks REQUEST_SUBMITTED, AWAITING_OFFLINE_PAYMENT and, with
\* markPaidNow, PAID_MANUAL, APPROVED and the status the dates call for.
FirstStatus(paidNow, start) ==
    IF ~paidNow THEN "AWAITING_OFFLINE_PAYMENT"
    ELSE IF start <= today THEN "ACTIVE" ELSE "SCHEDULED"

CreatePromotion(t, a) ==
    /\ ads[a].status = NoAd
    /\ \A u \in AdRequest : adTask[u].pc = "read" => adTask[u].ad # a
    /\ \E p \in AdPeriod, paidNow \in BOOLEAN :
          /\ ~OverlapsOther(a, p.start, p.end)
          /\ Begin(t, "create", a,
                   [status |-> NoAd, start |-> p.start, end |-> p.end,
                    paid |-> paidNow, reminded |-> {}], p.end)

\* MUTANT: a promotion can be approved before it is paid.
ApproveUnpaid ==
    [markPaid |-> {"AWAITING_OFFLINE_PAYMENT"},
     approve |-> {"AWAITING_OFFLINE_PAYMENT", "PAID_MANUAL"},
     cancel |-> AdStatus \ EndedAd]

\* isValidAdvertisementStatusTransition for each request.
StartsFrom ==
    [markPaid |-> {"AWAITING_OFFLINE_PAYMENT"}, approve |-> {"PAID_MANUAL"},
     cancel |-> AdStatus \ EndedAd]

\* markPaid, approve, cancel
ChangeStatus(t, a) ==
    \E op \in DOMAIN StartsFrom :
        /\ ads[a].status \in StartsFrom[op]
        /\ Begin(t, op, a, ads[a], ads[a].end)

Extend(t, a) ==
    /\ AdOpen(a)
    /\ \E end \in AdDate :
          /\ end > ads[a].end
          /\ ~OverlapsOther(a, ads[a].start, end)
          /\ Begin(t, "extend", a, ads[a], end)

-----------------------------------------------------------------------------
(* Requests: what is written, by the status that was read *)

\* MUTANT: an extension keeps the reminders that were sent.
ExtendedQuietly(row, end) == [row EXCEPT !.end = end]

\* The repository's extend clears both reminder columns.
Extended(row, end) == [row EXCEPT !.end = end, !.reminded = {}]

Written(task) ==
    LET row == ads[task.ad] IN
    CASE task.op = "create" ->
            [task.row EXCEPT
                !.status = FirstStatus(task.row.paid, task.row.start)]
      [] task.op = "markPaid" ->
             [row EXCEPT !.status = "PAID_MANUAL", !.paid = TRUE]
      [] task.op = "approve" ->
             [row EXCEPT !.status = FirstStatus(TRUE, row.start)]
      [] task.op = "cancel" -> [row EXCEPT !.status = "CANCELLED"]
      [] task.op = "extend" -> Extended(row, task.end)

AdWrite(t) ==
    /\ adTask[t].pc = "read"
    /\ ads' = [ads EXCEPT ![adTask[t].ad] = Written(adTask[t])]
    /\ adTask' = [adTask EXCEPT ![t] = IdleTask]
    /\ UNCHANGED <<noticed, adSweep, today, adRaced>>

-----------------------------------------------------------------------------
(* runLifecycleSweep *)

\* listDueForActivation
DueForActivation(a) ==
    ads[a].status \in {"APPROVED", "SCHEDULED"} /\ ads[a].start <= today
    /\ today <= ads[a].end

\* MUTANT: a promotion that was never activated is the only one to expire.
ExpiresIfScheduled(a) == ads[a].status = "SCHEDULED" /\ ads[a].end < today

\* listDueForExpiry
DueForExpiry(a) == ads[a].status = "ACTIVE" /\ ads[a].end < today

\* listDueForReminder
DueForReminder(a, days) ==
    /\ ads[a].status \in ShownStatus
    /\ days \notin ads[a].reminded
    /\ ads[a].end <= today + days /\ today <= ads[a].end

AdSweepRead ==
    /\ adSweep = IdleSweep
    /\ adSweep' =
          [activate |-> {a \in Ad : DueForActivation(a)},
           expire |-> {a \in Ad : DueForExpiry(a)},
           remind |-> {<<n[1], n[2], ads[n[1]].end>> : n \in
                         {n \in Ad \X ReminderDay :
                             DueForReminder(n[1], n[2])}},
           publish |-> {}]
    /\ adSweep' # IdleSweep
    /\ adRaced' = (adRaced \/ AdBusy)
    /\ UNCHANGED <<ads, noticed, adTask, today>>

SweepActivates(a) ==
    /\ a \in adSweep.activate
    /\ ads' = [ads EXCEPT ![a].status = "ACTIVE"]
    /\ adSweep' = [adSweep EXCEPT !.activate = @ \ {a}]
    /\ UNCHANGED noticed

SweepExpires(a) ==
    /\ adSweep.activate = {} /\ a \in adSweep.expire
    /\ ads' = [ads EXCEPT ![a].status = "EXPIRED"]
    /\ adSweep' = [adSweep EXCEPT !.expire = @ \ {a}]
    /\ UNCHANGED noticed

\* markReminderSent
ReminderMarked(n) == [ads EXCEPT ![n[1]].reminded = @ \cup {n[2]}]

SweepReminds(n) ==
    /\ adSweep.activate = {} /\ adSweep.expire = {} /\ n \in adSweep.remind
    /\ ads' = ReminderMarked(n)
    /\ adSweep' = [adSweep EXCEPT !.remind = @ \ {n}, !.publish = @ \cup {n}]
    /\ UNCHANGED noticed

\* ADVERTISEMENT_EXPIRING_SOON, with the end the list had.
SweepPublishes(n) ==
    /\ n \in adSweep.publish
    /\ noticed' = noticed \cup {n}
    /\ adSweep' = [adSweep EXCEPT !.publish = @ \ {n}]
    /\ UNCHANGED ads

\* One write of a row, by what the list said of it, or one event.
AdSweepWrite ==
    /\ \/ \E a \in Ad : SweepActivates(a) \/ SweepExpires(a)
       \/ \E n \in Reminder : SweepReminds(n) \/ SweepPublishes(n)
    /\ UNCHANGED <<adTask, today, adRaced>>

\* A statement fails or the process dies: the rest is left for the next run.
AdSweepDies ==
    /\ adSweep # IdleSweep
    /\ adSweep' = IdleSweep
    /\ adRaced' = (adRaced \/ adSweep.publish # {})
    /\ UNCHANGED <<ads, noticed, adTask, today>>

NextDay ==
    /\ today < LastDate
    /\ today' = today + 1
    /\ UNCHANGED <<ads, noticed, adTask, adSweep, adRaced>>

-----------------------------------------------------------------------------
(* Specification *)

AdvertisingNext ==
    \/ \E t \in AdRequest :
          \/ AdWrite(t)
          \/ \E a \in Ad :
                CreatePromotion(t, a) \/ ChangeStatus(t, a) \/ Extend(t, a)
    \/ AdSweepRead \/ AdSweepWrite \/ AdSweepDies
    \/ NextDay

AdvertisingSpec == InitAdvertising /\ [][AdvertisingNext]_adVars

\* The sweep runs every hour, and does not die in every run.
AdvertisingFairness ==
    /\ WF_adVars(AdSweepRead)
    /\ SF_adVars(AdSweepWrite)
    /\ \A t \in AdRequest : WF_adVars(AdWrite(t))

AdvertisingFairSpec == AdvertisingSpec /\ AdvertisingFairness

-----------------------------------------------------------------------------
(* Properties *)

AdvertisingTypeOK ==
    /\ ads \in [Ad -> AdRow]
    /\ noticed \subseteq Reminder
    /\ adTask \in [AdRequest -> AdTask]
    /\ adSweep \in AdSweep
    /\ today \in AdDate /\ adRaced \in BOOLEAN

\* listActiveListingIdsByPlacement
PubliclyShown(a) ==
    /\ ads[a].status \in ShownStatus
    /\ ads[a].start <= today /\ today <= ads[a].end

\* Whatever writes overtake each other, a promotion that visitors see has been
\* marked as paid (the manual payment workflow).
ShownIsPaid == \A a \in Ad : PubliclyShown(a) => ads[a].paid

\* Requests that follow each other, with a sweep between any two, never leave a
\* listing with two open promotions on the same day of a placement.
SerialPeriodsDisjoint ==
    ~adRaced => \A a, b \in Ad :
        a # b /\ AdOpen(a) /\ AdOpen(b) => ~Overlap(ads[a], ads[b])

SomethingDue ==
    \E a \in Ad :
        \/ ads[a].status = "ACTIVE" /\ ads[a].end < today
        \/ /\ ads[a].status \in {"APPROVED", "SCHEDULED"}
           /\ ads[a].start <= today /\ today <= ads[a].end
        \/ /\ ads[a].status \in ShownStatus /\ today <= ads[a].end
           /\ \E days \in ReminderDay \ ads[a].reminded :
                 ads[a].end <= today + days

\* The sweep catches up: however requests and failing sweeps interleave, there
\* is again and again a moment when no active promotion is past its period, no
\* scheduled one is in it, and none is without a reminder it should have had
\* (runLifecycleSweep).
NothingStaysDue == SomethingDue ~> ~SomethingDue

\* Unless an extension and the sweep overlap, or the process dies between the
\* mark and the event, a reminder that counts as sent was sent, and for the end
\* the promotion now has ("so the new end date's own 7-day/2-day thresholds can
\* fire again").
ReminderWasSent ==
    ~adRaced => \A a \in Ad, days \in ReminderDay :
        days \in ads[a].reminded =>
            <<a, days, ads[a].end>> \in noticed \cup adSweep.publish
=============================================================================
