---------------------------- MODULE Availability ----------------------------
(***************************************************************************)
(* The capacity engine of apps/api/src/modules/availability.  Every        *)
(* calendar row of `availability_calendar` counts what is left of a unit   *)
(* on a day (`quantity_available`).  Holds, bookings, manual blocks and    *)
(* external reservations take from it and give back to it, each inside a   *)
(* REPEATABLE READ transaction that                                        *)
(*   1. reads the rows it is about with plain SELECTs (a snapshot),        *)
(*   2. locks the calendar rows of its days one after another with         *)
(*      SELECT ... FOR UPDATE, checks and writes each,                     *)
(*   3. inserts, deletes or updates its own rows and commits.              *)
(* One action is one of these database steps; steps of different           *)
(* transactions interleave.  A step 2 write is in `draft` until the commit *)
(* publishes it to `calendar`, which is all that a plain SELECT sees.      *)
(*                                                                         *)
(* A definition marked MUTANT is no model of the code: it is the wrong     *)
(* version of the definition after it that some property must tell apart.  *)
(*                                                                         *)
(* The units are those of one listing and one bookable unit type.          *)
(***************************************************************************)
EXTENDS Integers, Sequences, FiniteSets, FiniteSetsExt, SequencesExt

CONSTANTS
    Worker,           \* database connections: a request or a job run uses one
    NoWorker,         \* the owner of a calendar row nobody has locked
    User,             \* customers
    System,           \* who partners' requests and jobs run as
    Unit,             \* bookable units
    Capacity,         \* bookable_units.capacity, a function on Unit
    MaxDay,           \* days are 1 .. MaxDay
    Lodging,          \* TRUE when the type is HOTEL_ROOM or PROPERTY_UNIT
    HoldRequests,     \* item lists a customer may ask to hold
    RecordRequests,   \* stays a partner may block or enter as external
    ImportRequests,   \* stays on the rows of a CSV upload
    EditRequests,     \* ranges (and totals) a partner may set in the calendar
    RemovableSlots,   \* calendar rows a partner may delete
    BlackoutDays,     \* days a partner may black out
    SweepLimit,       \* EXPIRY_SWEEP_BATCH_SIZE
    MaxHoldRequests,  \* bound: item lists granted
    MaxBookings,      \* bound: bookings created
    MaxRecords,       \* bound: blocks and external reservations created
    MaxFaults,        \* bound: transactions lost to a crash or a timeout
    MaxQuantity       \* bound: totals are raised on rows up to this quantity

Day == 1 .. MaxDay
Slot == Unit \X Day
\* No range is reversed: enumerateDates throws before anything is locked.
Stay == {stay \in [unit: Unit, from: Day, to: Day, quantity: Nat] :
            stay.from <= stay.to}

ASSUME NobodyAssumption == NoWorker \notin Worker /\ System \notin User
ASSUME CapacityAssumption == Capacity \in [Unit -> Nat \ {0}]
ASSUME BoundAssumption ==
    /\ MaxDay \in Nat \ {0}
    /\ Lodging \in BOOLEAN
    /\ SweepLimit \in Nat \ {0}
    /\ {MaxHoldRequests, MaxBookings, MaxRecords, MaxFaults, MaxQuantity}
          \subseteq Nat
ASSUME RequestAssumption ==
    /\ \A request \in HoldRequests :
          request \subseteq Stay /\ IsFiniteSet(request)
    /\ RecordRequests \cup ImportRequests \cup EditRequests \subseteq Stay
    /\ RemovableSlots \subseteq Slot
    /\ BlackoutDays \subseteq Day

VARIABLES
    calendar,   \* committed availability_calendar: status and quantity per slot
    draft,      \* the same rows as the transaction that locked them sees them
    lockedBy,   \* the holder of each calendar row's lock
    blackout,   \* days inside a blackout_dates range of the listing
    holds,      \* reservation_holds
    bookings,   \* bookings with their booking_items
    records,    \* inventory_blocks and external_reservations
    txn,        \* the transaction each worker has open
    requests,   \* item lists granted so far (makes hold ids fresh)
    faults      \* transactions lost so far

tables == <<holds, bookings, records, requests>>
vars == <<calendar, draft, lockedBy, blackout, holds, bookings, records, txn,
          requests, faults>>

-----------------------------------------------------------------------------
(* Rows and transactions *)

Status == {"AVAILABLE", "BLOCKED"}
CalendarRow == [status: Status, quantity: Int]
\* One hold row is one unit of capacity.
HoldId == Nat \X Stay \X Nat
Hold == {h \in [id: HoldId, user: User, unit: Unit, from: Day, to: Day,
                expired: BOOLEAN] : h.from <= h.to}
Booking == [id: Nat, items: SUBSET Stay, open: BOOLEAN]
Record == [id: Nat, kind: {"block", "external", "import"}, stay: Stay,
           active: BOOLEAN]

Consuming == {"hold", "block", "external", "import"}
Restoring == {"release", "sweep", "close", "cancel"}
Editing == {"setTotal", "setStatus"}
Op == Consuming \cup Restoring \cup Editing \cup {"book"}

\* rows: the holds read in the snapshot; target: the booking or record read;
\* todo: the stays whose calendar rows are still to be written, in order;
\* day: the day of Head(todo) that is next.
Txn == [op: Op \cup {"idle"}, user: User \cup {System}, rows: SUBSET Hold,
        target: Nat, stays: SUBSET Stay, status: Status \cup {"KEEP"},
        todo: Seq(Stay), day: Int]

NoTxn == [op |-> "idle", user |-> System, rows |-> {}, target |-> 0,
          stays |-> {}, status |-> "KEEP", todo |-> <<>>, day |-> 0]

\* resolveConsumedRange: the checkout day of a lodging stay is not a night.
LastNight(stay) ==
    IF Lodging /\ stay.from # stay.to THEN stay.to - 1 ELSE stay.to

Consumes(stay, slot) ==
    slot[1] = stay.unit /\ slot[2] \in stay.from .. LastNight(stay)

\* setAvailability writes every day of its range, whatever the unit type.
LastDay(op, stay) == IF op \in Editing THEN stay.to ELSE LastNight(stay)

SameRange(g, h) == g.unit = h.unit /\ g.from = h.from /\ g.to = h.to

\* MUTANT: the groups carry no quantity.
GroupWithoutCount(rows) ==
    {[unit |-> h.unit, from |-> h.from, to |-> h.to] : h \in rows}
\* MUTANT: a group restores one unit, however many holds it has.
GroupAsOneUnit(rows) ==
    {[unit |-> h.unit, from |-> h.from, to |-> h.to, quantity |-> 1]
       : h \in rows}
\* groupHoldsByRange: holds of one unit and range are restored together.
GroupHoldsByRange(rows) ==
    {[unit |-> h.unit, from |-> h.from, to |-> h.to,
      quantity |-> Cardinality({g \in rows : SameRange(g, h)})] : h \in rows}

\* What the transaction adds to the quantity of each row of a stay.  For
\* #writeCalendarRow the new quantity is total - (Capacity - quantity).
Delta(op, stay) ==
    CASE op \in Consuming -> -stay.quantity
      [] op \in Restoring -> stay.quantity
      [] op = "setTotal"  -> stay.quantity - Capacity[stay.unit]
      [] OTHER            -> 0

-----------------------------------------------------------------------------
(* Opening a transaction: the snapshot reads and the checks made on them *)

\* Row order is the request's or the primary key's, so any order can occur.
Open(w, t) ==
    /\ txn[w] = NoTxn
    /\ \E todo \in SetToSeqs(t.stays) :
          txn' = [txn EXCEPT ![w] =
                    [t EXCEPT !.todo = todo,
                              !.day = IF todo = <<>> THEN 0
                                      ELSE Head(todo).from]]

InFlight(ops) == Cardinality({w \in Worker : txn[w].op \in ops})

\* createHolds / reserveCapacity: the veto is read once, before any lock.
CreateHolds(w) == \E user \in User, request \in HoldRequests :
    /\ requests + InFlight({"hold"}) < MaxHoldRequests
    /\ \A stay \in request :
          blackout \cap (stay.from .. LastNight(stay)) = {}
    /\ Open(w, [NoTxn EXCEPT !.op = "hold", !.user = user, !.stays = request])
    /\ UNCHANGED <<calendar, draft, lockedBy, blackout, tables, faults>>

\* findActiveByIds: all ids exist, are the caller's and have not expired.
ActiveHoldsOf(user) == {h \in holds : h.user = user /\ ~h.expired}

ReleaseHolds(w) ==
    /\ \E user \in User : \E rows \in SUBSET ActiveHoldsOf(user) \ {{}} :
          Open(w, [NoTxn EXCEPT !.op = "release", !.rows = rows,
                                !.stays = GroupHoldsByRange(rows)])
    /\ UNCHANGED <<calendar, draft, lockedBy, blackout, tables, faults>>

\* createBooking: consumeHold takes the rows, no calendar row is touched.
CreateBooking(w) ==
    /\ Cardinality(bookings) + InFlight({"book"}) < MaxBookings
    /\ txn[w] = NoTxn
    /\ \E user \in User : \E rows \in SUBSET ActiveHoldsOf(user) \ {{}} :
          txn' = [txn EXCEPT ![w] =
                    [NoTxn EXCEPT !.op = "book", !.rows = rows,
                                  !.stays = GroupHoldsByRange(rows)]]
    /\ UNCHANGED <<calendar, draft, lockedBy, blackout, tables, faults>>

\* MUTANT: the sweep stops before a batch that is not full.
SweepFullBatchesOnly(w) ==
    /\ \E rows \in SUBSET {h \in holds : h.expired} :
          /\ Cardinality(rows) = SweepLimit
          /\ Open(w, [NoTxn EXCEPT !.op = "sweep", !.rows = rows,
                                   !.stays = GroupHoldsByRange(rows)])
    /\ UNCHANGED <<calendar, draft, lockedBy, blackout, tables, faults>>

\* releaseExpiredHoldsBatch: a batch of expired rows, read without locks.
SweepExpiredHolds(w) ==
    /\ LET expired == {h \in holds : h.expired} IN
          \E rows \in SUBSET expired \ {{}} :
             /\ Cardinality(rows) = SweepLimit \/ rows = expired
             /\ Cardinality(rows) <= SweepLimit
             /\ Open(w, [NoTxn EXCEPT !.op = "sweep", !.rows = rows,
                                      !.stays = GroupHoldsByRange(rows)])
    /\ UNCHANGED <<calendar, draft, lockedBy, blackout, tables, faults>>

\* rejectBooking, cancelBooking: lockById serialises them on the booking row.
CloseBooking(w) ==
    /\ \E b \in bookings :
          /\ b.open
          /\ \A v \in Worker : ~(txn[v].op = "close" /\ txn[v].target = b.id)
          /\ Open(w, [NoTxn EXCEPT !.op = "close", !.target = b.id,
                                   !.stays = b.items])
    /\ UNCHANGED <<calendar, draft, lockedBy, blackout, tables, faults>>

\* createManualBlock and createExternalReservation consume alike.
CreateRecord(w, kind, requested) ==
    /\ Cardinality(records) + InFlight({"block", "external", "import"})
          < MaxRecords
    /\ \E stay \in requested :
          Open(w, [NoTxn EXCEPT !.op = kind, !.stays = {stay}])
    /\ UNCHANGED <<calendar, draft, lockedBy, blackout, tables, faults>>

CreateManualBlock(w) == CreateRecord(w, "block", RecordRequests)

CreateExternalReservation(w) == CreateRecord(w, "external", RecordRequests)

\* One row of bulkCreateExternalReservations; its externalReference (here its
\* stay) makes a row that is already there a no-op.
ImportRow(w) ==
    CreateRecord(w, "import",
        {stay \in ImportRequests :
            ~\E r \in records : r.active /\ r.kind = "import" /\ r.stay = stay})

\* releaseManualBlock, cancelExternalReservation: releasedAt / cancelledAt is
\* checked on a row read before the transaction starts.
CancelRecord(w) ==
    /\ \E r \in records :
          /\ r.active
          /\ Open(w, [NoTxn EXCEPT !.op = "cancel", !.target = r.id,
                                   !.stays = {r.stay}])
    /\ UNCHANGED <<calendar, draft, lockedBy, blackout, tables, faults>>

\* #writeCalendarRow as setAvailability and updateCalendarEntry reach it.  With
\* a quantityAvailable (op "setTotal") the stay's quantity is the total asked
\* for; without one only the status is written, and "KEEP" leaves it alone.
EditCalendar(w, edits, statuses) ==
    /\ \E edit \in edits, op \in Editing, status \in statuses :
          /\ \A d \in edit.from .. edit.to :
                calendar[<<edit.unit, d>>].quantity + Delta(op, edit)
                   <= MaxQuantity
          /\ Open(w, [NoTxn EXCEPT !.op = op, !.stays = {edit},
                                   !.status = status])
    /\ UNCHANGED <<calendar, draft, lockedBy, blackout, tables, faults>>

SetAvailability(w) == EditCalendar(w, EditRequests, Status)

UpdateCalendarEntry(w) ==
    EditCalendar(w, {edit \in EditRequests : edit.from = edit.to},
                 Status \cup {"KEEP"})

-----------------------------------------------------------------------------
(* Calendar rows: lock, check, write *)

NextSlot(w) == <<Head(txn[w].todo).unit, txn[w].day>>

\* MUTANT: the row is read without FOR UPDATE.
ReadWithoutLock(w) == txn[w].todo # <<>>

CanLock(w) ==
    /\ txn[w].todo # <<>>
    /\ lockedBy[NextSlot(w)] \in {NoWorker, w}

NewQuantity(w) ==
    draft[NextSlot(w)].quantity + Delta(txn[w].op, Head(txn[w].todo))

\* MUTANT: no check that the row has enough left.
AdmissibleUnchecked(w) ==
    txn[w].op = "hold" => draft[NextSlot(w)].status # "BLOCKED"

\* Only reserveCapacity looks at the status.
Admissible(w) ==
    /\ txn[w].op = "hold" => draft[NextSlot(w)].status # "BLOCKED"
    /\ NewQuantity(w) >= 0

\* The cursor after the next slot: the next day, or the next stay.
Advance(t) ==
    IF t.day < LastDay(t.op, Head(t.todo))
    THEN [t EXCEPT !.day = @ + 1]
    ELSE [t EXCEPT !.todo = Tail(@),
                   !.day = IF Tail(t.todo) = <<>> THEN 0
                           ELSE Head(Tail(t.todo)).from]

WriteRow(w) ==
    /\ CanLock(w)
    /\ Admissible(w)
    /\ lockedBy' = [lockedBy EXCEPT ![NextSlot(w)] = w]
    /\ draft' = [draft EXCEPT ![NextSlot(w)] =
                   [status |-> IF txn[w].status = "KEEP" THEN @.status
                               ELSE txn[w].status,
                    quantity |-> NewQuantity(w)]]
    /\ txn' = [txn EXCEPT ![w] = Advance(@)]
    /\ UNCHANGED <<calendar, blackout, tables, faults>>

-----------------------------------------------------------------------------
(* Ending a transaction *)

Unlocked(w) ==
    [s \in Slot |-> IF lockedBy[s] = w THEN NoWorker ELSE lockedBy[s]]

Publish(w) ==
    /\ calendar' = [s \in Slot |->
                      IF lockedBy[s] = w THEN draft[s] ELSE calendar[s]]
    /\ lockedBy' = Unlocked(w)
    /\ txn' = [txn EXCEPT ![w] = NoTxn]
    /\ UNCHANGED <<draft, blackout, faults>>

RollBack(w) ==
    /\ draft' = [s \in Slot |->
                   IF lockedBy[s] = w THEN calendar[s] ELSE draft[s]]
    /\ lockedBy' = Unlocked(w)
    /\ txn' = [txn EXCEPT ![w] = NoTxn]
    /\ UNCHANGED <<calendar, blackout, tables>>

ReadyToCommit(w, op) == txn[w].op = op /\ txn[w].todo = <<>>

\* reservationHoldRepository.createMany: quantity rows per item.
HoldRows(t, stay) ==
    {[id |-> <<requests, stay, copy>>, user |-> t.user, unit |-> stay.unit,
      from |-> stay.from, to |-> stay.to, expired |-> FALSE]
       : copy \in 1 .. stay.quantity}

CommitHolds(w) ==
    /\ ReadyToCommit(w, "hold")
    /\ holds' = holds \cup
          UNION {HoldRows(txn[w], stay) : stay \in txn[w].stays}
    /\ requests' = requests + 1
    /\ Publish(w)
    /\ UNCHANGED <<bookings, records>>

\* deleteByIds: deletes what is still there of the rows read earlier.
WithoutRows(rows) == {h \in holds : h.id \notin {g.id : g \in rows}}

CommitRelease(w) ==
    /\ ReadyToCommit(w, "release") \/ ReadyToCommit(w, "sweep")
    /\ holds' = WithoutRows(txn[w].rows)
    /\ Publish(w)
    /\ UNCHANGED <<bookings, records, requests>>

CommitBooking(w) ==
    /\ ReadyToCommit(w, "book")
    /\ holds' = WithoutRows(txn[w].rows)
    /\ bookings' = bookings \cup
          {[id |-> Cardinality(bookings) + 1, items |-> txn[w].stays,
            open |-> TRUE]}
    /\ Publish(w)
    /\ UNCHANGED <<records, requests>>

CommitClose(w) ==
    /\ ReadyToCommit(w, "close")
    /\ bookings' = {IF b.id = txn[w].target THEN [b EXCEPT !.open = FALSE]
                    ELSE b : b \in bookings}
    /\ Publish(w)
    /\ UNCHANGED <<holds, records, requests>>

InsertRecord(w) ==
    records' = records \cup
       {[id |-> Cardinality(records) + 1, kind |-> txn[w].op, stay |-> stay,
         active |-> TRUE] : stay \in txn[w].stays}

CommitRecord(w) ==
    /\ \E kind \in {"block", "external", "import"} : ReadyToCommit(w, kind)
    /\ InsertRecord(w)
    /\ Publish(w)
    /\ UNCHANGED <<holds, bookings, requests>>

\* release / cancel: UPDATE ... WHERE released_at IS NULL, result ignored.
CommitCancel(w) ==
    /\ ReadyToCommit(w, "cancel")
    /\ records' = {IF r.id = txn[w].target THEN [r EXCEPT !.active = FALSE]
                   ELSE r : r \in records}
    /\ Publish(w)
    /\ UNCHANGED <<holds, bookings, requests>>

CommitEdit(w) ==
    /\ \E op \in Editing : ReadyToCommit(w, op)
    /\ Publish(w)
    /\ UNCHANGED tables

\* A ConflictError rolls the transaction back ...
Refuse(w) ==
    /\ CanLock(w)
    /\ ~Admissible(w)
    /\ txn[w].op # "import"
    /\ RollBack(w)
    /\ UNCHANGED faults

\* MUTANT: the reservation is inserted after the loop, not before it.
ImportRowFailsUninserted(w) ==
    /\ CanLock(w)
    /\ ~Admissible(w)
    /\ txn[w].op = "import"
    /\ Publish(w)
    /\ UNCHANGED tables

\* ... but the CSV import catches it inside the transaction, which commits
\* with the reservation inserted and the earlier days written.
ImportRowFails(w) ==
    /\ CanLock(w)
    /\ ~Admissible(w)
    /\ txn[w].op = "import"
    /\ InsertRecord(w)
    /\ Publish(w)
    /\ UNCHANGED <<holds, bookings, requests>>

WaitsFor(w, v) ==
    /\ v # w
    /\ txn[w].todo # <<>>
    /\ lockedBy[NextSlot(w)] = v

\* Every worker of a set waits for another one of the set.
Deadlocked(S) == S # {} /\ \A w \in S : \E v \in S : WaitsFor(w, v)

\* InnoDB rolls one transaction of a cycle back.
DeadlockVictim(w) ==
    /\ \E S \in SUBSET Worker : w \in S /\ Deadlocked(S)
    /\ RollBack(w)
    /\ UNCHANGED faults

\* A lock wait timeout, a lost connection, a process that dies.
LoseTransaction(w) ==
    /\ txn[w] # NoTxn
    /\ faults < MaxFaults
    /\ faults' = faults + 1
    /\ RollBack(w)

-----------------------------------------------------------------------------
(* Writes that are one statement *)

\* expires_at passes.
HoldExpires == \E h \in holds :
    /\ ~h.expired
    /\ holds' = (holds \ {h}) \cup {[h EXCEPT !.expired = TRUE]}
    /\ UNCHANGED <<calendar, draft, lockedBy, blackout, bookings, records, txn,
                   requests, faults>>

\* removeCalendarEntry: DELETE, after which the row reads as untouched.
RemoveCalendarEntry == \E s \in RemovableSlots :
    /\ lockedBy[s] = NoWorker
    /\ LET untouched == [status |-> "AVAILABLE", quantity |-> Capacity[s[1]]]
       IN  /\ calendar' = [calendar EXCEPT ![s] = untouched]
           /\ draft' = [draft EXCEPT ![s] = untouched]
    /\ UNCHANGED <<lockedBy, blackout, tables, txn, faults>>

CreateBlackout == \E d \in BlackoutDays \ blackout :
    /\ blackout' = blackout \cup {d}
    /\ UNCHANGED <<calendar, draft, lockedBy, tables, txn, faults>>

UpdateBlackout == \E d \in blackout, e \in BlackoutDays \ blackout :
    /\ blackout' = (blackout \ {d}) \cup {e}
    /\ UNCHANGED <<calendar, draft, lockedBy, tables, txn, faults>>

DeleteBlackout == \E d \in blackout :
    /\ blackout' = blackout \ {d}
    /\ UNCHANGED <<calendar, draft, lockedBy, tables, txn, faults>>

-----------------------------------------------------------------------------
Init ==
    /\ calendar = [s \in Slot |-> [status |-> "AVAILABLE",
                                   quantity |-> Capacity[s[1]]]]
    /\ draft = calendar
    /\ lockedBy = [s \in Slot |-> NoWorker]
    /\ blackout = {}
    /\ holds = {}
    /\ bookings = {}
    /\ records = {}
    /\ txn = [w \in Worker |-> NoTxn]
    /\ requests = 0
    /\ faults = 0

Begin(w) ==
    \/ CreateHolds(w)
    \/ ReleaseHolds(w)
    \/ CreateBooking(w)
    \/ SweepExpiredHolds(w)
    \/ CloseBooking(w)
    \/ CreateManualBlock(w)
    \/ CreateExternalReservation(w)
    \/ ImportRow(w)
    \/ CancelRecord(w)
    \/ SetAvailability(w)
    \/ UpdateCalendarEntry(w)

Finish(w) ==
    \/ CommitHolds(w)
    \/ CommitRelease(w)
    \/ CommitBooking(w)
    \/ CommitClose(w)
    \/ CommitRecord(w)
    \/ CommitCancel(w)
    \/ CommitEdit(w)
    \/ Refuse(w)
    \/ ImportRowFails(w)
    \/ DeadlockVictim(w)

Next ==
    \/ \E w \in Worker : Begin(w)
    \/ \E w \in Worker : WriteRow(w)
    \/ \E w \in Worker : Finish(w)
    \/ \E w \in Worker : LoseTransaction(w)
    \/ HoldExpires
    \/ RemoveCalendarEntry
    \/ CreateBlackout
    \/ UpdateBlackout
    \/ DeleteBlackout

Spec == Init /\ [][Next]_vars

\* The environment assumption under which the books balance: no two open
\* transactions have read the same hold, block or external reservation.
OneAtATime == \A v, w \in Worker : v # w =>
    /\ \A g \in txn[v].rows, h \in txn[w].rows : g.id # h.id
    /\ ~(/\ {txn[v].op, txn[w].op} = {"cancel"}
         /\ txn[v].target = txn[w].target)

SerialNext == Next /\ OneAtATime'
SerialSpec == Init /\ [][SerialNext]_vars

-----------------------------------------------------------------------------
(* Properties *)

TypeOK ==
    /\ calendar \in [Slot -> CalendarRow]
    /\ draft \in [Slot -> CalendarRow]
    /\ lockedBy \in [Slot -> Worker \cup {NoWorker}]
    /\ blackout \subseteq Day
    /\ holds \subseteq Hold
    /\ bookings \subseteq Booking
    /\ records \subseteq Record
    /\ txn \in [Worker -> Txn]
    /\ requests \in Nat
    /\ faults \in Nat

\* What the tables say is taken of a slot, table by table.
Taken(stays, slot) ==
    MapThenSumSet(LAMBDA stay : stay.quantity,
                  {stay \in stays : Consumes(stay, slot)})
HeldOn(slot) == Cardinality({h \in holds : Consumes(h, slot)})
BookedOn(slot) ==
    MapThenSumSet(LAMBDA b : Taken(b.items, slot), {b \in bookings : b.open})
RecordedOn(kinds, slot) ==
    MapThenSumSet(LAMBDA r : Taken({r.stay}, slot),
                  {r \in records : r.active /\ r.kind \in kinds})
TakenOn(slot) ==
    HeldOn(slot) + BookedOn(slot)
      + RecordedOn({"block", "external", "import"}, slot)

\* No interleaving of checks, writes and rollbacks takes more from a row than
\* it has, neither in what is committed nor inside an open transaction.
NeverNegative == \A s \in Slot :
    calendar[s].quantity >= 0 /\ draft[s].quantity >= 0

\* Whatever races, and whichever step fails, capacity is never lost: a row
\* and the tables together always account for at least the unit's capacity.
\* Every race of this engine errs towards selling a unit twice.
CapacityNeverLost == \A s \in Slot :
    calendar[s].quantity + TakenOn(s) >= Capacity[s[1]]

\* When no two transactions have read the same row, the calendar and the
\* tables agree exactly, in every state a reader can see.
Conservation == \A s \in Slot :
    calendar[s].quantity + TakenOn(s) = Capacity[s[1]]

\* No unit is promised to more holders than there are units.
NoOverbooking == \A s \in Slot : TakenOn(s) <= Capacity[s[1]]

\* A hold is only ever granted over days that are not BLOCKED at the moment it
\* is granted, although the status was checked days of row locks earlier.
HoldsOnlyOnOpenDays ==
    [][\A h \in holds' : h.id \notin {g.id : g \in holds} =>
          \A s \in Slot : Consumes(h, s) => calendar[s].status # "BLOCKED"]_vars

\* The sweep is a job repeated every 30 seconds and the connection pool serves
\* waiting callers in order, so a connection that keeps getting free reaches
\* it; a transaction that can take its next step takes it.
SweepStarts == \E w \in Worker : SweepExpiredHolds(w)
FairSpec ==
    /\ Spec
    /\ SF_vars(SweepStarts)
    /\ \A w \in Worker : WF_vars(WriteRow(w)) /\ WF_vars(Finish(w))

Expired(id) == \E h \in holds : h.id = id /\ h.expired
Gone(id) == \A h \in holds : h.id # id
HoldIds == {<<n, stay, copy>> : n \in 0 .. MaxHoldRequests - 1,
                                stay \in UNION HoldRequests, copy \in {1}}

\* A hold that has expired is eventually deleted, whatever else is going on.
ExpiredHoldsReturn == \A id \in HoldIds : Expired(id) ~> Gone(id)
=============================================================================
