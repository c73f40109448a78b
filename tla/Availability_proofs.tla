------------------------ MODULE Availability_proofs ------------------------
(***************************************************************************)
(* Theorems about Availability, for every value of its constants: types    *)
(* and quantities that are never negative; and that a hold is granted only *)
(* over days that are not BLOCKED when it is granted. The status of each   *)
(* row is checked long before the commit: what carries the check to the    *)
(* commit is the lock on the row, which no edit can pass.                  *)
(***************************************************************************)
EXTENDS Availability, FiniteSetTheorems, TLAPS

-----------------------------------------------------------------------------
(* Operators *)

\* An order of a finite set of stays is a sequence of stays.
LEMMA OrderIsSequence ==
    ASSUME NEW S, S \subseteq Stay, IsFiniteSet(S), NEW s \in SetToSeqs(S)
    PROVE  s \in Seq(Stay)
<1>1. Cardinality(S) \in Nat
  BY FS_CardinalityType
<1>2. s \in [1 .. Cardinality(S) -> S]
  BY DEF SetToSeqs
<1>3. s \in Seq(S)
  BY <1>1, <1>2
<1> QED BY <1>3

\* Grouping finitely many holds by range gives finitely many stays.
LEMMA GroupsAreStays ==
    ASSUME NEW rows, rows \subseteq Hold, IsFiniteSet(rows)
    PROVE  /\ GroupHoldsByRange(rows) \subseteq Stay
           /\ IsFiniteSet(GroupHoldsByRange(rows))
<1> DEFINE group == [h \in rows |->
               [unit |-> h.unit, from |-> h.from, to |-> h.to,
                quantity |-> Cardinality({g \in rows : SameRange(g, h)})]]
<1>1. \A h \in rows : Cardinality({g \in rows : SameRange(g, h)}) \in Nat
  <2> TAKE h \in rows
  <2>1. IsFiniteSet({g \in rows : SameRange(g, h)})
    BY FS_Subset
  <2> QED BY <2>1, FS_CardinalityType
<1>2. \A h \in rows : group[h] \in Stay
  BY <1>1 DEF Hold, Stay
<1>3. group \in Surjection(rows, GroupHoldsByRange(rows))
  BY DEF Surjection, GroupHoldsByRange
<1>4. IsFiniteSet(GroupHoldsByRange(rows))
  BY <1>3, FS_Surjection
<1>5. GroupHoldsByRange(rows) \subseteq Stay
  BY <1>2 DEF GroupHoldsByRange
<1> QED BY <1>4, <1>5

-----------------------------------------------------------------------------
(* The inductive invariant behind TypeOK and NeverNegative *)

\* A transaction is about finitely many stays; one that holds them does so for
\* a customer.
WellFormed(t) ==
    /\ IsFiniteSet(t.stays)
    /\ t.op = "hold" => t.user \in User

\* Every table has finitely many rows and every transaction finitely many
\* stays: counts of rows are numbers and orders of stays are sequences.
FiniteRows ==
    /\ IsFiniteSet(holds)
    /\ IsFiniteSet(bookings)
    /\ IsFiniteSet(records)
    /\ \A b \in bookings : IsFiniteSet(b.items)
    /\ \A w \in Worker : WellFormed(txn[w])

IInv == TypeOK /\ FiniteRows /\ NeverNegative

\* No transaction is a transaction with nothing to do.
LEMMA NoTxnType == NoTxn \in Txn /\ NoTxn.stays = {} /\ WellFormed(NoTxn)
BY FS_EmptySet DEF NoTxn, Txn, Op, WellFormed

\* Nights are days.
LEMMA NightsAreInt ==
    ASSUME NEW stay \in Stay
    PROVE  LastNight(stay) \in Int
BY DEF LastNight, Stay, Day

\* What a transaction adds to a row is an integer.
LEMMA DeltaIsInt ==
    ASSUME NEW stay \in Stay, NEW op
    PROVE  Delta(op, stay) \in Int
<1>1. Capacity[stay.unit] \in Int /\ stay.quantity \in Int
  BY CapacityAssumption DEF Stay
<1> QED BY <1>1 DEF Delta

\* Opening a transaction over finitely many stays keeps the transactions typed.
LEMMA OpenType ==
    ASSUME IInv, NEW w \in Worker, NEW t \in Txn, WellFormed(t),
           Open(w, t)
    PROVE  /\ txn' \in [Worker -> Txn]
           /\ \A v \in Worker : WellFormed(txn'[v])
<1>1. PICK todo \in SetToSeqs(t.stays) :
        txn' = [txn EXCEPT ![w] =
                  [t EXCEPT !.todo = todo,
                            !.day = IF todo = <<>> THEN 0
                                    ELSE Head(todo).from]]
  BY DEF Open
<1>2. t.stays \subseteq Stay
  BY DEF Txn
<1>3. todo \in Seq(Stay)
  BY <1>2, OrderIsSequence DEF WellFormed
<1>4. (IF todo = <<>> THEN 0 ELSE Head(todo).from) \in Int
  <2>1. todo # <<>> => Head(todo) \in Stay
    BY <1>3
  <2> QED BY <2>1 DEF Stay, Day
<1> DEFINE opened == [t EXCEPT !.todo = todo,
                               !.day = IF todo = <<>> THEN 0
                                       ELSE Head(todo).from]
<1>5. opened \in Txn /\ WellFormed(opened)
  <2>1. opened \in Txn
    BY <1>3, <1>4 DEF Txn
  <2>2. opened.stays = t.stays /\ opened.op = t.op /\ opened.user = t.user
    BY DEF Txn
  <2> QED BY <2>1, <2>2 DEF WellFormed
<1>6. txn \in [Worker -> Txn]
  BY DEF IInv, TypeOK
<1>7. \A v \in Worker : WellFormed(txn[v])
  BY DEF IInv, FiniteRows
<1>8. txn' = [txn EXCEPT ![w] = opened]
  BY <1>1
<1> HIDE DEF opened
<1> QED BY <1>5, <1>6, <1>7, <1>8

-----------------------------------------------------------------------------
(* Each action keeps the invariant *)

\* Opening a transaction changes nothing but that transaction.
LEMMA BeginKeepsIInv ==
    ASSUME IInv, NEW w \in Worker, Begin(w)
    PROVE  IInv'
<1> USE DEF Op, Consuming, Restoring, Editing
<1>1. /\ txn' \in [Worker -> Txn]
      /\ \A v \in Worker : WellFormed(txn'[v])
  <2>1. ASSUME NEW rows \in SUBSET holds
        PROVE  /\ rows \subseteq Hold
               /\ GroupHoldsByRange(rows) \subseteq Stay
               /\ IsFiniteSet(GroupHoldsByRange(rows))
    <3>1. rows \subseteq Hold /\ IsFiniteSet(rows)
      BY FS_Subset DEF IInv, TypeOK, FiniteRows
    <3> QED BY <3>1, GroupsAreStays
  <2>2. CASE CreateHolds(w)
    <3>1. PICK user \in User, request \in HoldRequests :
            Open(w, [NoTxn EXCEPT !.op = "hold", !.user = user,
                                  !.stays = request])
      BY <2>2 DEF CreateHolds
    <3> DEFINE t == [NoTxn EXCEPT !.op = "hold", !.user = user,
                                  !.stays = request]
    <3>2. request \subseteq Stay /\ IsFiniteSet(request)
      BY RequestAssumption
    <3>3. t \in Txn /\ t.stays = request /\ t.user = user
      BY <3>2, NoTxnType DEF Txn
    <3>4. Open(w, t)
      BY <3>1
    <3> HIDE DEF t
    <3> QED BY <3>2, <3>3, <3>4, OpenType DEF WellFormed
  <2>3. CASE ReleaseHolds(w)
    <3>1. PICK user \in User, rows \in SUBSET holds :
            Open(w, [NoTxn EXCEPT !.op = "release", !.rows = rows,
                                  !.stays = GroupHoldsByRange(rows)])
      BY <2>3 DEF ReleaseHolds, ActiveHoldsOf
    <3> DEFINE t == [NoTxn EXCEPT !.op = "release", !.rows = rows,
                                  !.stays = GroupHoldsByRange(rows)]
    <3>2. t \in Txn /\ t.stays = GroupHoldsByRange(rows) /\ t.op # "hold"
      BY <2>1, NoTxnType DEF Txn
    <3>3. Open(w, t)
      BY <3>1
    <3> HIDE DEF t
    <3> QED BY <2>1, <3>2, <3>3, OpenType DEF WellFormed
  <2>4. CASE CreateBooking(w)
    <3>1. PICK user \in User, rows \in SUBSET holds :
            txn' = [txn EXCEPT ![w] =
                      [NoTxn EXCEPT !.op = "book", !.rows = rows,
                                    !.stays = GroupHoldsByRange(rows)]]
      BY <2>4 DEF CreateBooking, ActiveHoldsOf
    <3> DEFINE t == [NoTxn EXCEPT !.op = "book", !.rows = rows,
                                  !.stays = GroupHoldsByRange(rows)]
    <3>2. t \in Txn /\ t.stays = GroupHoldsByRange(rows) /\ t.op # "hold"
      BY <2>1, NoTxnType DEF Txn
    <3>3. txn' = [txn EXCEPT ![w] = t]
      BY <3>1
    <3> HIDE DEF t
    <3> QED BY <2>1, <3>2, <3>3 DEF IInv, TypeOK, FiniteRows, WellFormed
  <2>5. CASE SweepExpiredHolds(w)
    <3>1. PICK rows \in SUBSET holds :
            Open(w, [NoTxn EXCEPT !.op = "sweep", !.rows = rows,
                                  !.stays = GroupHoldsByRange(rows)])
      BY <2>5 DEF SweepExpiredHolds
    <3> DEFINE t == [NoTxn EXCEPT !.op = "sweep", !.rows = rows,
                                  !.stays = GroupHoldsByRange(rows)]
    <3>2. t \in Txn /\ t.stays = GroupHoldsByRange(rows) /\ t.op # "hold"
      BY <2>1, NoTxnType DEF Txn
    <3>3. Open(w, t)
      BY <3>1
    <3> HIDE DEF t
    <3> QED BY <2>1, <3>2, <3>3, OpenType DEF WellFormed
  <2>6. CASE CloseBooking(w)
    <3>1. PICK b \in bookings :
            Open(w, [NoTxn EXCEPT !.op = "close", !.target = b.id,
                                  !.stays = b.items])
      BY <2>6 DEF CloseBooking
    <3> DEFINE t == [NoTxn EXCEPT !.op = "close", !.target = b.id,
                                  !.stays = b.items]
    <3>2. b \in Booking /\ IsFiniteSet(b.items)
      BY DEF IInv, TypeOK, FiniteRows
    <3>3. t \in Txn /\ t.stays = b.items /\ t.op # "hold"
      BY <3>2, NoTxnType DEF Txn, Booking
    <3>4. Open(w, t)
      BY <3>1
    <3> HIDE DEF t
    <3> QED BY <3>2, <3>3, <3>4, OpenType DEF WellFormed
  <2>7. ASSUME NEW kind \in {"block", "external", "import"},
               NEW stay \in Stay,
               Open(w, [NoTxn EXCEPT !.op = kind, !.stays = {stay}])
        PROVE  /\ txn' \in [Worker -> Txn]
               /\ \A v \in Worker : WellFormed(txn'[v])
    <3> DEFINE t == [NoTxn EXCEPT !.op = kind, !.stays = {stay}]
    <3>1. t \in Txn /\ t.stays = {stay} /\ t.op # "hold"
      BY NoTxnType DEF Txn
    <3>2. IsFiniteSet({stay})
      BY FS_Singleton
    <3>3. Open(w, t)
      BY <2>7
    <3> HIDE DEF t
    <3> QED BY <3>1, <3>2, <3>3, OpenType DEF WellFormed
  <2>8. CASE CreateManualBlock(w)
    <3>1. PICK stay \in RecordRequests :
            Open(w, [NoTxn EXCEPT !.op = "block", !.stays = {stay}])
      BY <2>8 DEF CreateManualBlock, CreateRecord
    <3> QED BY <3>1, <2>7, RequestAssumption
  <2>9. CASE CreateExternalReservation(w)
    <3>1. PICK stay \in RecordRequests :
            Open(w, [NoTxn EXCEPT !.op = "external", !.stays = {stay}])
      BY <2>9 DEF CreateExternalReservation, CreateRecord
    <3> QED BY <3>1, <2>7, RequestAssumption
  <2>10. CASE ImportRow(w)
    <3>1. PICK stay \in ImportRequests :
            Open(w, [NoTxn EXCEPT !.op = "import", !.stays = {stay}])
      BY <2>10 DEF ImportRow, CreateRecord
    <3> QED BY <3>1, <2>7, RequestAssumption
  <2>11. CASE CancelRecord(w)
    <3>1. PICK r \in records :
            Open(w, [NoTxn EXCEPT !.op = "cancel", !.target = r.id,
                                  !.stays = {r.stay}])
      BY <2>11 DEF CancelRecord
    <3> DEFINE t == [NoTxn EXCEPT !.op = "cancel", !.target = r.id,
                                  !.stays = {r.stay}]
    <3>2. r \in Record
      BY DEF IInv, TypeOK
    <3>3. t \in Txn /\ t.stays = {r.stay} /\ t.op # "hold"
      BY <3>2, NoTxnType DEF Txn, Record
    <3>4. IsFiniteSet({r.stay})
      BY FS_Singleton
    <3>5. Open(w, t)
      BY <3>1
    <3> HIDE DEF t
    <3> QED BY <3>3, <3>4, <3>5, OpenType DEF WellFormed
  <2>12. CASE SetAvailability(w) \/ UpdateCalendarEntry(w)
    <3>1. PICK edit \in EditRequests, op \in Editing,
               status \in Status \cup {"KEEP"} :
            Open(w, [NoTxn EXCEPT !.op = op, !.stays = {edit},
                                  !.status = status])
      BY <2>12 DEF SetAvailability, UpdateCalendarEntry, EditCalendar
    <3> DEFINE t == [NoTxn EXCEPT !.op = op, !.stays = {edit},
                                  !.status = status]
    <3>2. t \in Txn /\ t.stays = {edit} /\ t.op # "hold"
      BY NoTxnType, RequestAssumption DEF Txn
    <3>3. IsFiniteSet({edit})
      BY FS_Singleton
    <3>4. Open(w, t)
      BY <3>1
    <3> HIDE DEF t
    <3> QED BY <3>2, <3>3, <3>4, OpenType DEF WellFormed
  <2> QED BY <2>2, <2>3, <2>4, <2>5, <2>6, <2>8, <2>9, <2>10, <2>11, <2>12
          DEF Begin
<1>2. UNCHANGED <<calendar, draft, lockedBy, blackout, holds, bookings,
                  records, requests, faults>>
  BY DEF Begin, CreateHolds, ReleaseHolds, CreateBooking, SweepExpiredHolds,
         CloseBooking, CreateManualBlock, CreateExternalReservation, ImportRow,
         CreateRecord, CancelRecord, SetAvailability, UpdateCalendarEntry,
         EditCalendar, tables
<1> QED BY <1>1, <1>2 DEF IInv, TypeOK, FiniteRows, NeverNegative

\* Writing a calendar row: Admissible keeps its quantity from falling below 0.
LEMMA WriteRowKeepsIInv ==
    ASSUME IInv, NEW w \in Worker, WriteRow(w)
    PROVE  IInv'
<1>1. /\ txn[w] \in Txn /\ txn[w].todo \in Seq(Stay) /\ txn[w].todo # <<>>
      /\ Head(txn[w].todo) \in Stay /\ Tail(txn[w].todo) \in Seq(Stay)
  BY DEF IInv, TypeOK, Txn, WriteRow, CanLock
<1>2. Advance(txn[w]) \in Txn /\ WellFormed(Advance(txn[w]))
  <2>1. txn[w].day \in Int
    BY <1>1 DEF Txn
  <2>2. WellFormed(txn[w])
    BY DEF IInv, FiniteRows
  <2>3. CASE txn[w].day < LastDay(txn[w].op, Head(txn[w].todo))
    <3>1. Advance(txn[w]) = [txn[w] EXCEPT !.day = @ + 1]
      BY <2>3 DEF Advance
    <3> QED BY <1>1, <2>1, <3>1, <2>2 DEF Txn, WellFormed
  <2>4. CASE ~(txn[w].day < LastDay(txn[w].op, Head(txn[w].todo)))
    <3> DEFINE next == IF Tail(txn[w].todo) = <<>> THEN 0
                       ELSE Head(Tail(txn[w].todo)).from
    <3>1. next \in Int
      <4>1. Tail(txn[w].todo) # <<>> => Head(Tail(txn[w].todo)) \in Stay
        BY <1>1
      <4> QED BY <4>1 DEF Stay, Day
    <3>2. Advance(txn[w])
            = [txn[w] EXCEPT !.todo = Tail(@), !.day = next]
      BY <2>4 DEF Advance
    <3> HIDE DEF next
    <3> QED BY <1>1, <3>1, <3>2, <2>2 DEF Txn, WellFormed
  <2> QED BY <2>3, <2>4
<1>3. txn' \in [Worker -> Txn] /\ \A v \in Worker : WellFormed(txn'[v])
  <2>1. txn' = [txn EXCEPT ![w] = Advance(txn[w])]
    BY DEF WriteRow
  <2> QED BY <1>2, <2>1 DEF IInv, TypeOK, FiniteRows
<1>4. /\ draft' \in [Slot -> CalendarRow]
      /\ \A s \in Slot : draft'[s].quantity >= 0
  <2> DEFINE row == [status |-> IF txn[w].status = "KEEP"
                                THEN draft[NextSlot(w)].status
                                ELSE txn[w].status,
                     quantity |-> NewQuantity(w)]
  <2>1. draft' = [draft EXCEPT ![NextSlot(w)] = row]
    BY DEF WriteRow
  <2>2. NextSlot(w) \in Slot => row \in CalendarRow /\ row.quantity >= 0
    <3> SUFFICES ASSUME NextSlot(w) \in Slot
                 PROVE  row \in CalendarRow /\ row.quantity >= 0
      OBVIOUS
    <3>1. draft[NextSlot(w)] \in CalendarRow
      BY DEF IInv, TypeOK
    <3>2. NewQuantity(w) \in Int
      BY <1>1, <3>1, DeltaIsInt DEF NewQuantity, CalendarRow
    <3>3. NewQuantity(w) >= 0
      BY DEF WriteRow, Admissible
    <3> QED BY <1>1, <3>1, <3>2, <3>3 DEF CalendarRow, Txn
  <2>3. /\ draft \in [Slot -> CalendarRow]
        /\ \A s \in Slot : draft[s].quantity >= 0
    BY DEF IInv, TypeOK, NeverNegative
  <2> HIDE DEF row
  <2> QED BY <2>1, <2>2, <2>3
<1>5. lockedBy' \in [Slot -> Worker \cup {NoWorker}]
  BY DEF IInv, TypeOK, WriteRow
<1>6. UNCHANGED <<calendar, blackout, holds, bookings, records, requests,
                  faults>>
  BY DEF WriteRow, tables
<1> QED BY <1>3, <1>4, <1>5, <1>6 DEF IInv, TypeOK, FiniteRows, NeverNegative

\* What a commit does to the calendar and to the transactions.
LEMMA PublishType ==
    ASSUME IInv, NEW w \in Worker, Publish(w)
    PROVE  /\ calendar' \in [Slot -> CalendarRow]
           /\ draft' \in [Slot -> CalendarRow]
           /\ lockedBy' \in [Slot -> Worker \cup {NoWorker}]
           /\ blackout' \subseteq Day
           /\ txn' \in [Worker -> Txn]
           /\ \A v \in Worker : WellFormed(txn'[v])
           /\ faults' \in Nat
           /\ NeverNegative'
<1>1. txn' = [txn EXCEPT ![w] = NoTxn]
  BY DEF Publish
<1>2. txn' \in [Worker -> Txn] /\ \A v \in Worker : WellFormed(txn'[v])
  BY <1>1, NoTxnType, FS_EmptySet DEF IInv, TypeOK, FiniteRows
<1>3. UNCHANGED <<draft, blackout, faults>>
  BY DEF Publish
<1>4. lockedBy' \in [Slot -> Worker \cup {NoWorker}]
  BY DEF IInv, TypeOK, Publish, Unlocked
<1>5. calendar' \in [Slot -> CalendarRow]
  BY DEF IInv, TypeOK, Publish
<1>6. NeverNegative'
  BY <1>3 DEF IInv, TypeOK, NeverNegative, Publish
<1> QED BY <1>2, <1>3, <1>4, <1>5, <1>6 DEF IInv, TypeOK

\* A rollback puts the committed rows back and touches no table.
LEMMA RollBackKeepsIInv ==
    ASSUME IInv, NEW w \in Worker, RollBack(w), faults' \in Nat
    PROVE  IInv'
<1>1. txn' = [txn EXCEPT ![w] = NoTxn]
  BY DEF RollBack
<1>2. txn' \in [Worker -> Txn] /\ \A v \in Worker : WellFormed(txn'[v])
  BY <1>1, NoTxnType, FS_EmptySet DEF IInv, TypeOK, FiniteRows
<1>3. lockedBy' \in [Slot -> Worker \cup {NoWorker}]
  BY DEF IInv, TypeOK, RollBack, Unlocked
<1>4. draft' \in [Slot -> CalendarRow]
  BY DEF IInv, TypeOK, RollBack
<1>5. UNCHANGED <<calendar, blackout, holds, bookings, records, requests>>
  BY DEF RollBack, tables
<1>6. NeverNegative'
  BY <1>5 DEF IInv, TypeOK, NeverNegative, RollBack
<1> QED BY <1>2, <1>3, <1>4, <1>5, <1>6 DEF IInv, TypeOK, FiniteRows

\* One hold row per unit of each stay asked for.
LEMMA HoldRowsType ==
    ASSUME NEW t, NEW stay \in Stay, t.user \in User, requests \in Nat
    PROVE  HoldRows(t, stay) \subseteq Hold /\ IsFiniteSet(HoldRows(t, stay))
<1> DEFINE row == [copy \in 1 .. stay.quantity |->
              [id |-> <<requests, stay, copy>>, user |-> t.user,
               unit |-> stay.unit, from |-> stay.from, to |-> stay.to,
               expired |-> FALSE]]
<1>1. stay.quantity \in Nat
  BY DEF Stay
<1>2. row \in Surjection(1 .. stay.quantity, HoldRows(t, stay))
  BY DEF Surjection, HoldRows
<1>3. IsFiniteSet(HoldRows(t, stay))
  BY <1>1, <1>2, FS_Interval, FS_Surjection
<1>4. ASSUME NEW copy \in 1 .. stay.quantity
      PROVE  row[copy] \in Hold
  <2>1. <<requests, stay, copy>> \in HoldId
    BY <1>1 DEF HoldId
  <2>2. /\ stay.unit \in Unit /\ stay.from \in Day /\ stay.to \in Day
        /\ stay.from <= stay.to
    BY DEF Stay
  <2>3. row[copy].from <= row[copy].to
    BY <2>2
  <2> QED BY <2>1, <2>2, <2>3 DEF Hold
<1>5. HoldRows(t, stay) = {row[copy] : copy \in 1 .. stay.quantity}
  BY DEF HoldRows
<1> HIDE DEF row
<1> QED BY <1>3, <1>4, <1>5

\* Hold rows that are inserted keep the types.
LEMMA CommitHoldsKeepsIInv ==
    ASSUME IInv, NEW w \in Worker, CommitHolds(w)
    PROVE  IInv'
<1> DEFINE stays == txn[w].stays
           rowsOf == [stay \in stays |-> HoldRows(txn[w], stay)]
           created == UNION {HoldRows(txn[w], stay) : stay \in stays}
<1>1. stays \subseteq Stay /\ IsFiniteSet(stays) /\ requests \in Nat
  BY DEF IInv, TypeOK, FiniteRows, WellFormed, Txn
<1>2. txn[w].user \in User
  BY DEF CommitHolds, ReadyToCommit, IInv, FiniteRows, WellFormed
<1>3. \A stay \in stays :
        /\ HoldRows(txn[w], stay) \subseteq Hold
        /\ IsFiniteSet(HoldRows(txn[w], stay))
  BY <1>1, <1>2, HoldRowsType
<1>4. created \subseteq Hold /\ IsFiniteSet(created)
  <2>1. rowsOf \in Surjection(stays, {HoldRows(txn[w], stay) : stay \in stays})
    BY DEF Surjection
  <2>2. IsFiniteSet({HoldRows(txn[w], stay) : stay \in stays})
    BY <1>1, <2>1, FS_Surjection
  <2>3. IsFiniteSet(created)
    BY <1>3, <2>2, FS_UNION
  <2> QED BY <1>3, <2>3
<1>5. holds' = holds \cup created
  BY DEF CommitHolds
<1>6. requests' \in Nat /\ UNCHANGED <<bookings, records>> /\ Publish(w)
  BY <1>1 DEF CommitHolds
<1> HIDE DEF created
<1>7. holds' \subseteq Hold /\ IsFiniteSet(holds')
  BY <1>4, <1>5, FS_Union DEF IInv, TypeOK, FiniteRows
<1> QED BY <1>6, <1>7, PublishType DEF IInv, TypeOK, FiniteRows

\* Deleting rows leaves some of the rows there were.
LEMMA WithoutRowsType ==
    ASSUME IInv, NEW rows
    PROVE  WithoutRows(rows) \subseteq Hold /\ IsFiniteSet(WithoutRows(rows))
<1>1. WithoutRows(rows) \in SUBSET holds
  BY DEF WithoutRows
<1> QED BY <1>1, FS_Subset DEF IInv, TypeOK, FiniteRows

\* Numbering a new row by the number of rows there are.
LEMMA NextId ==
    ASSUME NEW S, IsFiniteSet(S)
    PROVE  Cardinality(S) + 1 \in Nat
BY FS_CardinalityType

\* So do rows that are deleted,
LEMMA CommitReleaseKeepsIInv ==
    ASSUME IInv, NEW w \in Worker, CommitRelease(w)
    PROVE  IInv'
<1>1. /\ holds' = WithoutRows(txn[w].rows)
      /\ Publish(w) /\ UNCHANGED <<bookings, records, requests>>
  BY DEF CommitRelease
<1> QED BY <1>1, WithoutRowsType, PublishType DEF IInv, TypeOK, FiniteRows

\* a booking that takes the place of its holds,
LEMMA CommitBookingKeepsIInv ==
    ASSUME IInv, NEW w \in Worker, CommitBooking(w)
    PROVE  IInv'
<1> DEFINE b == [id |-> Cardinality(bookings) + 1, items |-> txn[w].stays,
                 open |-> TRUE]
<1>1. /\ holds' = WithoutRows(txn[w].rows) /\ bookings' = bookings \cup {b}
      /\ Publish(w) /\ UNCHANGED <<records, requests>>
  BY DEF CommitBooking
<1>2. /\ txn[w].stays \subseteq Stay /\ IsFiniteSet(txn[w].stays)
      /\ IsFiniteSet(bookings)
  BY DEF IInv, TypeOK, FiniteRows, WellFormed, Txn
<1>3. b \in Booking /\ b.items = txn[w].stays
  BY <1>2, NextId DEF Booking
<1> HIDE DEF b
<1>4. bookings' \subseteq Booking /\ IsFiniteSet(bookings')
  BY <1>1, <1>2, <1>3, FS_AddElement DEF IInv, TypeOK
<1>5. \A x \in bookings' : IsFiniteSet(x.items)
  BY <1>1, <1>2, <1>3 DEF IInv, FiniteRows
<1> QED BY <1>1, <1>4, <1>5, WithoutRowsType, PublishType
        DEF IInv, TypeOK, FiniteRows

\* a booking that is closed,
LEMMA CommitCloseKeepsIInv ==
    ASSUME IInv, NEW w \in Worker, CommitClose(w)
    PROVE  IInv'
<1> DEFINE closed == [b \in bookings |->
              IF b.id = txn[w].target THEN [b EXCEPT !.open = FALSE] ELSE b]
<1>1. /\ bookings' = {closed[b] : b \in bookings}
      /\ Publish(w) /\ UNCHANGED <<holds, records, requests>>
  BY DEF CommitClose
<1>2. \A b \in bookings :
        closed[b] \in Booking /\ IsFiniteSet(closed[b].items)
  BY DEF IInv, TypeOK, FiniteRows, Booking
<1>3. closed \in Surjection(bookings, bookings')
  BY <1>1 DEF Surjection
<1>4. IsFiniteSet(bookings')
  BY <1>3, FS_Surjection DEF IInv, FiniteRows
<1> HIDE DEF closed
<1>5. bookings' \subseteq Booking /\ \A b \in bookings' : IsFiniteSet(b.items)
  BY <1>1, <1>2
<1> QED BY <1>1, <1>4, <1>5, PublishType DEF IInv, TypeOK, FiniteRows

\* CommitRecord and ImportRowFails insert one row per stay.
LEMMA InsertRecordType ==
    ASSUME IInv, NEW w \in Worker,
           txn[w].op \in {"block", "external", "import"}, InsertRecord(w)
    PROVE  records' \subseteq Record /\ IsFiniteSet(records')
<1> DEFINE row == [stay \in txn[w].stays |->
              [id |-> Cardinality(records) + 1, kind |-> txn[w].op,
               stay |-> stay, active |-> TRUE]]
           inserted == {row[stay] : stay \in txn[w].stays}
<1>1. records' = records \cup inserted
  BY DEF InsertRecord
<1>2. /\ txn[w].stays \subseteq Stay /\ IsFiniteSet(txn[w].stays)
      /\ IsFiniteSet(records) /\ records \subseteq Record
  BY DEF IInv, TypeOK, FiniteRows, WellFormed, Txn
<1>3. \A stay \in txn[w].stays : row[stay] \in Record
  BY <1>2, NextId DEF Record
<1>4. row \in Surjection(txn[w].stays, inserted)
  BY DEF Surjection
<1>5. inserted \subseteq Record /\ IsFiniteSet(inserted)
  BY <1>2, <1>3, <1>4, FS_Surjection
<1> HIDE DEF inserted
<1> QED BY <1>1, <1>2, <1>5, FS_Union

\* a block or an external reservation that is inserted,
LEMMA CommitRecordKeepsIInv ==
    ASSUME IInv, NEW w \in Worker, CommitRecord(w) \/ ImportRowFails(w)
    PROVE  IInv'
<1>1. /\ txn[w].op \in {"block", "external", "import"} /\ InsertRecord(w)
      /\ Publish(w) /\ UNCHANGED <<holds, bookings, requests>>
  BY DEF CommitRecord, ImportRowFails, ReadyToCommit
<1> QED BY <1>1, InsertRecordType, PublishType DEF IInv, TypeOK, FiniteRows

\* and one that is released.
LEMMA CommitCancelKeepsIInv ==
    ASSUME IInv, NEW w \in Worker, CommitCancel(w)
    PROVE  IInv'
<1> DEFINE cancelled == [r \in records |->
              IF r.id = txn[w].target THEN [r EXCEPT !.active = FALSE] ELSE r]
<1>1. /\ records' = {cancelled[r] : r \in records}
      /\ Publish(w) /\ UNCHANGED <<holds, bookings, requests>>
  BY DEF CommitCancel
<1>2. \A r \in records : cancelled[r] \in Record
  BY DEF IInv, TypeOK, Record
<1>3. cancelled \in Surjection(records, records')
  BY <1>1 DEF Surjection
<1>4. IsFiniteSet(records')
  BY <1>3, FS_Surjection DEF IInv, FiniteRows
<1> HIDE DEF cancelled
<1>5. records' \subseteq Record
  BY <1>1, <1>2
<1> QED BY <1>1, <1>4, <1>5, PublishType DEF IInv, TypeOK, FiniteRows

\* Every end of a transaction keeps the invariant.
LEMMA FinishKeepsIInv ==
    ASSUME IInv, NEW w \in Worker, Finish(w)
    PROVE  IInv'
<1>1. CASE CommitEdit(w)
  <2>1. Publish(w) /\ UNCHANGED <<holds, bookings, records, requests>>
    BY <1>1 DEF CommitEdit, tables
  <2> QED BY <2>1, PublishType DEF IInv, TypeOK, FiniteRows
<1>2. CASE Refuse(w) \/ DeadlockVictim(w)
  <2>1. RollBack(w) /\ faults' = faults
    BY <1>2 DEF Refuse, DeadlockVictim
  <2>2. faults' \in Nat
    BY <2>1 DEF IInv, TypeOK
  <2> QED BY <2>1, <2>2, RollBackKeepsIInv
<1> QED BY <1>1, <1>2, CommitHoldsKeepsIInv, CommitReleaseKeepsIInv,
           CommitBookingKeepsIInv, CommitCloseKeepsIInv,
           CommitRecordKeepsIInv, CommitCancelKeepsIInv DEF Finish

-----------------------------------------------------------------------------
(* The theorems *)

\* The invariant holds before any transaction.
LEMMA InitIInv == Init => IInv
<1> SUFFICES ASSUME Init PROVE IInv
  OBVIOUS
<1>1. \A s \in Slot : Capacity[s[1]] \in Nat
  BY CapacityAssumption DEF Slot
<1>2. calendar \in [Slot -> CalendarRow] /\ draft = calendar /\ NeverNegative
  BY <1>1 DEF Init, CalendarRow, Status, NeverNegative
<1>3. txn \in [Worker -> Txn] /\ \A w \in Worker : WellFormed(txn[w])
  BY NoTxnType, FS_EmptySet DEF Init
<1> QED BY <1>2, <1>3, FS_EmptySet DEF Init, IInv, TypeOK, FiniteRows

\* Every step keeps it.
LEMMA StepIInv == IInv /\ [Next]_vars => IInv'
<1> SUFFICES ASSUME IInv, [Next]_vars PROVE IInv'
  OBVIOUS
<1>1. ASSUME NEW w \in Worker, LoseTransaction(w)
      PROVE  IInv'
  <2>1. RollBack(w) /\ faults' \in Nat
    BY <1>1 DEF LoseTransaction, IInv, TypeOK
  <2> QED BY <2>1, RollBackKeepsIInv
<1>2. CASE HoldExpires
  <2>1. PICK h \in holds :
          /\ holds' = (holds \ {h}) \cup {[h EXCEPT !.expired = TRUE]}
          /\ UNCHANGED <<calendar, draft, lockedBy, blackout, bookings,
                         records, txn, requests, faults>>
    BY <1>2 DEF HoldExpires
  <2>2. holds' \subseteq Hold
    BY <2>1 DEF IInv, TypeOK, Hold
  <2>3. IsFiniteSet(holds')
    BY <2>1, FS_RemoveElement, FS_AddElement DEF IInv, FiniteRows
  <2> QED BY <2>1, <2>2, <2>3 DEF IInv, TypeOK, FiniteRows, NeverNegative
<1>3. CASE RemoveCalendarEntry
  <2>1. PICK s \in RemovableSlots :
          LET untouched == [status |-> "AVAILABLE",
                            quantity |-> Capacity[s[1]]]
          IN  /\ calendar' = [calendar EXCEPT ![s] = untouched]
              /\ draft' = [draft EXCEPT ![s] = untouched]
              /\ UNCHANGED <<lockedBy, blackout, holds, bookings, records,
                             requests, txn, faults>>
    BY <1>3 DEF RemoveCalendarEntry, tables
  <2>2. Capacity[s[1]] \in Nat
    BY RequestAssumption, CapacityAssumption DEF Slot
  <2> DEFINE untouched == [status |-> "AVAILABLE", quantity |-> Capacity[s[1]]]
  <2>3. untouched \in CalendarRow
    BY <2>2 DEF CalendarRow, Status
  <2>4. /\ calendar' = [calendar EXCEPT ![s] = untouched]
        /\ draft' = [draft EXCEPT ![s] = untouched]
    BY <2>1
  <2>5. calendar' \in [Slot -> CalendarRow] /\ draft' \in [Slot -> CalendarRow]
    <3> HIDE DEF untouched
    <3> QED BY <2>3, <2>4 DEF IInv, TypeOK
  <2>6. NeverNegative'
    BY <2>2, <2>4 DEF IInv, TypeOK, NeverNegative
  <2> QED BY <2>1, <2>5, <2>6 DEF IInv, TypeOK, FiniteRows
<1>4. CASE CreateBlackout \/ UpdateBlackout \/ DeleteBlackout
  BY <1>4, RequestAssumption
     DEF CreateBlackout, UpdateBlackout, DeleteBlackout, IInv, TypeOK,
         FiniteRows,
         NeverNegative, tables
<1>5. CASE UNCHANGED vars
  BY <1>5 DEF vars, IInv, TypeOK, FiniteRows, NeverNegative
<1> QED BY <1>1, <1>2, <1>3, <1>4, <1>5, BeginKeepsIInv, WriteRowKeepsIInv,
           FinishKeepsIInv DEF Next

\* The invariant holds in every state.
THEOREM Invariance == Spec => []IInv
<1> QED BY InitIInv, StepIInv, PTL DEF Spec

\* Type correctness of the capacity engine.
THEOREM TypeCorrect == Spec => []TypeOK
<1>1. IInv => TypeOK
  BY DEF IInv
<1> QED BY <1>1, Invariance, PTL

\* No interleaving of row writes, commits and rollbacks takes a calendar row
\* below zero, whatever the units, capacities, requests and workers.
THEOREM NothingNegative == Spec => []NeverNegative
<1>1. IInv => NeverNegative
  BY DEF IInv
<1> QED BY <1>1, Invariance, PTL

-----------------------------------------------------------------------------
(* Holds are granted over open days *)

\* Slots of a transaction that its cursor has not reached yet.
Pending(t, s) == \E i \in 1 .. Len(t.todo) :
    Consumes(t.todo[i], s) /\ (i = 1 => t.day <= s[2])

\* A row nobody has locked has no uncommitted write ...
CleanRows == \A s \in Slot : lockedBy[s] = NoWorker => draft[s] = calendar[s]

\* ... and a connection without a transaction has no lock and nothing to do.
IdleHasNoLock == \A w \in Worker : txn[w].op = "idle" =>
    txn[w].todo = <<>> /\ \A s \in Slot : lockedBy[s] # w

\* A transaction that places holds leaves the status of its rows alone, and
\* has locked and found open every day its cursor has passed.
HoldInProgress(w) ==
    /\ txn[w].status = "KEEP"
    /\ \A s \in Slot :
          lockedBy[s] = w => draft[s].status = calendar[s].status
    /\ \A stay \in txn[w].stays, s \in Slot :
          Consumes(stay, s) =>
             Pending(txn[w], s) \/ (lockedBy[s] = w
                                    /\ draft[s].status # "BLOCKED")

OpenInv ==
    /\ CleanRows
    /\ IdleHasNoLock
    /\ \A w \in Worker : txn[w].op = "hold" => HoldInProgress(w)

-----------------------------------------------------------------------------
(* Operators *)

\* An order of a finite set leaves nothing of it out.
LEMMA OrderIsOnto ==
    ASSUME NEW S, IsFiniteSet(S), NEW order \in SetToSeqs(S), NEW x \in S
    PROVE  \E i \in 1 .. Len(order) : order[i] = x
<1>1. Cardinality(S) \in Nat
  BY FS_CardinalityType
<1> DEFINE D == 1 .. Cardinality(S)
<1>2. order \in Injection(D, S)
  BY DEF SetToSeqs, Injection, IsInjective
<1>3. IsFiniteSet(D) /\ Cardinality(D) = Cardinality(S)
  BY <1>1, FS_Interval
<1>4. order \in Surjection(D, S)
  BY <1>2, <1>3, FS_Injection
<1>5. order \in [D -> S] /\ \E i \in D : order[i] = x
  BY <1>4 DEF Surjection
<1>6. Len(order) = Cardinality(S)
  BY <1>1, <1>5
<1> QED BY <1>5, <1>6

\* A transaction over whose rows nothing happens stays as it is.
LEMMA HoldFrame ==
    ASSUME NEW v \in Worker, HoldInProgress(v), txn'[v] = txn[v],
           \A s \in Slot : lockedBy'[s] = v <=> lockedBy[s] = v,
           \A s \in Slot : lockedBy[s] = v =>
              draft'[s] = draft[s] /\ calendar'[s] = calendar[s]
    PROVE  HoldInProgress(v)'
BY DEF HoldInProgress, Pending

\* The head of a sequence is its first element.
LEMMA HeadIsFirst ==
    ASSUME NEW stays \in Seq(Stay), 1 \in 1 .. Len(stays)
    PROVE  stays # <<>> /\ Head(stays) = stays[1]
OBVIOUS

\* A slot the cursor has not reached is reached next or still not reached.
LEMMA AdvancePassesOneSlot ==
    ASSUME NEW t \in Txn, t.todo # <<>>, t.op = "hold", NEW s \in Slot,
           Pending(t, s), s # <<Head(t.todo).unit, t.day>>
    PROVE  Pending(Advance(t), s)
<1>1. PICK i \in 1 .. Len(t.todo) :
        Consumes(t.todo[i], s) /\ (i = 1 => t.day <= s[2])
  BY DEF Pending
<1>2. /\ t.todo \in Seq(Stay) /\ t.day \in Int /\ Head(t.todo) = t.todo[1]
      /\ \A j \in 1 .. Len(t.todo) : t.todo[j] \in Stay
  BY DEF Txn
<1>3. s[1] \in Unit /\ s[2] \in Int /\ s = <<s[1], s[2]>>
  BY DEF Slot, Day
<1>4. LastDay(t.op, Head(t.todo)) = LastNight(Head(t.todo))
  BY DEF LastDay, Editing
<1>5. LastNight(Head(t.todo)) \in Int
  BY <1>2, NightsAreInt
<1>6. i = 1 => s[2] # t.day /\ s[2] <= LastNight(Head(t.todo))
  BY <1>1, <1>2, <1>3, <1>5 DEF Consumes
<1>7. CASE t.day < LastDay(t.op, Head(t.todo))
  <2>1. Advance(t).todo = t.todo /\ Advance(t).day = t.day + 1
    BY <1>7 DEF Advance, Txn
  <2> QED BY <1>1, <1>2, <1>3, <1>6, <2>1 DEF Pending
<1>8. CASE ~(t.day < LastDay(t.op, Head(t.todo)))
  <2>1. i # 1
    BY <1>1, <1>2, <1>3, <1>4, <1>5, <1>6, <1>8
  <2>2. /\ Advance(t).todo = Tail(t.todo)
        /\ Advance(t).day = IF Tail(t.todo) = <<>> THEN 0
                            ELSE Head(Tail(t.todo)).from
    BY <1>8 DEF Advance, Txn
  <2>3. /\ i - 1 \in 1 .. Len(Tail(t.todo))
        /\ Tail(t.todo)[i - 1] = t.todo[i]
    BY <1>1, <1>2, <2>1
  <2>4. i - 1 = 1 => Advance(t).day = t.todo[i].from
    <3>1. Tail(t.todo) \in Seq(Stay)
      BY <1>2
    <3>2. ASSUME i - 1 = 1
          PROVE  Tail(t.todo) # <<>> /\ Head(Tail(t.todo)) = t.todo[i]
      <4>1. 1 \in 1 .. Len(Tail(t.todo)) /\ Tail(t.todo)[1] = t.todo[i]
        BY <2>3, <3>2
      <4> QED BY <3>1, <4>1, HeadIsFirst
    <3> QED BY <2>2, <3>2
  <2>5. i - 1 = 1 => Advance(t).day <= s[2]
    <3>1. t.todo[i].from <= s[2]
      BY <1>1, <1>2, <1>3, NightsAreInt DEF Consumes, Stay, Day
    <3> QED BY <2>4, <3>1
  <2> QED BY <1>1, <2>2, <2>3, <2>5 DEF Pending
<1> QED BY <1>7, <1>8

-----------------------------------------------------------------------------
(* Each action keeps the invariant *)

\* Only createHolds opens a transaction that places holds.
LEMMA BeginOps ==
    ASSUME IInv, NEW w \in Worker, Begin(w)
    PROVE  /\ txn'[w].op # "idle"
           /\ txn'[w].op = "hold" => CreateHolds(w)
<1> USE DEF Open, NoTxn, IInv, TypeOK
<1>1. ASSUME NEW user, NEW request,
             Open(w, [NoTxn EXCEPT !.op = "hold", !.user = user,
                                   !.stays = request])
      PROVE  txn'[w].op = "hold"
  BY <1>1
<1>2. CASE ReleaseHolds(w)
  BY <1>2 DEF ReleaseHolds
<1>3. CASE CreateBooking(w)
  BY <1>3 DEF CreateBooking
<1>4. CASE SweepExpiredHolds(w)
  BY <1>4 DEF SweepExpiredHolds
<1>5. CASE CloseBooking(w)
  BY <1>5 DEF CloseBooking
<1>6. CASE CancelRecord(w)
  BY <1>6 DEF CancelRecord
<1>7. ASSUME NEW kind \in {"block", "external", "import"}, NEW stay,
             Open(w, [NoTxn EXCEPT !.op = kind, !.stays = {stay}])
      PROVE  txn'[w].op \notin {"idle", "hold"}
  BY <1>7
<1>8. ASSUME NEW op \in Editing, NEW edit, NEW status,
             Open(w, [NoTxn EXCEPT !.op = op, !.stays = {edit},
                                   !.status = status])
      PROVE  txn'[w].op \notin {"idle", "hold"}
  BY <1>8 DEF Editing
<1> HIDE DEF Open, NoTxn, IInv, TypeOK
<1>9. CASE \/ CreateManualBlock(w) \/ CreateExternalReservation(w)
           \/ ImportRow(w)
  BY <1>7, <1>9 DEF CreateManualBlock, CreateExternalReservation,
     ImportRow, CreateRecord
<1>10. CASE SetAvailability(w) \/ UpdateCalendarEntry(w)
  BY <1>8, <1>10 DEF SetAvailability, UpdateCalendarEntry, EditCalendar
<1>11. CASE CreateHolds(w)
  BY <1>1, <1>11 DEF CreateHolds
<1> QED BY <1>2, <1>3, <1>4, <1>5, <1>6, <1>9, <1>10, <1>11 DEF Begin

\* Nothing is locked yet: every night of every stay is still to come.
LEMMA BeginKeepsOpenInv ==
    ASSUME IInv, OpenInv, NEW w \in Worker, Begin(w)
    PROVE  OpenInv'
<1>1. UNCHANGED <<calendar, draft, lockedBy>>
  BY DEF Begin, CreateHolds, ReleaseHolds, CreateBooking, SweepExpiredHolds,
         CloseBooking, CreateManualBlock, CreateExternalReservation, ImportRow,
         CreateRecord, CancelRecord, SetAvailability, UpdateCalendarEntry,
         EditCalendar
<1>2. txn[w] = NoTxn /\ \A v \in Worker \ {w} : txn'[v] = txn[v]
  <2>1. ASSUME NEW t, Open(w, t)
        PROVE  txn[w] = NoTxn /\ \A v \in Worker \ {w} : txn'[v] = txn[v]
    BY <2>1 DEF Open, IInv, TypeOK
  <2>2. CASE CreateBooking(w)
    BY <2>2 DEF CreateBooking, IInv, TypeOK
  <2>3. CASE ~CreateBooking(w)
    <3>1. \E t : Open(w, t)
      BY <2>3 DEF Begin, CreateHolds, ReleaseHolds, SweepExpiredHolds,
             CloseBooking, CreateManualBlock, CreateExternalReservation,
             ImportRow, CreateRecord, CancelRecord, SetAvailability,
             UpdateCalendarEntry, EditCalendar
    <3> QED BY <2>1, <3>1
  <2> QED BY <2>2, <2>3
<1>3. ASSUME txn'[w].op = "hold"
      PROVE  HoldInProgress(w)'
  <2>1. CreateHolds(w)
    BY <1>3, BeginOps
  <2>2. PICK user \in User, request \in HoldRequests :
          Open(w, [NoTxn EXCEPT !.op = "hold", !.user = user,
                                !.stays = request])
    BY <2>1 DEF CreateHolds
  <2>3. request \subseteq Stay /\ IsFiniteSet(request)
    BY RequestAssumption
  <2>4. PICK todo \in SetToSeqs(request) :
          /\ txn'[w].stays = request /\ txn'[w].todo = todo
          /\ txn'[w].status = "KEEP"
          /\ todo # <<>> => txn'[w].day = Head(todo).from
    BY <2>2 DEF Open, NoTxn, IInv, TypeOK
  <2>5. todo \in Seq(Stay)
    BY <2>3, OrderIsSequence
  <2>6. ASSUME NEW stay \in request, NEW s \in Slot, Consumes(stay, s)
        PROVE  Pending(txn'[w], s)
    <3>1. PICK i \in 1 .. Len(todo) : todo[i] = stay
      BY <2>3, OrderIsOnto
    <3>2. i = 1 => txn'[w].day = stay.from
      BY <2>4, <2>5, <3>1
    <3>3. stay.from <= s[2]
      BY <2>3, <2>6, NightsAreInt DEF Consumes, Stay, Slot, Day
    <3> QED BY <2>4, <2>6, <3>1, <3>2, <3>3 DEF Pending
  <2>7. \A s \in Slot : lockedBy'[s] # w
    BY <1>1, <1>2 DEF OpenInv, IdleHasNoLock, NoTxn
  <2> QED BY <2>4, <2>6, <2>7 DEF HoldInProgress
<1>4. \A v \in Worker \ {w} :
        /\ HoldInProgress(v) => HoldInProgress(v)'
        /\ txn'[v] = txn[v]
  BY <1>1, <1>2, HoldFrame
<1>5. txn'[w].op # "idle"
  BY BeginOps
<1> QED BY <1>1, <1>3, <1>4, <1>5 DEF OpenInv, CleanRows, IdleHasNoLock

\* Writing a row passes one slot; the row written was not BLOCKED.
LEMMA WriteRowKeepsOpenInv ==
    ASSUME IInv, OpenInv, NEW w \in Worker, WriteRow(w)
    PROVE  OpenInv'
<1> DEFINE n == NextSlot(w)
<1>1. /\ lockedBy[n] \in {NoWorker, w} /\ txn[w].todo # <<>>
      /\ txn[w] \in Txn /\ txn[w].op # "idle"
  BY DEF WriteRow, CanLock, OpenInv, IdleHasNoLock, IInv, TypeOK
<1>2. /\ lockedBy' = [lockedBy EXCEPT ![n] = w]
      /\ txn' = [txn EXCEPT ![w] = Advance(txn[w])]
      /\ calendar' = calendar
  BY DEF WriteRow
<1>3. lockedBy \in [Slot -> Worker \cup {NoWorker}]
      /\ draft \in [Slot -> CalendarRow] /\ txn \in [Worker -> Txn]
  BY DEF IInv, TypeOK
<1>4. \A s \in Slot \ {n} : draft'[s] = draft[s]
  BY <1>3 DEF WriteRow
<1>5. CleanRows'
  BY <1>2, <1>3, <1>4, NobodyAssumption DEF OpenInv, CleanRows
<1>6. \A v \in Worker \ {w} : txn'[v] = txn[v]
  BY <1>2, <1>3
<1>7. /\ Advance(txn[w]).op = txn[w].op
      /\ Advance(txn[w]).status = txn[w].status
      /\ Advance(txn[w]).stays = txn[w].stays
  BY <1>1 DEF Advance, Txn
<1>8. IdleHasNoLock'
  BY <1>1, <1>2, <1>3, <1>6, <1>7 DEF OpenInv, IdleHasNoLock
<1>9. ASSUME NEW v \in Worker \ {w}, HoldInProgress(v)
      PROVE  HoldInProgress(v)'
  <2>1. /\ \A s \in Slot : lockedBy'[s] = v <=> lockedBy[s] = v
        /\ \A s \in Slot : lockedBy[s] = v => s # n
    BY <1>1, <1>2, <1>3, NobodyAssumption
  <2> QED BY <1>2, <1>4, <1>6, <1>9, <2>1, HoldFrame
<1>10. ASSUME txn[w].op = "hold"
       PROVE  HoldInProgress(w)'
  <2>1. HoldInProgress(w)
    BY <1>10 DEF OpenInv
  <2>2. n \in Slot => draft'[n].status = draft[n].status
                      /\ draft[n].status = calendar[n].status
                      /\ draft'[n].status # "BLOCKED"
    <3> SUFFICES ASSUME n \in Slot
                 PROVE  /\ draft'[n].status = draft[n].status
                        /\ draft[n].status = calendar[n].status
                        /\ draft'[n].status # "BLOCKED"
      OBVIOUS
    <3>1. draft[n].status = calendar[n].status
      BY <1>1, <2>1 DEF OpenInv, CleanRows, HoldInProgress
    <3>2. draft'[n].status = draft[n].status
      BY <1>3, <2>1 DEF WriteRow, HoldInProgress
    <3>3. draft[n].status # "BLOCKED"
      BY <1>10 DEF WriteRow, Admissible
    <3> QED BY <3>1, <3>2, <3>3
  <2>3. \A s \in Slot : lockedBy'[s] = w =>
          draft'[s].status = calendar'[s].status
    BY <1>2, <1>3, <1>4, <2>1, <2>2 DEF HoldInProgress
  <2>4. ASSUME NEW stay \in txn[w].stays, NEW s \in Slot, Consumes(stay, s)
        PROVE  \/ Pending(txn'[w], s)
               \/ lockedBy'[s] = w /\ draft'[s].status # "BLOCKED"
    <3>1. CASE s = n
      BY <1>2, <1>3, <2>2, <3>1
    <3>2. CASE s # n /\ Pending(txn[w], s)
      <4>1. Pending(Advance(txn[w]), s)
        BY <1>1, <1>10, <3>2, AdvancePassesOneSlot DEF NextSlot
      <4> QED BY <1>2, <1>3, <4>1
    <3>3. CASE s # n /\ ~Pending(txn[w], s)
      <4>1. lockedBy[s] = w /\ draft[s].status # "BLOCKED"
        BY <2>1, <2>4, <3>3 DEF HoldInProgress
      <4> QED BY <1>2, <1>3, <1>4, <3>3, <4>1
    <3> QED BY <3>1, <3>2, <3>3
  <2>5. txn'[w].status = "KEEP" /\ txn'[w].stays = txn[w].stays
    BY <1>2, <1>3, <1>7, <2>1 DEF HoldInProgress
  <2> QED BY <2>3, <2>4, <2>5 DEF HoldInProgress
<1>11. txn'[w].op = txn[w].op
  BY <1>2, <1>3, <1>7
<1> QED BY <1>5, <1>6, <1>8, <1>9, <1>10, <1>11 DEF OpenInv

\* A commit or a rollback ends one transaction and frees its rows; the rows of
\* the others are not touched.
LEMMA EndKeepsOpenInv ==
    ASSUME IInv, OpenInv, NEW w \in Worker, Publish(w) \/ RollBack(w)
    PROVE  OpenInv'
<1>1. /\ txn' = [txn EXCEPT ![w] = NoTxn] /\ txn \in [Worker -> Txn]
      /\ \A s \in Slot : lockedBy'[s] = IF lockedBy[s] = w THEN NoWorker
                                        ELSE lockedBy[s]
  BY DEF Publish, RollBack, Unlocked, IInv, TypeOK
<1>2. \A s \in Slot : IF lockedBy[s] = w THEN calendar'[s] = draft'[s]
                      ELSE calendar'[s] = calendar[s] /\ draft'[s] = draft[s]
  BY DEF Publish, RollBack
<1>3. CleanRows'
  BY <1>1, <1>2 DEF OpenInv, CleanRows
<1>4. IdleHasNoLock'
  BY <1>1, NobodyAssumption DEF OpenInv, IdleHasNoLock, NoTxn
<1>5. ASSUME NEW v \in Worker \ {w}, HoldInProgress(v)
      PROVE  HoldInProgress(v)'
  <2>1. /\ txn'[v] = txn[v]
        /\ \A s \in Slot : lockedBy'[s] = v <=> lockedBy[s] = v
    BY <1>1, NobodyAssumption
  <2>2. \A s \in Slot : lockedBy[s] = v =>
          draft'[s] = draft[s] /\ calendar'[s] = calendar[s]
    BY <1>2
  <2> QED BY <1>5, <2>1, <2>2, HoldFrame
<1>6. txn'[w].op = "idle" /\ \A v \in Worker \ {w} : txn'[v] = txn[v]
  BY <1>1 DEF NoTxn
<1> QED BY <1>3, <1>4, <1>5, <1>6 DEF OpenInv

\* Every step keeps the invariant about open transactions.
LEMMA StepOpenInv == IInv /\ OpenInv /\ [Next]_vars => OpenInv'
<1> SUFFICES ASSUME IInv, OpenInv, [Next]_vars PROVE OpenInv'
  OBVIOUS
<1>1. ASSUME NEW w \in Worker, Finish(w) \/ LoseTransaction(w)
      PROVE  OpenInv'
  <2>1. Publish(w) \/ RollBack(w)
    BY <1>1 DEF Finish, LoseTransaction, CommitHolds, CommitRelease,
       CommitBooking, CommitClose, CommitRecord, CommitCancel, CommitEdit,
       Refuse, ImportRowFails, DeadlockVictim
  <2> QED BY <2>1, EndKeepsOpenInv
<1>2. CASE UNCHANGED <<calendar, draft, lockedBy, txn>>
  BY <1>2, HoldFrame DEF OpenInv, CleanRows, IdleHasNoLock
<1>3. CASE \/ HoldExpires \/ CreateBlackout \/ UpdateBlackout
           \/ DeleteBlackout \/ UNCHANGED vars
  BY <1>2, <1>3 DEF HoldExpires, CreateBlackout, UpdateBlackout,
                    DeleteBlackout, vars
<1>4. CASE RemoveCalendarEntry
  <2>1. PICK r \in RemovableSlots :
          /\ lockedBy[r] = NoWorker /\ calendar'[r] = draft'[r]
          /\ \A s \in Slot \ {r} :
                calendar'[s] = calendar[s] /\ draft'[s] = draft[s]
          /\ UNCHANGED <<lockedBy, txn>>
    BY <1>4, RequestAssumption DEF RemoveCalendarEntry, IInv, TypeOK
  <2>2. \A v \in Worker : HoldInProgress(v) => HoldInProgress(v)'
    BY <2>1, NobodyAssumption, HoldFrame
  <2> QED BY <2>1, <2>2 DEF OpenInv, CleanRows, IdleHasNoLock
<1> QED BY <1>1, <1>3, <1>4, BeginKeepsOpenInv, WriteRowKeepsOpenInv DEF Next

-----------------------------------------------------------------------------
(* The theorem *)

\* What the commit grants is what its locks have protected since they checked.
LEMMA GrantedOnOpenDays ==
    ASSUME IInv, OpenInv, NEW w \in Worker, CommitHolds(w),
           NEW h \in holds' \ holds, NEW s \in Slot, Consumes(h, s)
    PROVE  calendar[s].status # "BLOCKED"
<1>1. PICK stay \in txn[w].stays :
        h.unit = stay.unit /\ h.from = stay.from /\ h.to = stay.to
  BY DEF CommitHolds, HoldRows
<1>2. Consumes(stay, s)
  BY <1>1 DEF Consumes, LastNight
<1>3. HoldInProgress(w) /\ ~Pending(txn[w], s)
  BY DEF CommitHolds, ReadyToCommit, OpenInv, Pending
<1> QED BY <1>2, <1>3 DEF HoldInProgress

\* Every hold ever granted covers only days that are not BLOCKED at the moment
\* it is granted, however edits, other requests and rollbacks interleave.
THEOREM OpenDaysOnly == Spec => HoldsOnlyOnOpenDays
<1> DEFINE New == \A h \in holds' : h.id \notin {g.id : g \in holds} =>
                     \A s \in Slot : Consumes(h, s) =>
                        calendar[s].status # "BLOCKED"
<1>1. Init => OpenInv
  <2> SUFFICES ASSUME Init PROVE OpenInv
    OBVIOUS
  <2>1. \A w \in Worker : txn[w] = NoTxn
    BY DEF Init
  <2> QED BY <2>1, NobodyAssumption
          DEF Init, NoTxn, OpenInv, CleanRows, IdleHasNoLock
<1>2. IInv /\ OpenInv /\ [Next]_vars => [New]_vars
  <2> SUFFICES ASSUME IInv, OpenInv, Next PROVE New
    BY DEF vars
  <2>1. CASE \E w \in Worker : CommitHolds(w)
    BY <2>1, GrantedOnOpenDays
  <2>2. CASE HoldExpires
    <3>1. \A h \in holds' : h.id \in {g.id : g \in holds}
      BY <2>2 DEF HoldExpires, IInv, TypeOK, Hold
    <3> QED BY <3>1
  <2>3. CASE ~HoldExpires /\ ~\E w \in Worker : CommitHolds(w)
    <3>1. holds' \subseteq holds
      <4>1. CASE \E w \in Worker : Begin(w)
        BY <4>1 DEF Begin, CreateHolds, ReleaseHolds, CreateBooking,
           SweepExpiredHolds, CloseBooking, CreateManualBlock,
           CreateExternalReservation, ImportRow, CreateRecord, CancelRecord,
           SetAvailability, UpdateCalendarEntry, EditCalendar, tables
      <4>2. CASE \E w \in Worker : Finish(w)
        BY <2>3, <4>2 DEF Finish, CommitRelease, CommitBooking, CommitClose,
           CommitRecord, CommitCancel, CommitEdit, Refuse, ImportRowFails,
           DeadlockVictim, RollBack, WithoutRows, tables
      <4>3. CASE \E w \in Worker : WriteRow(w) \/ LoseTransaction(w)
        BY <4>3 DEF WriteRow, LoseTransaction, RollBack, tables
      <4>4. CASE \/ RemoveCalendarEntry \/ CreateBlackout \/ UpdateBlackout
                 \/ DeleteBlackout
        BY <4>4 DEF RemoveCalendarEntry, CreateBlackout, UpdateBlackout,
                    DeleteBlackout, tables
      <4> QED BY <2>3, <4>1, <4>2, <4>3, <4>4 DEF Next
    <3> QED BY <3>1
  <2> QED BY <2>1, <2>2, <2>3
<1>3. Spec => []OpenInv
  BY <1>1, Invariance, StepOpenInv, PTL DEF Spec
<1>4. HoldsOnlyOnOpenDays <=> [][New]_vars
  BY DEF HoldsOnlyOnOpenDays
<1> HIDE DEF New
<1> QED BY <1>2, <1>3, <1>4, Invariance, PTL DEF Spec
=============================================================================
