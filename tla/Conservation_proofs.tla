------------------------ MODULE Conservation_proofs ------------------------
(***************************************************************************)
(* The books of the capacity engine balance.  A calendar row and the       *)
(* tables together account for at least the capacity of a unit whatever    *)
(* races (CapacityIsNeverLost), and for exactly that when no two open      *)
(* transactions have read the same row (BooksBalance); the engine then     *)
(* implements Inventory (SerialImplementsInventory).                       *)
(*                                                                         *)
(* The argument needs to know, of every open transaction, what it has      *)
(* written so far (WriteInv), and that what it has read is still about the *)
(* rows of the tables (TablesInv); from these, each commit moves as much   *)
(* in the calendar as in the tables (StepBalance).                         *)
(***************************************************************************)
EXTENDS Availability_proofs, Sums_proofs, AvailabilityRefinement

\* No calendar edit asks for less than the unit has, ...
EditsNeverLower ==
    \A edit \in EditRequests : edit.quantity >= Capacity[edit.unit]

\* ... and none changes what there is to sell.
TotalsStay ==
    /\ \A edit \in EditRequests : edit.quantity = Capacity[edit.unit]
    /\ RemovableSlots = {}

-----------------------------------------------------------------------------
(* What an open transaction has written *)

\* The days of its range that a transaction writes for a stay.
Covers(op, stay, s) ==
    s[1] = stay.unit /\ s[2] \in stay.from .. LastDay(op, stay)

\* The cursor has not reached that day of the stay yet.
Awaits(t, stay, s) == \E i \in 1 .. Len(t.todo) :
    t.todo[i] = stay /\ (i = 1 => t.day <= s[2])

\* The stays for which a transaction has written the row.
Done(t, s) ==
    {stay \in t.stays : Covers(t.op, stay, s) /\ ~Awaits(t, stay, s)}

Quantity == [stay \in Stay |-> stay.quantity]
Moved(t, s) == SumOver(Quantity, Done(t, s))

\* Each stay is to be written once, from its first day to its last.
Cursor(t) ==
    /\ \A i, j \in 1 .. Len(t.todo) : t.todo[i] = t.todo[j] => i = j
    /\ \A i \in 1 .. Len(t.todo) : t.todo[i] \in t.stays
    /\ t.todo # <<>> =>
          /\ t.todo[1].from <= t.day
          /\ t.day <= LastDay(t.op, t.todo[1])

\* What is not committed of a row is what its transaction has written of its
\* stays, and every row that it has written is locked.
DraftOf(w, s) ==
    LET t == txn[w] IN
    /\ t.op \in Consuming =>
          draft[s].quantity = calendar[s].quantity - Moved(t, s)
    /\ t.op \in Restoring =>
          draft[s].quantity = calendar[s].quantity + Moved(t, s)
    /\ t.op \in Editing /\ EditsNeverLower =>
          draft[s].quantity >= calendar[s].quantity
    /\ t.op \in Editing /\ TotalsStay =>
          draft[s].quantity = calendar[s].quantity

Written(w) ==
    /\ Cursor(txn[w])
    /\ \A s \in Slot : lockedBy[s] = w => DraftOf(w, s)
    /\ txn[w].op \in Consuming \cup Restoring =>
          \A s \in Slot : lockedBy[s] # w => Done(txn[w], s) = {}
    /\ txn[w].op = "book" => txn[w].todo = <<>>
    /\ txn[w].op \in {"book", "idle"} => \A s \in Slot : lockedBy[s] # w

WriteInv == \A w \in Worker : Written(w)

-----------------------------------------------------------------------------
(* What the tables and the open transactions say of each other *)

\* A hold row is of the request and of the stay that its id names.
IdOfHold(h) ==
    /\ h.id[1] < requests
    /\ h.id[2].unit = h.unit /\ h.id[2].from = h.from /\ h.id[2].to = h.to

Numbered(rows) ==
    /\ \A r \in rows : r.id \in 1 .. Cardinality(rows)
    /\ \A q, r \in rows : q.id = r.id => q = r

HoldsInv ==
    /\ \A h \in holds : IdOfHold(h)
    /\ \A g, h \in holds : g.id = h.id => g = h

\* A snapshot of hold rows stays a set of rows, whatever is deleted meanwhile.
SnapshotInv(t) ==
    /\ IsFiniteSet(t.rows)
    /\ \A h \in t.rows : IdOfHold(h)
    /\ \A g, h \in t.rows : g.id = h.id => g = h
    /\ t.op \in {"release", "sweep", "book"} =>
          t.stays = GroupHoldsByRange(t.rows)

TargetInv(t) ==
    /\ t.op \in {"block", "external", "import"} =>
          \E stay \in t.stays : t.stays = {stay}
    /\ t.op = "close" =>
          \E b \in bookings : b.id = t.target /\ b.items = t.stays /\ b.open
    /\ t.op = "cancel" =>
          \E r \in records : r.id = t.target /\ t.stays = {r.stay}
    /\ t.op \in Editing => t.stays \subseteq EditRequests

TablesInv ==
    /\ HoldsInv
    /\ Numbered(bookings) /\ Numbered(records)
    /\ \A w \in Worker : SnapshotInv(txn[w]) /\ TargetInv(txn[w])
    /\ \A v, w \in Worker :
          /\ txn[v].op = "close" /\ txn[w].op = "close"
          /\ txn[v].target = txn[w].target
          => v = w

\* Under SerialSpec the rows that were read are still there at the commit.
StillThere ==
    /\ \A w \in Worker : \A g \in txn[w].rows :
          \E h \in holds : h.id = g.id
    /\ \A w \in Worker : txn[w].op = "cancel" =>
          \E r \in records : r.id = txn[w].target /\ r.active

-----------------------------------------------------------------------------
(* Counting what stays, holds, bookings and records take *)

\* The fold over stays is a sum.
LEMMA StayFold ==
    ASSUME NEW S \in SUBSET Stay, IsFiniteSet(S)
    PROVE  MapThenSumSet(LAMBDA stay : stay.quantity, S) = SumOver(Quantity, S)
<1> DEFINE f == Quantity
           A(h) == [u \in SUBSET S |->
                      IF u = {} THEN 0
                      ELSE (CHOOSE stay \in u : TRUE).quantity
                           + h[u \ {CHOOSE stay \in u : TRUE}]]
           g == CHOOSE h : h = A(h)
<1>1. \A stay \in S : f[stay] \in Nat
  BY DEF Quantity, Stay
<1>2. ASSUME NEW h PROVE (h = A(h)) <=> IsSum(h, f, S)
  <2>1. ASSUME NEW u \in SUBSET S, u # {}
        PROVE  f[Picked(u)] = (CHOOSE stay \in u : TRUE).quantity
    BY <2>1 DEF Picked, Quantity
  <2> HIDE DEF f
  <2>2. ASSUME NEW u \in SUBSET S
        PROVE  (IF u = {} THEN 0
                ELSE (CHOOSE stay \in u : TRUE).quantity
                     + h[u \ {CHOOSE stay \in u : TRUE}])
               = IF u = {} THEN 0 ELSE f[Picked(u)] + h[u \ {Picked(u)}]
    BY <2>1 DEF Picked
  <2>3. A(h) = [u \in SUBSET S |->
            IF u = {} THEN 0 ELSE f[Picked(u)] + h[u \ {Picked(u)}]]
    BY <2>2
  <2> HIDE DEF A
  <2> QED BY <2>3 DEF IsSum
<1>3. MapThenSumSet(LAMBDA stay : stay.quantity, S) = g[S]
  BY DEF MapThenSumSet, MapThenFoldSet
<1> HIDE DEF A, f
<1>4. g = A(g)
  BY <1>1, <1>2, SumExists
<1>5. IsSum(g, f, S)
  BY <1>2, <1>4
<1> HIDE DEF g
<1>6. g[S] = SumOver(f, S)
  BY <1>1, <1>5, SumUnique, SumIsCount
<1> QED BY <1>3, <1>6 DEF f

\* What stays take of a slot is the sum over those that consume it.
LEMMA TakenIsSum ==
    ASSUME NEW S \in SUBSET Stay, IsFiniteSet(S), NEW s
    PROVE  /\ IsFiniteSet({stay \in S : Consumes(stay, s)})
           /\ \A stay \in S : Quantity[stay] \in Nat
           /\ Taken(S, s) = SumOver(Quantity, {stay \in S : Consumes(stay, s)})
           /\ Taken(S, s) \in Nat
<1> DEFINE U == {stay \in S : Consumes(stay, s)}
<1>1. U \in SUBSET Stay /\ U \subseteq S
  OBVIOUS
<1>2. IsFiniteSet(U)
  BY <1>1, FS_Subset
<1>3. \A stay \in Stay : Quantity[stay] \in Nat
  BY DEF Quantity, Stay
<1>4. Taken(S, s) = MapThenSumSet(LAMBDA stay : stay.quantity, U)
  BY DEF Taken
<1> HIDE DEF U
<1>5. Taken(S, s) = SumOver(Quantity, U)
  BY <1>1, <1>2, <1>4, StayFold
<1>6. SumOver(Quantity, U) \in Nat
  BY <1>1, <1>2, <1>3, SumType
<1> QED BY <1>2, <1>3, <1>5, <1>6 DEF U

\* No stay takes nothing.
LEMMA TakenOfNone == ASSUME NEW s PROVE Taken({}, s) = 0
<1>1. {stay \in {} : Consumes(stay, s)} = {}
  OBVIOUS
<1>2. IsFiniteSet({})
  BY FS_EmptySet
<1>3. Taken({}, s) = SumOver(Quantity, {stay \in {} : Consumes(stay, s)})
  BY <1>2, TakenIsSum
<1> QED BY <1>1, <1>3, SumEmpty

\* Another stay takes its quantity of the slots it consumes.
LEMMA TakenAdd ==
    ASSUME NEW S \in SUBSET Stay, IsFiniteSet(S), NEW x \in Stay, x \notin S,
           NEW s
    PROVE  Taken(S \cup {x}, s) =
              Taken(S, s) + (IF Consumes(x, s) THEN x.quantity ELSE 0)
<1> DEFINE U == {stay \in S : Consumes(stay, s)}
           V == {stay \in S \cup {x} : Consumes(stay, s)}
<1>1. S \cup {x} \in SUBSET Stay /\ IsFiniteSet(S \cup {x})
  BY FS_AddElement
<1>2. /\ IsFiniteSet(U) /\ Taken(S, s) = SumOver(Quantity, U)
      /\ Taken(S, s) \in Nat
  BY TakenIsSum
<1>3. Taken(S \cup {x}, s) = SumOver(Quantity, V)
  BY <1>1, TakenIsSum
<1>4. x \notin U /\ \A y \in U \cup {x} : Quantity[y] \in Nat
  BY DEF Quantity, Stay
<1>5. Quantity[x] = x.quantity
  BY DEF Quantity
<1>6. CASE Consumes(x, s)
  <2>1. V = U \cup {x}
    BY <1>6
  <2> HIDE DEF U, V
  <2>2. SumOver(Quantity, U \cup {x}) = SumOver(Quantity, U) + Quantity[x]
    BY <1>2, <1>4, SumAdd
  <2> QED BY <1>2, <1>3, <1>5, <1>6, <2>1, <2>2
<1>7. CASE ~Consumes(x, s)
  <2>1. V = U
    BY <1>7
  <2> HIDE DEF U, V
  <2> QED BY <1>2, <1>3, <1>7, <2>1
<1> QED BY <1>6, <1>7

\* One stay takes its quantity of the slots it consumes.
LEMMA TakenOfOne ==
    ASSUME NEW x \in Stay, NEW s
    PROVE  Taken({x}, s) = IF Consumes(x, s) THEN x.quantity ELSE 0
<1>1. Taken({} \cup {x}, s) =
         Taken({}, s) + (IF Consumes(x, s) THEN x.quantity ELSE 0)
  BY FS_EmptySet, TakenAdd
<1>2. x.quantity \in Nat
  BY DEF Stay
<1> QED BY <1>1, <1>2, TakenOfNone

\* The groups of hold rows take what the rows take.
LEMMA GroupsTakeTheirRows ==
    ASSUME NEW rows \in SUBSET Hold, IsFiniteSet(rows), NEW s
    PROVE  Taken(GroupHoldsByRange(rows), s) =
              Cardinality({h \in rows : Consumes(h, s)})
<1> DEFINE N(U) == {h \in U : Consumes(h, s)}
           Class(U, x) == {g \in U : SameRange(g, x)}
           Group(U, x) == [unit |-> x.unit, from |-> x.from, to |-> x.to,
                           quantity |-> Cardinality(Class(U, x))]
           Bad == {U \in SUBSET rows :
                     Taken(GroupHoldsByRange(U), s) # Cardinality(N(U))}
<1> SUFFICES ASSUME Bad # {} PROVE FALSE
  OBVIOUS
<1> Bad \in SUBSET (SUBSET rows)
  OBVIOUS
<1> HIDE DEF Bad
<1>1. PICK U \in Bad : \A V \in Bad : V \subseteq U => V = U
  BY SmallestSubset
<1> USE DEF Bad
<1>2. U # {}
  <2>1. GroupHoldsByRange({}) = {} /\ N({}) = {}
    BY DEF GroupHoldsByRange
  <2> QED BY <2>1, TakenOfNone, FS_EmptySet
<1>3. PICK x \in U : TRUE
  BY <1>2
<1> DEFINE C == Class(U, x)
           V == U \ C
           e == Group(U, x)
<1>4. /\ U \subseteq Hold /\ IsFiniteSet(U) /\ IsFiniteSet(V)
      /\ IsFiniteSet(C) /\ IsFiniteSet(N(V))
  BY FS_Subset
<1>5. Taken(GroupHoldsByRange(V), s) = Cardinality(N(V))
  <2>1. x \in C
    BY <1>3 DEF SameRange
  <2>2. V # U /\ V \subseteq U /\ V \in SUBSET rows
    BY <1>3, <2>1
  <2> QED BY <1>1, <2>2
<1>6. GroupHoldsByRange(U) = {Group(U, h) : h \in U}
      /\ GroupHoldsByRange(V) = {Group(V, h) : h \in V}
  BY DEF GroupHoldsByRange
<1>7. \A h \in V : Group(V, h) = Group(U, h)
  <2> TAKE h \in V
  <2>1. Class(V, h) = Class(U, h)
    BY DEF SameRange
  <2> QED BY <2>1
<1>8. \A h \in C : Group(U, h) = e
  <2> TAKE h \in C
  <2>1. Class(U, h) = Class(U, x)
    BY DEF SameRange
  <2> QED BY <2>1 DEF SameRange
<1>9. GroupHoldsByRange(U) = GroupHoldsByRange(V) \cup {e}
  <2>1. U = V \cup C /\ x \in C
    BY <1>3 DEF SameRange
  <2> HIDE DEF C, V, e, Group
  <2> QED BY <1>6, <1>7, <1>8, <2>1
<1>10. e \notin GroupHoldsByRange(V)
  BY <1>6 DEF SameRange
<1>11. /\ GroupHoldsByRange(V) \in SUBSET Stay
       /\ GroupHoldsByRange(U) \in SUBSET Stay
       /\ IsFiniteSet(GroupHoldsByRange(V))
       /\ e \in Stay
  BY <1>4, <1>9, GroupsAreStays
<1>12. Taken(GroupHoldsByRange(U), s) = Taken(GroupHoldsByRange(V), s)
          + (IF Consumes(e, s) THEN e.quantity ELSE 0)
  <2> HIDE DEF e
  <2> QED BY <1>9, <1>10, <1>11, TakenAdd
<1>13. /\ e.quantity = Cardinality(C) /\ Cardinality(C) \in Nat
       /\ Cardinality(N(V)) \in Nat
  BY <1>4, FS_CardinalityType
<1>14. \A g \in C : Consumes(g, s) <=> Consumes(e, s)
  BY DEF SameRange, Consumes, LastNight
<1>15. CASE Consumes(e, s)
  <2>1. N(U) = N(V) \cup C /\ N(V) \cap C = {}
    BY <1>14, <1>15
  <2>2. Cardinality(N(U)) = Cardinality(N(V)) + Cardinality(C) - 0
    <3> HIDE DEF N, C
    <3> QED BY <1>4, <2>1, FS_Union, FS_EmptySet
  <2> HIDE DEF N, C, e, V
  <2> QED BY <1>1, <1>5, <1>12, <1>13, <1>15, <2>2
<1>16. CASE ~Consumes(e, s)
  <2>1. N(U) = N(V)
    BY <1>14, <1>16
  <2> HIDE DEF N, C, e, V
  <2> QED BY <1>1, <1>5, <1>12, <1>13, <1>16, <2>1
<1> QED BY <1>15, <1>16

\* The rows that are inserted for stays take what the stays take.
LEMMA HoldRowsTakeTheirStays ==
    ASSUME NEW t, t.user \in User, requests \in Nat,
           NEW stays \in SUBSET Stay, IsFiniteSet(stays), NEW s
    PROVE  Cardinality({h \in UNION {HoldRows(t, stay) : stay \in stays} :
                          Consumes(h, s)}) = Taken(stays, s)
<1> DEFINE N(U) == {h \in UNION {HoldRows(t, stay) : stay \in U} :
                      Consumes(h, s)}
           Bad == {U \in SUBSET stays : Cardinality(N(U)) # Taken(U, s)}
<1> SUFFICES ASSUME Bad # {} PROVE FALSE
  OBVIOUS
<1> Bad \in SUBSET (SUBSET stays)
  OBVIOUS
<1>a. \A U \in SUBSET stays : IsFiniteSet(N(U))
  <2> TAKE U \in SUBSET stays
  <2>1. U \subseteq Stay /\ IsFiniteSet(U)
    BY FS_Subset
  <2>2. \A stay \in U : IsFiniteSet(HoldRows(t, stay))
    BY <2>1, HoldRowsType
  <2> DEFINE rowsOf == [stay \in U |-> HoldRows(t, stay)]
  <2>3. rowsOf \in Surjection(U, {HoldRows(t, stay) : stay \in U})
    BY DEF Surjection
  <2>4. IsFiniteSet({HoldRows(t, stay) : stay \in U})
    BY <2>1, <2>3, FS_Surjection
  <2> DEFINE R == {HoldRows(t, stay) : stay \in U}
  <2>5. \A r \in R : IsFiniteSet(r)
    BY <2>2
  <2>6. N(U) \subseteq UNION R
    OBVIOUS
  <2> HIDE DEF R, N
  <2>7. IsFiniteSet(UNION R)
    BY <2>4, <2>5, FS_UNION DEF R
  <2> QED BY <2>6, <2>7, FS_Subset
<1> HIDE DEF Bad
<1>1. PICK U \in Bad : \A V \in Bad : V \subseteq U => V = U
  BY SmallestSubset
<1> USE DEF Bad
<1>2. U # {}
  <2>1. N({}) = {}
    OBVIOUS
  <2> QED BY <2>1, TakenOfNone, FS_EmptySet
<1>3. PICK x \in U : TRUE
  BY <1>2
<1> DEFINE V == U \ {x}
<1>4. /\ x \in Stay /\ V \in SUBSET Stay /\ IsFiniteSet(V) /\ x \notin V
      /\ U = V \cup {x} /\ V # U /\ V \in SUBSET stays
  BY <1>3, FS_Subset
<1>5. Cardinality(N(V)) = Taken(V, s)
  BY <1>1, <1>4
<1>6. Taken(U, s) = Taken(V, s) + (IF Consumes(x, s) THEN x.quantity ELSE 0)
  <2> HIDE DEF V
  <2> QED BY <1>4, TakenAdd
<1>7. /\ IsFiniteSet(HoldRows(t, x))
      /\ Cardinality(HoldRows(t, x)) = x.quantity
  <2> DEFINE b == [copy \in 1 .. x.quantity |->
                [id |-> <<requests, x, copy>>, user |-> t.user,
                 unit |-> x.unit, from |-> x.from, to |-> x.to,
                 expired |-> FALSE]]
  <2>1. x.quantity \in Nat
    BY <1>4 DEF Stay
  <2>2. /\ IsFiniteSet(1 .. x.quantity)
        /\ Cardinality(1 .. x.quantity) = x.quantity
    BY <2>1, FS_Interval
  <2>3. b \in Bijection(1 .. x.quantity, HoldRows(t, x))
    BY DEF Bijection, Injection, Surjection, IsInjective, HoldRows
  <2>4. ExistsBijection(1 .. x.quantity, HoldRows(t, x))
    BY <2>3 DEF ExistsBijection
  <2> QED BY <2>2, <2>4, FS_Bijection
<1>8. \A h \in HoldRows(t, x) : /\ h.id[2] = x
                                /\ Consumes(h, s) <=> Consumes(x, s)
  BY DEF HoldRows, Consumes, LastNight
<1>9. \A h \in N(V) : h.id[2] \in V
  BY DEF HoldRows
<1>10. /\ IsFiniteSet(N(V)) /\ Cardinality(N(V)) \in Nat
       /\ Taken(V, s) \in Nat /\ x.quantity \in Nat
  BY <1>a, <1>4, <1>5, FS_CardinalityType DEF Stay
<1>11. CASE Consumes(x, s)
  <2>1. N(U) = N(V) \cup HoldRows(t, x)
    <3>1. \A h : h \in N(U) <=> h \in N(V) \cup HoldRows(t, x)
      BY <1>4, <1>8, <1>11
    <3> HIDE DEF N
    <3> QED BY <3>1
  <2>2. N(V) \cap HoldRows(t, x) = {}
    BY <1>4, <1>8, <1>9
  <2> HIDE DEF N, V
  <2>3. Cardinality(N(U)) = Cardinality(N(V)) + Cardinality(HoldRows(t, x)) - 0
    BY <1>7, <1>10, <2>1, <2>2, FS_Union, FS_EmptySet
  <2> QED BY <1>1, <1>5, <1>6, <1>7, <1>10, <1>11, <2>3
<1>12. CASE ~Consumes(x, s)
  <2>1. N(U) = N(V)
    <3>1. \A h : h \in N(U) <=> h \in N(V)
      BY <1>4, <1>8, <1>12
    <3> HIDE DEF N
    <3> QED BY <3>1
  <2> HIDE DEF N, V
  <2> QED BY <1>1, <1>5, <1>6, <1>10, <1>12, <2>1
<1> QED BY <1>11, <1>12

-----------------------------------------------------------------------------
(* Writing the rows of a transaction *)

\* Every stay lasts until its last day at least.
LEMMA DaysOfStay ==
    ASSUME NEW stay \in Stay, NEW op
    PROVE  /\ LastDay(op, stay) \in Int /\ stay.from <= LastDay(op, stay)
           /\ LastDay(op, stay) <= stay.to
           /\ stay.from .. LastDay(op, stay) \subseteq Day
BY BoundAssumption DEF LastDay, LastNight, Stay, Day

\* A transaction over whose rows nothing happens stays as it is.
LEMMA WrittenFrame ==
    ASSUME NEW v \in Worker, Written(v), txn'[v] = txn[v],
           \A s \in Slot : lockedBy'[s] = v <=> lockedBy[s] = v,
           \A s \in Slot : lockedBy[s] = v =>
              draft'[s] = draft[s] /\ calendar'[s] = calendar[s]
    PROVE  Written(v)'
<1>1. Cursor(txn[v]) /\ Cursor(txn'[v])
  BY DEF Written
<1>2. \A s \in Slot : lockedBy'[s] = v => DraftOf(v, s)'
  BY DEF Written, DraftOf
<1> QED BY <1>1, <1>2 DEF Written

\* A transaction whose rows are all still to be written, in some order.
Started(t) ==
    /\ t.op \notin {"book", "idle"}
    /\ \E todo \in SetToSeqs(t.stays) :
          /\ t.todo = todo
          /\ t.day = IF todo = <<>> THEN 0 ELSE Head(todo).from

\* Every operation but createBooking starts to write the rows of its stays.
LEMMA BeginStarts ==
    ASSUME IInv, NEW w \in Worker, Begin(w), ~CreateBooking(w)
    PROVE  Started(txn'[w])
<1> USE DEF Open, NoTxn, Started
<1>0. txn \in [Worker -> Txn]
  BY DEF IInv, TypeOK
<1>1. ASSUME NEW user, NEW request,
             Open(w, [NoTxn EXCEPT !.op = "hold", !.user = user,
                                   !.stays = request])
      PROVE  Started(txn'[w])
  BY <1>0, <1>1
<1>2. ASSUME NEW op \in {"release", "sweep"}, NEW rows, NEW stays,
             Open(w, [NoTxn EXCEPT !.op = op, !.rows = rows,
                                   !.stays = stays])
      PROVE  Started(txn'[w])
  BY <1>0, <1>2
<1>3. ASSUME NEW op \in {"close", "cancel"}, NEW target, NEW stays,
             Open(w, [NoTxn EXCEPT !.op = op, !.target = target,
                                   !.stays = stays])
      PROVE  Started(txn'[w])
  BY <1>0, <1>3
<1>4. ASSUME NEW kind \in {"block", "external", "import"}, NEW stay,
             Open(w, [NoTxn EXCEPT !.op = kind, !.stays = {stay}])
      PROVE  Started(txn'[w])
  BY <1>0, <1>4
<1>5. ASSUME NEW op \in Editing, NEW edit, NEW status,
             Open(w, [NoTxn EXCEPT !.op = op, !.stays = {edit},
                                   !.status = status])
      PROVE  Started(txn'[w])
  BY <1>0, <1>5 DEF Editing
<1> HIDE DEF Open, NoTxn, Started
<1>6. CASE CreateHolds(w)
  BY <1>1, <1>6 DEF CreateHolds
<1>7. CASE ReleaseHolds(w) \/ SweepExpiredHolds(w)
  BY <1>2, <1>7 DEF ReleaseHolds, SweepExpiredHolds
<1>8. CASE CloseBooking(w) \/ CancelRecord(w)
  BY <1>3, <1>8 DEF CloseBooking, CancelRecord
<1>9. CASE \/ CreateManualBlock(w) \/ CreateExternalReservation(w)
           \/ ImportRow(w)
  BY <1>4, <1>9 DEF CreateManualBlock, CreateExternalReservation,
     ImportRow, CreateRecord
<1>10. CASE SetAvailability(w) \/ UpdateCalendarEntry(w)
  BY <1>5, <1>10 DEF SetAvailability, UpdateCalendarEntry, EditCalendar
<1> QED BY <1>6, <1>7, <1>8, <1>9, <1>10 DEF Begin

\* A transaction that opens has written nothing.
LEMMA StartedWroteNothing ==
    ASSUME NEW u \in Txn, IsFiniteSet(u.stays), Started(u)
    PROVE  Cursor(u) /\ \A s \in Slot : Done(u, s) = {}
<1> DEFINE todo == u.todo
           stays == u.stays
<1>1. stays \subseteq Stay
  BY DEF Txn
<1>2. /\ todo \in SetToSeqs(stays)
      /\ u.day = IF todo = <<>> THEN 0 ELSE Head(todo).from
  BY DEF Started
<1>3. todo \in Seq(Stay)
  BY <1>1, <1>2, OrderIsSequence
<1>4. /\ \A i, j \in 1 .. Len(todo) : todo[i] = todo[j] => i = j
      /\ \A i \in 1 .. Len(todo) : todo[i] \in stays
  <2>1. Cardinality(stays) \in Nat
    BY FS_CardinalityType
  <2>2. todo \in [1 .. Cardinality(stays) -> stays]
        /\ \A i, j \in 1 .. Cardinality(stays) : todo[i] = todo[j] => i = j
    BY <1>2 DEF SetToSeqs, IsInjective
  <2>3. Len(todo) = Cardinality(stays)
    BY <2>1, <2>2
  <2> QED BY <2>2, <2>3
<1>5. todo # <<>> => /\ todo[1] \in Stay /\ u.day = todo[1].from
  BY <1>2, <1>3
<1>6. Cursor(u)
  <2>1. todo # <<>> => /\ todo[1].from <= u.day
                       /\ u.day <= LastDay(u.op, todo[1])
    BY <1>5, DaysOfStay DEF Stay, Day
  <2> QED BY <1>4, <2>1 DEF Cursor
<1>7. ASSUME NEW s \in Slot, NEW stay \in Done(u, s)
      PROVE  FALSE
  <2>1. stay \in stays /\ Covers(u.op, stay, s) /\ ~Awaits(u, stay, s)
    BY <1>7 DEF Done
  <2>2. PICK i \in 1 .. Len(todo) : todo[i] = stay
    BY <1>2, <2>1, OrderIsOnto
  <2>3. stay.from <= s[2]
    BY <2>1 DEF Covers
  <2>4. i = 1 => u.day = stay.from
    BY <1>3, <1>5, <2>2
  <2> QED BY <2>1, <2>2, <2>3, <2>4 DEF Awaits
<1> QED BY <1>6, <1>7

\* Beginning a transaction writes nothing.
LEMMA BeginKeepsWriteInv ==
    ASSUME IInv, OpenInv, WriteInv, NEW w \in Worker, Begin(w)
    PROVE  WriteInv'
<1>1. UNCHANGED <<calendar, draft, lockedBy>>
  BY DEF Begin, CreateHolds, ReleaseHolds, CreateBooking, SweepExpiredHolds,
         CloseBooking, CreateManualBlock, CreateExternalReservation, ImportRow,
         CreateRecord, CancelRecord, SetAvailability, UpdateCalendarEntry,
         EditCalendar
<1>2. txn \in [Worker -> Txn]
  BY DEF IInv, TypeOK
<1>3. \A s \in Slot : lockedBy'[s] # w
  <2>1. txn[w] = NoTxn
    <3>1. ASSUME NEW t, Open(w, t) PROVE txn[w] = NoTxn
      BY <3>1 DEF Open
    <3> QED BY <3>1 DEF Begin, CreateHolds, ReleaseHolds, CreateBooking,
           SweepExpiredHolds, CloseBooking, CreateManualBlock,
           CreateExternalReservation, ImportRow, CreateRecord, CancelRecord,
           SetAvailability, UpdateCalendarEntry, EditCalendar
  <2> QED BY <1>1, <2>1 DEF OpenInv, IdleHasNoLock, NoTxn
<1>4. (\A v \in Worker \ {w} : txn'[v] = txn[v]) /\ Written(w)'
  <2>1. CASE CreateBooking(w)
    <3>1. PICK rows, stays :
            txn' = [txn EXCEPT ![w] = [NoTxn EXCEPT !.op = "book",
                                         !.rows = rows, !.stays = stays]]
      BY <2>1 DEF CreateBooking
    <3>2. /\ \A v \in Worker \ {w} : txn'[v] = txn[v]
          /\ txn'[w].op = "book" /\ txn'[w].todo = <<>>
      BY <1>2, <3>1 DEF NoTxn
    <3> QED BY <1>3, <3>2 DEF Written, Cursor, Consuming, Restoring
  <2>2. CASE ~CreateBooking(w)
    <3>1. \E t : Open(w, t)
      BY <2>2 DEF Begin, CreateHolds, ReleaseHolds, SweepExpiredHolds,
             CloseBooking, CreateManualBlock, CreateExternalReservation,
             ImportRow, CreateRecord, CancelRecord, SetAvailability,
             UpdateCalendarEntry, EditCalendar
    <3>2. \A v \in Worker \ {w} : txn'[v] = txn[v]
      BY <1>2, <3>1 DEF Open
    <3>3. Started(txn'[w])
      BY <2>2, BeginStarts
    <3>4. txn'[w] \in Txn /\ IsFiniteSet(txn'[w].stays)
      BY BeginKeepsIInv DEF IInv, TypeOK, FiniteRows, WellFormed
    <3>5. Cursor(txn'[w]) /\ \A s \in Slot : Done(txn'[w], s) = {}
      BY <3>3, <3>4, StartedWroteNothing
    <3> QED BY <1>3, <3>2, <3>3, <3>5 DEF Written, Started
  <2> QED BY <2>1, <2>2
<1>5. ASSUME NEW v \in Worker \ {w} PROVE Written(v)'
  BY <1>1, <1>4, WrittenFrame DEF WriteInv
<1> QED BY <1>4, <1>5 DEF WriteInv

\* The cursor passes one stay of one slot.
LEMMA AdvanceAwaits ==
    ASSUME NEW t \in Txn, Cursor(t), t.todo # <<>>, NEW s \in Slot, NEW stay,
           Covers(t.op, stay, s)
    PROVE  Awaits(Advance(t), stay, s) <=>
              /\ Awaits(t, stay, s)
              /\ ~(stay = Head(t.todo) /\ s = <<Head(t.todo).unit, t.day>>)
<1> DEFINE H == Head(t.todo)
<1>1. /\ t.todo \in Seq(Stay) /\ t.day \in Int /\ H = t.todo[1]
      /\ \A j \in 1 .. Len(t.todo) : t.todo[j] \in Stay
      /\ 1 \in 1 .. Len(t.todo)
  BY DEF Txn
<1>2. s[1] \in Unit /\ s[2] \in Int /\ s = <<s[1], s[2]>>
  BY DEF Slot, Day
<1>3. LastDay(t.op, H) \in Int
  BY <1>1, DaysOfStay
<1>4. /\ \A i \in 1 .. Len(t.todo) : t.todo[i] = H => i = 1
      /\ t.day <= LastDay(t.op, H)
  BY <1>1 DEF Cursor
<1>5. stay = H => s[1] = H.unit /\ s[2] <= LastDay(t.op, H)
  BY <1>2, <1>3 DEF Covers
<1>6. CASE t.day < LastDay(t.op, H)
  <2>1. Advance(t).todo = t.todo /\ Advance(t).day = t.day + 1
    BY <1>6 DEF Advance, Txn
  <2>2. ASSUME NEW i \in 1 .. Len(t.todo), t.todo[i] = stay
        PROVE  (i = 1 => t.day + 1 <= s[2]) <=>
                  /\ (i = 1 => t.day <= s[2])
                  /\ ~(stay = H /\ s = <<H.unit, t.day>>)
    BY <1>1, <1>2, <1>4, <1>5, <2>2
  <2> QED BY <2>1, <2>2 DEF Awaits
<1>7. CASE ~(t.day < LastDay(t.op, H))
  <2>1. /\ Advance(t).todo = Tail(t.todo)
        /\ Advance(t).day = IF Tail(t.todo) = <<>> THEN 0
                            ELSE Head(Tail(t.todo)).from
    BY <1>7 DEF Advance, Txn
  <2>2. /\ Len(Tail(t.todo)) = Len(t.todo) - 1
        /\ \A j \in 1 .. Len(Tail(t.todo)) : Tail(t.todo)[j] = t.todo[j + 1]
        /\ Tail(t.todo) \in Seq(Stay) /\ Len(t.todo) \in Nat
    BY <1>1
  <2>3. ASSUME NEW j \in 1 .. Len(Tail(t.todo)), t.todo[j + 1] = stay, j = 1
        PROVE  Advance(t).day <= s[2]
    <3>1. Tail(t.todo) # <<>> /\ Head(Tail(t.todo)) = Tail(t.todo)[1]
      BY <2>2, <2>3, HeadIsFirst
    <3>2. Advance(t).day = stay.from
      BY <2>1, <2>2, <2>3, <3>1
    <3> QED BY <3>2 DEF Covers
  <2>4. Awaits(Advance(t), stay, s) <=>
           \E j \in 1 .. Len(Tail(t.todo)) : t.todo[j + 1] = stay
    BY <2>1, <2>2, <2>3 DEF Awaits
  <2>5. (\E j \in 1 .. Len(Tail(t.todo)) : t.todo[j + 1] = stay) <=>
           \E i \in 1 .. Len(t.todo) : i # 1 /\ t.todo[i] = stay
    <3>1. ASSUME NEW i \in 1 .. Len(t.todo), i # 1, t.todo[i] = stay
          PROVE  \E j \in 1 .. Len(Tail(t.todo)) : t.todo[j + 1] = stay
      <4>1. i - 1 \in 1 .. Len(Tail(t.todo)) /\ t.todo[(i - 1) + 1] = stay
        BY <2>2, <3>1
      <4> QED BY <4>1
    <3>2. ASSUME NEW j \in 1 .. Len(Tail(t.todo)), t.todo[j + 1] = stay
          PROVE  \E i \in 1 .. Len(t.todo) : i # 1 /\ t.todo[i] = stay
      <4>1. j + 1 \in 1 .. Len(t.todo) /\ j + 1 # 1
        BY <2>2
      <4> QED BY <3>2, <4>1
    <3> QED BY <3>1, <3>2
  <2>6. stay = H => (t.day <= s[2] <=> s = <<H.unit, t.day>>)
    BY <1>1, <1>2, <1>3, <1>4, <1>5, <1>7
  <2>7. Awaits(t, stay, s) <=>
           \/ \E i \in 1 .. Len(t.todo) : i # 1 /\ t.todo[i] = stay
           \/ stay = H /\ t.day <= s[2]
    BY <1>1, <1>4 DEF Awaits
  <2>8. (\E i \in 1 .. Len(t.todo) : i # 1 /\ t.todo[i] = stay) => stay # H
    BY <1>4
  <2> QED BY <2>4, <2>5, <2>6, <2>7, <2>8
<1> QED BY <1>6, <1>7

\* The cursor stays on a day of the stay it is at.
LEMMA AdvanceCursor ==
    ASSUME NEW t \in Txn, Cursor(t), t.todo # <<>>
    PROVE  Cursor(Advance(t))
<1> DEFINE H == Head(t.todo)
<1>1. /\ t.todo \in Seq(Stay) /\ t.day \in Int /\ H = t.todo[1]
      /\ \A j \in 1 .. Len(t.todo) : t.todo[j] \in Stay
      /\ Len(t.todo) \in Nat /\ 1 \in 1 .. Len(t.todo)
  BY DEF Txn
<1>2. LastDay(t.op, H) \in Int /\ t.todo[1].from \in Int
  BY <1>1, DaysOfStay DEF Stay, Day
<1>3. /\ Advance(t).op = t.op /\ Advance(t).stays = t.stays
  BY DEF Advance, Txn
<1>4. CASE t.day < LastDay(t.op, H)
  <2>1. Advance(t).todo = t.todo /\ Advance(t).day = t.day + 1
    BY <1>4 DEF Advance, Txn
  <2> QED BY <1>1, <1>2, <1>3, <1>4, <2>1 DEF Cursor
<1>5. CASE ~(t.day < LastDay(t.op, H))
  <2> DEFINE T == Tail(t.todo)
  <2>1. /\ Advance(t).todo = T
        /\ Advance(t).day = IF T = <<>> THEN 0 ELSE Head(T).from
    BY <1>5 DEF Advance, Txn
  <2>2. /\ Len(T) = Len(t.todo) - 1 /\ T \in Seq(Stay)
        /\ \A j \in 1 .. Len(T) : T[j] = t.todo[j + 1]
                                  /\ j + 1 \in 1 .. Len(t.todo)
    BY <1>1
  <2> HIDE DEF T
  <2>3. \A i, j \in 1 .. Len(T) : T[i] = T[j] => i = j
    BY <1>1, <2>2 DEF Cursor
  <2>4. \A i \in 1 .. Len(T) : T[i] \in t.stays
    BY <2>2 DEF Cursor
  <2>5. T # <<>> => /\ T[1] \in Stay /\ Head(T) = T[1]
    BY <2>2
  <2>6. T # <<>> => /\ T[1].from <= Advance(t).day
                    /\ Advance(t).day <= LastDay(t.op, T[1])
    BY <2>1, <2>5, DaysOfStay DEF Stay, Day
  <2> QED BY <1>3, <2>1, <2>3, <2>4, <2>6 DEF Cursor
<1> QED BY <1>4, <1>5

\* What a transaction has moved is a number.
LEMMA MovedType ==
    ASSUME NEW t \in Txn, IsFiniteSet(t.stays), NEW s
    PROVE  /\ Done(t, s) \in SUBSET Stay /\ IsFiniteSet(Done(t, s))
           /\ \A stay \in Done(t, s) : Quantity[stay] \in Nat
           /\ Moved(t, s) \in Nat
<1>1. Done(t, s) \in SUBSET t.stays /\ t.stays \in SUBSET Stay
  BY DEF Done, Txn
<1>2. IsFiniteSet(Done(t, s))
  BY <1>1, FS_Subset
<1>3. \A stay \in Stay : Quantity[stay] \in Nat
  BY DEF Quantity, Stay
<1> QED BY <1>1, <1>2, <1>3, SumType DEF Moved

\* A row that is written has been written for one stay more; the others have
\* not.
LEMMA AdvanceDone ==
    ASSUME NEW t \in Txn, Cursor(t), t.todo # <<>>
    PROVE  LET H == Head(t.todo)
               n == <<H.unit, t.day>>
           IN  /\ H \in Stay /\ H \in t.stays /\ n \in Slot
               /\ Covers(t.op, H, n)
               /\ Done(Advance(t), n) = Done(t, n) \cup {H}
               /\ H \notin Done(t, n)
               /\ \A s \in Slot \ {n} : Done(Advance(t), s) = Done(t, s)
               /\ Advance(t).op = t.op /\ Advance(t).stays = t.stays
<1> DEFINE H == Head(t.todo)
           n == <<H.unit, t.day>>
<1>1. /\ t.todo \in Seq(Stay) /\ t.day \in Int /\ H = t.todo[1]
      /\ H \in Stay /\ 1 \in 1 .. Len(t.todo) /\ H \in t.stays
  BY DEF Txn, Cursor
<1>2. t.day \in H.from .. LastDay(t.op, H)
  BY <1>1, DaysOfStay DEF Cursor, Stay, Day
<1>3. n \in Slot /\ Covers(t.op, H, n)
  BY <1>1, <1>2, DaysOfStay DEF Slot, Covers, Stay
<1>4. Advance(t).op = t.op /\ Advance(t).stays = t.stays
  BY DEF Advance, Txn
<1>5. Awaits(t, H, n)
  BY <1>1 DEF Awaits
<1>6. \A s \in Slot, stay \in t.stays :
         Covers(t.op, stay, s) =>
            (Awaits(Advance(t), stay, s) <=>
                Awaits(t, stay, s) /\ ~(stay = H /\ s = n))
  BY AdvanceAwaits
<1>7. Done(Advance(t), n) = Done(t, n) \cup {H}
  BY <1>1, <1>3, <1>4, <1>6 DEF Done
<1>8. \A s \in Slot \ {n} : Done(Advance(t), s) = Done(t, s)
  BY <1>4, <1>6 DEF Done
<1>9. H \notin Done(t, n)
  BY <1>5 DEF Done
<1> QED BY <1>1, <1>3, <1>4, <1>7, <1>8, <1>9

\* A calendar edit is one that was asked for.
EditStays == \A w \in Worker :
    txn[w].op \in Editing => txn[w].stays \subseteq EditRequests

\* Writing a row moves what its stay takes or gives back.
LEMMA WriteRowKeepsWriteInv ==
    ASSUME IInv, OpenInv, WriteInv, EditStays, NEW w \in Worker, WriteRow(w)
    PROVE  WriteInv'
<1> DEFINE t == txn[w]
           H == Head(t.todo)
           n == NextSlot(w)
<1>1. /\ txn \in [Worker -> Txn] /\ t \in Txn /\ IsFiniteSet(t.stays)
      /\ draft \in [Slot -> CalendarRow] /\ calendar \in [Slot -> CalendarRow]
      /\ lockedBy \in [Slot -> Worker \cup {NoWorker}]
  BY DEF IInv, TypeOK, FiniteRows, WellFormed
<1>2. /\ t.todo # <<>> /\ lockedBy[n] \in {NoWorker, w}
      /\ lockedBy' = [lockedBy EXCEPT ![n] = w]
      /\ txn' = [txn EXCEPT ![w] = Advance(t)] /\ calendar' = calendar
  BY DEF WriteRow, CanLock
<1>3. Cursor(t) /\ Written(w) /\ t.op \notin {"book", "idle"}
  BY <1>2 DEF WriteInv, Written, OpenInv, IdleHasNoLock
<1>4. n = <<H.unit, t.day>>
  BY DEF NextSlot
<1>5. /\ H \in Stay /\ H \in t.stays /\ n \in Slot
      /\ Done(Advance(t), n) = Done(t, n) \cup {H} /\ H \notin Done(t, n)
      /\ \A s \in Slot \ {n} : Done(Advance(t), s) = Done(t, s)
      /\ Advance(t).op = t.op /\ Advance(t).stays = t.stays
  BY <1>1, <1>2, <1>3, <1>4, AdvanceDone
<1>6. /\ txn'[w] = Advance(t) /\ \A v \in Worker \ {w} : txn'[v] = txn[v]
      /\ lockedBy'[n] = w /\ \A s \in Slot \ {n} : lockedBy'[s] = lockedBy[s]
  BY <1>1, <1>2, <1>5
<1>7. /\ \A s \in Slot \ {n} : draft'[s] = draft[s]
      /\ draft'[n].quantity = draft[n].quantity + Delta(t.op, H)
  BY <1>1, <1>5 DEF WriteRow, NewQuantity
<1>8. Cursor(txn'[w])
  BY <1>1, <1>2, <1>3, <1>6, AdvanceCursor
<1>9. /\ Moved(t, n) \in Nat /\ Moved(Advance(t), n) = Moved(t, n) + H.quantity
      /\ \A s \in Slot \ {n} : Moved(Advance(t), s) = Moved(t, s)
  <2>1. /\ IsFiniteSet(Done(t, n)) /\ Moved(t, n) \in Nat
        /\ \A stay \in Done(t, n) : Quantity[stay] \in Nat
    BY <1>1, MovedType
  <2>2. Quantity[H] = H.quantity /\ H.quantity \in Nat
    BY <1>5 DEF Quantity, Stay
  <2>3. SumOver(Quantity, Done(t, n) \cup {H}) =
           SumOver(Quantity, Done(t, n)) + Quantity[H]
    BY <1>5, <2>1, <2>2, SumAdd
  <2> QED BY <1>5, <2>1, <2>2, <2>3 DEF Moved
\* What the row was before: untouched, or this transaction's.
<1>10. /\ draft[n].quantity \in Int /\ calendar[n].quantity \in Int
       /\ H.quantity \in Nat
  BY <1>1, <1>5 DEF CalendarRow, Stay
<1>11. /\ t.op \in Consuming =>
             draft[n].quantity = calendar[n].quantity - Moved(t, n)
       /\ t.op \in Restoring =>
             draft[n].quantity = calendar[n].quantity + Moved(t, n)
       /\ t.op \in Editing /\ EditsNeverLower =>
             draft[n].quantity >= calendar[n].quantity
       /\ t.op \in Editing /\ TotalsStay =>
             draft[n].quantity = calendar[n].quantity
  <2>1. CASE lockedBy[n] = w
    BY <1>3, <1>5, <2>1 DEF Written, DraftOf
  <2>2. CASE lockedBy[n] # w
    <3>1. draft[n] = calendar[n]
      BY <1>2, <1>5, <2>2 DEF OpenInv, CleanRows
    <3>2. t.op \in Consuming \cup Restoring => Moved(t, n) = 0
      BY <1>3, <1>5, <2>2, SumEmpty DEF Written, Moved
    <3>3. t.op \in Consuming \cup Restoring =>
             /\ draft[n].quantity = calendar[n].quantity - Moved(t, n)
             /\ draft[n].quantity = calendar[n].quantity + Moved(t, n)
      BY <1>10, <3>1, <3>2
    <3> QED BY <1>10, <3>1, <3>3
  <2> QED BY <2>1, <2>2
<1>12. /\ t.op \in Consuming => Delta(t.op, H) = -H.quantity
       /\ t.op \in Restoring => Delta(t.op, H) = H.quantity
       /\ t.op \in Editing /\ EditsNeverLower =>
             Delta(t.op, H) \in Int /\ Delta(t.op, H) >= 0
       /\ t.op \in Editing /\ TotalsStay => Delta(t.op, H) = 0
  <2>1. /\ t.op \in Consuming => Delta(t.op, H) = -H.quantity
        /\ t.op \in Restoring => Delta(t.op, H) = H.quantity
    BY DEF Delta, Consuming, Restoring
  <2>2. ASSUME t.op \in Editing
        PROVE  /\ EditsNeverLower => Delta(t.op, H) >= 0
               /\ TotalsStay => Delta(t.op, H) = 0
    <3>1. H \in EditRequests
      BY <1>5, <2>2 DEF EditStays
    <3>2. Capacity[H.unit] \in Nat
      BY <1>5, CapacityAssumption DEF Stay
    <3>3. Delta(t.op, H) = IF t.op = "setTotal"
                           THEN H.quantity - Capacity[H.unit] ELSE 0
      BY <2>2 DEF Delta, Consuming, Restoring, Editing
    <3> QED BY <1>10, <3>1, <3>2, <3>3 DEF EditsNeverLower, TotalsStay
  <2> QED BY <1>5, <2>1, <2>2, DeltaIsInt
<1>13. ASSUME NEW s \in Slot, s = n PROVE DraftOf(w, s)'
  <2>1. /\ txn'[w].op = t.op /\ calendar'[s] = calendar[n]
        /\ draft'[s].quantity = draft[n].quantity + Delta(t.op, H)
        /\ Moved(txn'[w], s) = Moved(t, n) + H.quantity
    BY <1>2, <1>5, <1>6, <1>7, <1>9, <1>13
  <2>2. t.op \in Consuming =>
           draft'[s].quantity = calendar'[s].quantity - Moved(txn'[w], s)
    BY <1>9, <1>10, <1>11, <1>12, <2>1
  <2>3. t.op \in Restoring =>
           draft'[s].quantity = calendar'[s].quantity + Moved(txn'[w], s)
    BY <1>9, <1>10, <1>11, <1>12, <2>1
  <2>4. t.op \in Editing /\ EditsNeverLower =>
           draft'[s].quantity >= calendar'[s].quantity
    BY <1>10, <1>11, <1>12, <2>1
  <2>5. t.op \in Editing /\ TotalsStay =>
           draft'[s].quantity = calendar'[s].quantity
    BY <1>10, <1>11, <1>12, <2>1
  <2> HIDE DEF t, H, n
  <2> QED BY <2>1, <2>2, <2>3, <2>4, <2>5 DEF DraftOf
<1>14. ASSUME NEW s \in Slot \ {n}, lockedBy'[s] = w
       PROVE  DraftOf(w, s)'
  <2>1. DraftOf(w, s)
    BY <1>3, <1>6, <1>14 DEF Written
  <2>2. /\ draft'[s] = draft[s] /\ calendar'[s] = calendar[s]
        /\ txn'[w].op = t.op /\ Moved(txn'[w], s) = Moved(t, s)
    BY <1>2, <1>5, <1>6, <1>7, <1>9
  <2> QED BY <2>1, <2>2 DEF DraftOf
<1>15. ASSUME txn'[w].op \in Consuming \cup Restoring, NEW s \in Slot,
              lockedBy'[s] # w
       PROVE  Done(txn'[w], s) = {}
  BY <1>3, <1>5, <1>6, <1>15 DEF Written
<1>16. txn'[w].op = t.op
  BY <1>5, <1>6
<1>17. Written(w)'
  BY <1>3, <1>8, <1>13, <1>14, <1>15, <1>16 DEF Written
<1>18. ASSUME NEW v \in Worker \ {w} PROVE Written(v)'
  <2>1. /\ \A s \in Slot : lockedBy'[s] = v <=> lockedBy[s] = v
        /\ \A s \in Slot : lockedBy[s] = v => s # n
    BY <1>2, <1>5, <1>6, NobodyAssumption
  <2>2. \A s \in Slot : lockedBy[s] = v =>
          draft'[s] = draft[s] /\ calendar'[s] = calendar[s]
    BY <1>2, <1>7, <2>1
  <2> QED BY <1>6, <2>1, <2>2, WrittenFrame DEF WriteInv
<1> QED BY <1>17, <1>18 DEF WriteInv

\* A transaction that ends leaves nothing behind it.
LEMMA EndKeepsWriteInv ==
    ASSUME IInv, WriteInv, NEW w \in Worker, Publish(w) \/ RollBack(w)
    PROVE  WriteInv'
<1>1. /\ txn' = [txn EXCEPT ![w] = NoTxn] /\ txn \in [Worker -> Txn]
      /\ \A s \in Slot : lockedBy'[s] = IF lockedBy[s] = w THEN NoWorker
                                        ELSE lockedBy[s]
  BY DEF Publish, RollBack, Unlocked, IInv, TypeOK
<1>2. \A s \in Slot : lockedBy[s] # w =>
         calendar'[s] = calendar[s] /\ draft'[s] = draft[s]
  BY DEF Publish, RollBack
<1>3. Written(w)'
  <2>1. txn'[w] = NoTxn /\ \A s \in Slot : lockedBy'[s] # w
    BY <1>1, NobodyAssumption
  <2> QED BY <2>1 DEF Written, Cursor, NoTxn, Consuming, Restoring
<1>4. ASSUME NEW v \in Worker \ {w} PROVE Written(v)'
  <2>1. /\ txn'[v] = txn[v]
        /\ \A s \in Slot : lockedBy'[s] = v <=> lockedBy[s] = v
    BY <1>1, NobodyAssumption
  <2>2. \A s \in Slot : lockedBy[s] = v =>
          draft'[s] = draft[s] /\ calendar'[s] = calendar[s]
    BY <1>2
  <2> QED BY <2>1, <2>2, WrittenFrame DEF WriteInv
<1> QED BY <1>3, <1>4 DEF WriteInv

\* Every step keeps what open transactions have written accounted for.
LEMMA StepWriteInv ==
    ASSUME IInv, OpenInv, WriteInv, EditStays, [Next]_vars
    PROVE  WriteInv'
<1>1. ASSUME NEW w \in Worker, Finish(w) \/ LoseTransaction(w)
      PROVE  WriteInv'
  <2>1. Publish(w) \/ RollBack(w)
    BY <1>1 DEF Finish, LoseTransaction, CommitHolds, CommitRelease,
       CommitBooking, CommitClose, CommitRecord, CommitCancel, CommitEdit,
       Refuse, ImportRowFails, DeadlockVictim
  <2> QED BY <2>1, EndKeepsWriteInv
<1>2. CASE UNCHANGED <<calendar, draft, lockedBy, txn>>
  BY <1>2, WrittenFrame DEF WriteInv
<1>3. CASE \/ HoldExpires \/ CreateBlackout \/ UpdateBlackout
           \/ DeleteBlackout \/ UNCHANGED vars
  BY <1>2, <1>3 DEF HoldExpires, CreateBlackout, UpdateBlackout,
                    DeleteBlackout, vars
<1>4. CASE RemoveCalendarEntry
  <2>1. PICK r \in RemovableSlots :
          /\ lockedBy[r] = NoWorker
          /\ \A s \in Slot \ {r} :
                calendar'[s] = calendar[s] /\ draft'[s] = draft[s]
          /\ UNCHANGED <<lockedBy, txn>>
    BY <1>4, RequestAssumption DEF RemoveCalendarEntry, IInv, TypeOK
  <2>2. ASSUME NEW v \in Worker PROVE Written(v)'
    <3>1. \A s \in Slot : lockedBy[s] = v =>
            draft'[s] = draft[s] /\ calendar'[s] = calendar[s]
      BY <2>1, NobodyAssumption
    <3> QED BY <2>1, <3>1, WrittenFrame DEF WriteInv
  <2> QED BY <2>2 DEF WriteInv
<1>5. ASSUME NEW w \in Worker, Begin(w) PROVE WriteInv'
  BY <1>5, BeginKeepsWriteInv
<1>6. ASSUME NEW w \in Worker, WriteRow(w) PROVE WriteInv'
  BY <1>6, WriteRowKeepsWriteInv
<1> QED BY <1>1, <1>3, <1>4, <1>5, <1>6 DEF Next

-----------------------------------------------------------------------------
(* What the tables and the open transactions say of each other is kept *)

\* Rows with a number of their own stay so with one more, ...
LEMMA NumberedAdd ==
    ASSUME NEW rows, IsFiniteSet(rows), Numbered(rows),
           NEW x, x.id = Cardinality(rows) + 1
    PROVE  Numbered(rows \cup {x}) /\ x \notin rows
<1>1. Cardinality(rows) \in Nat
  BY FS_CardinalityType
<1>2. \A r \in rows : r.id \in 1 .. Cardinality(rows) /\ r.id # x.id
  BY <1>1 DEF Numbered
<1>3. Cardinality(rows \cup {x}) = Cardinality(rows) + 1
  BY <1>2, FS_AddElement
<1> QED BY <1>1, <1>2, <1>3 DEF Numbered

\* ... and when the rows change in other columns.
LEMMA NumberedMap ==
    ASSUME NEW rows, IsFiniteSet(rows), Numbered(rows),
           NEW f, \A r \in rows : f[r].id = r.id
    PROVE  Numbered({f[r] : r \in rows})
<1> DEFINE g == [r \in rows |-> f[r]]
           S == {f[r] : r \in rows}
<1>1. g \in Bijection(rows, S)
  BY DEF Bijection, Injection, Surjection, IsInjective, Numbered
<1>2. Cardinality(S) = Cardinality(rows)
  <2>1. ExistsBijection(rows, S)
    BY <1>1 DEF ExistsBijection
  <2> HIDE DEF S
  <2> QED BY <2>1, FS_Bijection
<1> QED BY <1>2 DEF Numbered

\* A transaction that ends, and leaves the targets of the others where they
\* were, keeps the invariant.
LEMMA EndKeepsTables ==
    ASSUME IInv, TablesInv, NEW w \in Worker, requests' \in Nat,
           requests <= requests', txn' = [txn EXCEPT ![w] = NoTxn],
           HoldsInv', Numbered(bookings'), Numbered(records'),
           \A v \in Worker \ {w} : txn[v].op = "close" =>
              \E b \in bookings' :
                 b.id = txn[v].target /\ b.items = txn[v].stays /\ b.open,
           \A v \in Worker \ {w} : txn[v].op = "cancel" =>
              \E r \in records' :
                 r.id = txn[v].target /\ txn[v].stays = {r.stay}
    PROVE  TablesInv'
<1>1. txn \in [Worker -> Txn] /\ requests \in Nat
  BY DEF IInv, TypeOK
<1>2. txn'[w] = NoTxn /\ \A v \in Worker \ {w} : txn'[v] = txn[v]
  BY <1>1
<1>3. SnapshotInv(txn[w])' /\ TargetInv(txn[w])'
  <2>1. txn'[w].rows = {} /\ txn'[w].op = "idle"
    BY <1>2 DEF NoTxn
  <2> QED BY <2>1, FS_EmptySet DEF SnapshotInv, TargetInv, Editing
<1>4. ASSUME NEW v \in Worker \ {w}
      PROVE  SnapshotInv(txn[v])' /\ TargetInv(txn[v])'
  <2>1. \A h \in txn[v].rows : h.id \in HoldId
    BY <1>1 DEF Txn, Hold
  <2>2. SnapshotInv(txn[v]) /\ TargetInv(txn[v])
    BY DEF TablesInv
  <2>3. SnapshotInv(txn[v])'
    BY <1>1, <1>2, <2>1, <2>2 DEF SnapshotInv, IdOfHold, HoldId
  <2>4. TargetInv(txn[v])'
    BY <1>2, <2>2 DEF TargetInv
  <2> QED BY <2>3, <2>4
<1>5. \A u, v \in Worker :
        /\ txn'[u].op = "close" /\ txn'[v].op = "close"
        /\ txn'[u].target = txn'[v].target
        => u = v
  BY <1>2 DEF TablesInv, NoTxn
<1> QED BY <1>3, <1>4, <1>5 DEF TablesInv

\* The targets of the others, when their tables only grow.
LEMMA TargetsStay ==
    ASSUME TablesInv, bookings \subseteq bookings', records \subseteq records'
    PROVE  /\ \A v \in Worker : txn[v].op = "close" =>
                 \E b \in bookings' :
                    b.id = txn[v].target /\ b.items = txn[v].stays /\ b.open
           /\ \A v \in Worker : txn[v].op = "cancel" =>
                 \E r \in records' :
                    r.id = txn[v].target /\ txn[v].stays = {r.stay}
BY DEF TablesInv, TargetInv

\* An operation that begins reads rows that there are.
LEMMA BeginKeepsTables ==
    ASSUME IInv, TablesInv, NEW w \in Worker, Begin(w)
    PROVE  TablesInv'
<1>1. UNCHANGED <<holds, bookings, records, requests>>
  BY DEF Begin, CreateHolds, ReleaseHolds, CreateBooking, SweepExpiredHolds,
         CloseBooking, CreateManualBlock, CreateExternalReservation, ImportRow,
         CreateRecord, CancelRecord, SetAvailability, UpdateCalendarEntry,
         EditCalendar, tables
<1>2. txn \in [Worker -> Txn]
  BY DEF IInv, TypeOK
<1>3. \A v \in Worker \ {w} : txn'[v] = txn[v]
  <2>1. ASSUME NEW t, Open(w, t)
        PROVE  \A v \in Worker \ {w} : txn'[v] = txn[v]
    BY <1>2, <2>1 DEF Open
  <2>2. CASE CreateBooking(w)
    BY <1>2, <2>2 DEF CreateBooking
  <2>3. CASE ~CreateBooking(w)
    <3>1. \E t : Open(w, t)
      BY <2>3 DEF Begin, CreateHolds, ReleaseHolds, SweepExpiredHolds,
             CloseBooking, CreateManualBlock, CreateExternalReservation,
             ImportRow, CreateRecord, CancelRecord, SetAvailability,
             UpdateCalendarEntry, EditCalendar
    <3> QED BY <2>1, <3>1
  <2> QED BY <2>2, <2>3
<1> DEFINE Holding(t, rows) ==
              /\ t.op \in {"release", "sweep", "book"} /\ t.rows = rows
              /\ t.stays = GroupHoldsByRange(rows) /\ rows \subseteq holds
           Fits(t) == /\ SnapshotInv(t) /\ TargetInv(t)
                      /\ t.op = "close" => \A v \in Worker :
                            ~(txn[v].op = "close" /\ txn[v].target = t.target)
<1>4. ASSUME NEW rows, Holding(txn'[w], rows)
      PROVE  Fits(txn'[w])
  <2>1. IsFiniteSet(rows)
    BY <1>4, FS_Subset DEF IInv, FiniteRows
  <2>2. SnapshotInv(txn'[w])
    BY <1>4, <2>1 DEF SnapshotInv, TablesInv, HoldsInv
  <2>3. TargetInv(txn'[w]) /\ txn'[w].op # "close"
    BY <1>4 DEF TargetInv, Editing
  <2> QED BY <2>2, <2>3
<1>5. ASSUME NEW op \in {"release", "sweep"}, NEW rows \in SUBSET holds,
             Open(w, [NoTxn EXCEPT !.op = op, !.rows = rows,
                                   !.stays = GroupHoldsByRange(rows)])
      PROVE  Fits(txn'[w])
  <2>1. /\ txn'[w].op = op /\ txn'[w].rows = rows
        /\ txn'[w].stays = GroupHoldsByRange(rows)
    BY <1>2, <1>5 DEF Open, NoTxn
  <2> QED BY <1>4, <2>1
<1>6. ASSUME ReleaseHolds(w) \/ SweepExpiredHolds(w)
      PROVE  Fits(txn'[w])
  <2> HIDE DEF Fits
  <2>1. CASE ReleaseHolds(w)
    BY <1>5, <2>1 DEF ReleaseHolds, ActiveHoldsOf
  <2>2. CASE SweepExpiredHolds(w)
    BY <1>5, <2>2 DEF SweepExpiredHolds
  <2> QED BY <1>6, <2>1, <2>2
<1>7. ASSUME CreateBooking(w)
      PROVE  Fits(txn'[w])
  <2>1. PICK rows \in SUBSET holds :
          txn' = [txn EXCEPT ![w] =
                    [NoTxn EXCEPT !.op = "book", !.rows = rows,
                                  !.stays = GroupHoldsByRange(rows)]]
    BY <1>7 DEF CreateBooking, ActiveHoldsOf
  <2>2. /\ txn'[w].op = "book" /\ txn'[w].rows = rows
        /\ txn'[w].stays = GroupHoldsByRange(rows)
    BY <1>2, <2>1 DEF NoTxn
  <2> QED BY <1>4, <2>2
<1>8. ASSUME CreateHolds(w)
      PROVE  Fits(txn'[w])
  <2>1. PICK user, request :
          Open(w, [NoTxn EXCEPT !.op = "hold", !.user = user,
                                !.stays = request])
    BY <1>8 DEF CreateHolds
  <2>2. txn'[w].op = "hold" /\ txn'[w].rows = {}
    BY <1>2, <2>1 DEF Open, NoTxn
  <2> QED BY <2>2, FS_EmptySet DEF SnapshotInv, TargetInv, Editing
<1>9. ASSUME CloseBooking(w)
      PROVE  Fits(txn'[w])
  <2>1. PICK b \in bookings :
          /\ b.open
          /\ \A v \in Worker : ~(txn[v].op = "close" /\ txn[v].target = b.id)
          /\ Open(w, [NoTxn EXCEPT !.op = "close", !.target = b.id,
                                   !.stays = b.items])
    BY <1>9 DEF CloseBooking
  <2>2. /\ txn'[w].op = "close" /\ txn'[w].rows = {}
        /\ txn'[w].target = b.id /\ txn'[w].stays = b.items
    BY <1>2, <2>1 DEF Open, NoTxn
  <2>3. SnapshotInv(txn'[w])
    BY <2>2, FS_EmptySet DEF SnapshotInv
  <2>4. TargetInv(txn'[w])
    BY <2>1, <2>2 DEF TargetInv, Editing
  <2> QED BY <2>1, <2>2, <2>3, <2>4
<1>10. ASSUME CancelRecord(w)
      PROVE  Fits(txn'[w])
  <2>1. PICK r \in records :
          Open(w, [NoTxn EXCEPT !.op = "cancel", !.target = r.id,
                                !.stays = {r.stay}])
    BY <1>10 DEF CancelRecord
  <2>2. /\ txn'[w].op = "cancel" /\ txn'[w].rows = {}
        /\ txn'[w].target = r.id /\ txn'[w].stays = {r.stay}
    BY <1>2, <2>1 DEF Open, NoTxn
  <2>3. SnapshotInv(txn'[w])
    BY <2>2, FS_EmptySet DEF SnapshotInv
  <2>4. TargetInv(txn'[w])
    BY <2>1, <2>2 DEF TargetInv, Editing
  <2> QED BY <2>2, <2>3, <2>4
<1>11. ASSUME NEW kind \in {"block", "external", "import"}, NEW stay,
              Open(w, [NoTxn EXCEPT !.op = kind, !.stays = {stay}])
       PROVE  Fits(txn'[w])
  <2>1. /\ txn'[w].op = kind /\ txn'[w].rows = {} /\ txn'[w].stays = {stay}
    BY <1>2, <1>11 DEF Open, NoTxn
  <2>2. SnapshotInv(txn'[w])
    BY <2>1, FS_EmptySet DEF SnapshotInv
  <2>3. TargetInv(txn'[w])
    BY <2>1 DEF TargetInv, Editing
  <2> QED BY <2>1, <2>2, <2>3
<1>12. ASSUME \/ CreateManualBlock(w) \/ CreateExternalReservation(w)
            \/ ImportRow(w)
      PROVE  Fits(txn'[w])
  <2> HIDE DEF Fits
  <2> QED BY <1>11, <1>12 DEF CreateManualBlock, CreateExternalReservation,
             ImportRow, CreateRecord
<1>13. ASSUME SetAvailability(w) \/ UpdateCalendarEntry(w)
      PROVE  Fits(txn'[w])
  <2>1. PICK op \in Editing, edit \in EditRequests,
             status \in Status \cup {"KEEP"} :
          Open(w, [NoTxn EXCEPT !.op = op, !.stays = {edit},
                                !.status = status])
    BY <1>13 DEF SetAvailability, UpdateCalendarEntry, EditCalendar
  <2>2. /\ txn'[w].op = op /\ txn'[w].rows = {} /\ txn'[w].stays = {edit}
    BY <1>2, <2>1 DEF Open, NoTxn
  <2>3. SnapshotInv(txn'[w])
    BY <2>2, FS_EmptySet DEF SnapshotInv, Editing
  <2>4. TargetInv(txn'[w])
    BY <2>2 DEF TargetInv, Editing
  <2> QED BY <2>2, <2>3, <2>4 DEF Editing
<1>14. Fits(txn'[w])
  <2> HIDE DEF Fits
  <2> QED BY <1>6, <1>7, <1>8, <1>9, <1>10, <1>12, <1>13 DEF Begin
<1>15. \A v \in Worker : SnapshotInv(txn[v])' /\ TargetInv(txn[v])'
  <2>1. \A v \in Worker : SnapshotInv(txn'[v]) /\ TargetInv(txn'[v])
    BY <1>3, <1>14 DEF TablesInv
  <2> QED BY <1>1, <2>1 DEF SnapshotInv, TargetInv, IdOfHold
<1>16. \A u, v \in Worker :
         /\ txn'[u].op = "close" /\ txn'[v].op = "close"
         /\ txn'[u].target = txn'[v].target
         => u = v
  BY <1>3, <1>14 DEF TablesInv
<1> QED BY <1>1, <1>15, <1>16 DEF TablesInv, HoldsInv, Numbered, IdOfHold

\* Fewer hold rows are still one row per id.
LEMMA FewerHolds ==
    ASSUME HoldsInv, holds' \subseteq holds, requests' = requests
    PROVE  HoldsInv'
BY DEF HoldsInv, IdOfHold

\* Hold rows that are inserted have ids nobody has had.
LEMMA CommitHoldsKeepsTables ==
    ASSUME IInv, TablesInv, NEW w \in Worker, CommitHolds(w)
    PROVE  TablesInv'
<1>1. /\ txn' = [txn EXCEPT ![w] = NoTxn] /\ requests' = requests + 1
      /\ holds' = holds \cup
            UNION {HoldRows(txn[w], stay) : stay \in txn[w].stays}
      /\ UNCHANGED <<bookings, records>>
  BY DEF CommitHolds, Publish
<1>2. requests \in Nat /\ holds \subseteq Hold
  BY DEF IInv, TypeOK
<1>3. \A h \in holds : IdOfHold(h) /\ h.id[1] \in Nat
  BY <1>2 DEF TablesInv, HoldsInv, Hold, HoldId
<1>4. ASSUME NEW h, h \in holds', h \notin holds
      PROVE  /\ h.id[1] = requests
             /\ h.id[2].unit = h.unit /\ h.id[2].from = h.from
             /\ h.id[2].to = h.to
  BY <1>1, <1>4 DEF HoldRows
<1>5. \A g, h \in holds' : g.id = h.id => g = h
  <2> SUFFICES ASSUME NEW g \in holds', NEW h \in holds', g.id = h.id
               PROVE  g = h
    OBVIOUS
  <2>1. CASE g \in holds /\ h \in holds
    BY <2>1 DEF TablesInv, HoldsInv
  <2>2. CASE g \in holds /\ h \notin holds
    BY <1>2, <1>3, <1>4, <2>2 DEF IdOfHold
  <2>3. CASE g \notin holds /\ h \in holds
    BY <1>2, <1>3, <1>4, <2>3 DEF IdOfHold
  <2>4. CASE g \notin holds /\ h \notin holds
    <3> DEFINE row(x, copy) ==
                 [id |-> <<requests, x, copy>>, user |-> txn[w].user,
                  unit |-> x.unit, from |-> x.from, to |-> x.to,
                  expired |-> FALSE]
    <3>1. ASSUME NEW r \in holds', r \notin holds
          PROVE  r = row(r.id[2], r.id[3])
      <4>1. PICK x \in txn[w].stays : r \in HoldRows(txn[w], x)
        BY <1>1, <3>1
      <4>2. PICK copy \in 1 .. x.quantity : r = row(x, copy)
        BY <4>1 DEF HoldRows
      <4>3. r.id[2] = x /\ r.id[3] = copy
        BY <4>2
      <4> QED BY <4>2, <4>3
    <3>2. /\ g = row(g.id[2], g.id[3]) /\ h = row(h.id[2], h.id[3])
      BY <2>4, <3>1
    <3> HIDE DEF row
    <3> QED BY <3>2
  <2> QED BY <2>1, <2>2, <2>3, <2>4
<1>6. \A h \in holds' : IdOfHold(h)'
  <2>1. ASSUME NEW h \in holds' PROVE IdOfHold(h)'
    <3>1. CASE h \in holds
      BY <1>1, <1>2, <1>3, <3>1 DEF IdOfHold
    <3>2. CASE h \notin holds
      <4>1. h.id[1] = requests /\ requests < requests'
        BY <1>1, <1>2, <1>4, <3>2
      <4>2. h.id[1] < requests'
        BY <4>1
      <4> QED BY <1>4, <3>2, <4>2 DEF IdOfHold
    <3> QED BY <3>1, <3>2
  <2> QED BY <2>1
<1>7. HoldsInv'
  BY <1>5, <1>6 DEF HoldsInv
<1>8. Numbered(bookings') /\ Numbered(records')
  BY <1>1 DEF TablesInv
<1>9. requests' \in Nat /\ requests <= requests'
  BY <1>1, <1>2
<1>10. bookings \subseteq bookings' /\ records \subseteq records'
  BY <1>1
<1> QED BY <1>1, <1>7, <1>8, <1>9, <1>10, EndKeepsTables, TargetsStay

\* A booking gets the next number, and its holds go.
LEMMA CommitBookingKeepsTables ==
    ASSUME IInv, TablesInv, NEW w \in Worker, CommitBooking(w)
    PROVE  TablesInv'
<1> DEFINE b == [id |-> Cardinality(bookings) + 1, items |-> txn[w].stays,
                 open |-> TRUE]
<1>1. /\ txn' = [txn EXCEPT ![w] = NoTxn] /\ bookings' = bookings \cup {b}
      /\ holds' = WithoutRows(txn[w].rows) /\ UNCHANGED <<records, requests>>
  BY DEF CommitBooking, Publish
<1>2. requests' \in Nat /\ requests <= requests' /\ IsFiniteSet(bookings)
  BY <1>1 DEF IInv, TypeOK, FiniteRows
<1>3. HoldsInv'
  BY <1>1, FewerHolds DEF TablesInv, WithoutRows
<1>4. b.id = Cardinality(bookings) + 1
  OBVIOUS
<1> HIDE DEF b
<1>5. Numbered(bookings')
  <2>1. Numbered(bookings)
    BY DEF TablesInv
  <2> QED BY <1>1, <1>2, <1>4, <2>1, NumberedAdd
<1>6. Numbered(records')
  BY <1>1 DEF TablesInv
<1>7. bookings \subseteq bookings' /\ records \subseteq records'
  BY <1>1
<1> QED BY <1>1, <1>2, <1>3, <1>5, <1>6, <1>7, EndKeepsTables, TargetsStay

\* A booking that is closed is the target of one transaction only.
LEMMA CommitCloseKeepsTables ==
    ASSUME IInv, TablesInv, NEW w \in Worker, CommitClose(w)
    PROVE  TablesInv'
<1> DEFINE f == [b \in bookings |-> IF b.id = txn[w].target
                                    THEN [b EXCEPT !.open = FALSE] ELSE b]
<1>1. /\ txn' = [txn EXCEPT ![w] = NoTxn] /\ txn[w].op = "close"
      /\ bookings' = {f[b] : b \in bookings}
      /\ UNCHANGED <<holds, records, requests>>
  BY DEF CommitClose, Publish, ReadyToCommit
<1>2. /\ requests' \in Nat /\ requests <= requests' /\ IsFiniteSet(bookings)
      /\ bookings \subseteq Booking
  BY <1>1 DEF IInv, TypeOK, FiniteRows
<1>3. HoldsInv'
  BY <1>1, FewerHolds DEF TablesInv
<1>4. \A b \in bookings : f[b].id = b.id
  BY <1>2 DEF Booking
<1>5. \A v \in Worker \ {w} : txn[v].op = "close" =>
         \E b \in bookings' :
            b.id = txn[v].target /\ b.items = txn[v].stays /\ b.open
  <2> SUFFICES ASSUME NEW v \in Worker \ {w}, txn[v].op = "close"
               PROVE  \E b \in bookings' : /\ b.id = txn[v].target
                                           /\ b.items = txn[v].stays /\ b.open
    OBVIOUS
  <2>1. PICK b \in bookings :
           b.id = txn[v].target /\ b.items = txn[v].stays /\ b.open
    BY DEF TablesInv, TargetInv
  <2>2. txn[v].target # txn[w].target
    BY <1>1 DEF TablesInv
  <2>3. f[b] = b
    BY <2>1, <2>2
  <2> HIDE DEF f
  <2> QED BY <1>1, <2>1, <2>3
<1> HIDE DEF f
<1>6. Numbered(bookings')
  <2>1. Numbered(bookings)
    BY DEF TablesInv
  <2> QED BY <1>1, <1>2, <1>4, <2>1, NumberedMap
<1>7. Numbered(records')
  BY <1>1 DEF TablesInv
<1>8. \A v \in Worker \ {w} : txn[v].op = "cancel" =>
         \E r \in records' : r.id = txn[v].target /\ txn[v].stays = {r.stay}
  BY <1>1 DEF TablesInv, TargetInv
<1> QED BY <1>1, <1>2, <1>3, <1>5, <1>6, <1>7, <1>8, EndKeepsTables

\* A block or an external reservation gets the next number.
LEMMA CommitRecordKeepsTables ==
    ASSUME IInv, TablesInv, NEW w \in Worker,
           CommitRecord(w) \/ ImportRowFails(w)
    PROVE  TablesInv'
<1>1. /\ txn' = [txn EXCEPT ![w] = NoTxn] /\ InsertRecord(w)
      /\ txn[w].op \in {"block", "external", "import"}
      /\ UNCHANGED <<holds, bookings, requests>>
  BY DEF CommitRecord, ImportRowFails, Publish, ReadyToCommit
<1>2. requests' \in Nat /\ requests <= requests' /\ IsFiniteSet(records)
  BY <1>1 DEF IInv, TypeOK, FiniteRows
<1>3. HoldsInv'
  BY <1>1, FewerHolds DEF TablesInv
<1>4. PICK stay : txn[w].stays = {stay}
  BY <1>1 DEF TablesInv, TargetInv
<1> DEFINE r == [id |-> Cardinality(records) + 1, kind |-> txn[w].op,
                 stay |-> stay, active |-> TRUE]
<1>5. records' = records \cup {r}
  BY <1>1, <1>4 DEF InsertRecord
<1>6. r.id = Cardinality(records) + 1
  OBVIOUS
<1> HIDE DEF r
<1>7. Numbered(records')
  <2>1. Numbered(records)
    BY DEF TablesInv
  <2> QED BY <1>2, <1>5, <1>6, <2>1, NumberedAdd
<1>8. Numbered(bookings')
  BY <1>1 DEF TablesInv
<1>9. bookings \subseteq bookings' /\ records \subseteq records'
  BY <1>1, <1>5
<1> QED BY <1>1, <1>2, <1>3, <1>7, <1>8, <1>9, EndKeepsTables, TargetsStay

\* A block that is released keeps its number and its stay.
LEMMA CommitCancelKeepsTables ==
    ASSUME IInv, TablesInv, NEW w \in Worker, CommitCancel(w)
    PROVE  TablesInv'
<1> DEFINE f == [r \in records |-> IF r.id = txn[w].target
                                   THEN [r EXCEPT !.active = FALSE] ELSE r]
<1>1. /\ txn' = [txn EXCEPT ![w] = NoTxn] /\ records' = {f[r] : r \in records}
      /\ UNCHANGED <<holds, bookings, requests>>
  BY DEF CommitCancel, Publish
<1>2. /\ requests' \in Nat /\ requests <= requests' /\ IsFiniteSet(records)
      /\ records \subseteq Record
  BY <1>1 DEF IInv, TypeOK, FiniteRows
<1>3. HoldsInv'
  BY <1>1, FewerHolds DEF TablesInv
<1>4. \A r \in records : f[r].id = r.id /\ f[r].stay = r.stay
  BY <1>2 DEF Record
<1> HIDE DEF f
<1>5. Numbered(records')
  <2>1. Numbered(records)
    BY DEF TablesInv
  <2> QED BY <1>1, <1>2, <1>4, <2>1, NumberedMap
<1>6. Numbered(bookings')
  BY <1>1 DEF TablesInv
<1>7. \A v \in Worker \ {w} : txn[v].op = "cancel" =>
         \E r \in records' : r.id = txn[v].target /\ txn[v].stays = {r.stay}
  BY <1>1, <1>4 DEF TablesInv, TargetInv
<1>8. \A v \in Worker \ {w} : txn[v].op = "close" =>
         \E b \in bookings' :
            b.id = txn[v].target /\ b.items = txn[v].stays /\ b.open
  BY <1>1 DEF TablesInv, TargetInv
<1> QED BY <1>1, <1>2, <1>3, <1>5, <1>6, <1>7, <1>8, EndKeepsTables

\* What ends otherwise deletes hold rows at the most.
LEMMA OtherEndsKeepTables ==
    ASSUME IInv, TablesInv, NEW w \in Worker,
           \/ CommitRelease(w) \/ CommitEdit(w) \/ Refuse(w)
           \/ DeadlockVictim(w) \/ LoseTransaction(w)
    PROVE  TablesInv'
<1>1. /\ txn' = [txn EXCEPT ![w] = NoTxn]
      /\ UNCHANGED <<bookings, records, requests>>
  BY DEF CommitRelease, CommitEdit, Refuse, DeadlockVictim, LoseTransaction,
         Publish, RollBack, tables
<1>2. holds' \subseteq holds
  BY DEF CommitRelease, CommitEdit, Refuse, DeadlockVictim, LoseTransaction,
         Publish, RollBack, WithoutRows, tables
<1>3. requests' \in Nat /\ requests <= requests'
  BY <1>1 DEF IInv, TypeOK
<1>4. HoldsInv'
  BY <1>1, <1>2, FewerHolds DEF TablesInv
<1>5. /\ Numbered(bookings') /\ Numbered(records')
      /\ bookings \subseteq bookings' /\ records \subseteq records'
  BY <1>1 DEF TablesInv
<1> QED BY <1>1, <1>3, <1>4, <1>5, EndKeepsTables, TargetsStay

\* A step that touches neither the other tables nor what a transaction has
\* read, and keeps the ids and the stays of the hold rows.
LEMMA TablesFrame ==
    ASSUME TablesInv, UNCHANGED <<bookings, records, requests>>, HoldsInv',
           \A v \in Worker : /\ txn'[v].op = txn[v].op
                             /\ txn'[v].rows = txn[v].rows
                             /\ txn'[v].stays = txn[v].stays
                             /\ txn'[v].target = txn[v].target
    PROVE  TablesInv'
<1>1. Numbered(bookings') /\ Numbered(records')
  BY DEF TablesInv
<1>2. ASSUME NEW v \in Worker
      PROVE  SnapshotInv(txn[v])' /\ TargetInv(txn[v])'
  <2>1. SnapshotInv(txn[v]) /\ TargetInv(txn[v])
    BY DEF TablesInv
  <2>2. SnapshotInv(txn[v])'
    BY <2>1 DEF SnapshotInv, IdOfHold
  <2>3. TargetInv(txn[v])'
    BY <2>1 DEF TargetInv
  <2> QED BY <2>2, <2>3
<1> QED BY <1>1, <1>2 DEF TablesInv

\* Every step keeps the tables and the open transactions in line.
LEMMA StepTablesInv ==
    ASSUME IInv, TablesInv, [Next]_vars
    PROVE  TablesInv'
<1>1. ASSUME NEW w \in Worker, Finish(w) \/ LoseTransaction(w)
      PROVE  TablesInv'
  BY <1>1, CommitHoldsKeepsTables, CommitBookingKeepsTables,
     CommitCloseKeepsTables, CommitRecordKeepsTables,
     CommitCancelKeepsTables, OtherEndsKeepTables DEF Finish
<1>2. CASE UNCHANGED <<holds, bookings, records, requests, txn>>
  <2>1. HoldsInv'
    BY <1>2, FewerHolds DEF TablesInv
  <2> QED BY <1>2, <2>1, TablesFrame
<1>3. CASE \/ RemoveCalendarEntry \/ CreateBlackout \/ UpdateBlackout
           \/ DeleteBlackout \/ UNCHANGED vars
  BY <1>2, <1>3 DEF RemoveCalendarEntry, CreateBlackout, UpdateBlackout,
                    DeleteBlackout, tables, vars
<1>4. CASE HoldExpires
  <2>1. PICK h \in holds :
          holds' = (holds \ {h}) \cup {[h EXCEPT !.expired = TRUE]}
    BY <1>4 DEF HoldExpires
  <2>2. UNCHANGED <<bookings, records, requests, txn>>
    BY <1>4 DEF HoldExpires
  <2> DEFINE x == [h EXCEPT !.expired = TRUE]
  <2>3. /\ x.id = h.id /\ x.unit = h.unit /\ x.from = h.from /\ x.to = h.to
    BY DEF IInv, TypeOK, Hold
  <2>4. holds' = (holds \ {h}) \cup {x}
    BY <2>1
  <2> HIDE DEF x
  <2>5. HoldsInv'
    BY <2>2, <2>3, <2>4 DEF TablesInv, HoldsInv, IdOfHold
  <2> QED BY <2>2, <2>5, TablesFrame
<1>5. ASSUME NEW w \in Worker, WriteRow(w) PROVE TablesInv'
  <2>1. UNCHANGED <<holds, bookings, records, requests>>
        /\ txn' = [txn EXCEPT ![w] = Advance(@)]
    BY <1>5 DEF WriteRow, tables
  <2>2. txn \in [Worker -> Txn]
    BY DEF IInv, TypeOK
  <2>3. /\ Advance(txn[w]).op = txn[w].op
        /\ Advance(txn[w]).rows = txn[w].rows
        /\ Advance(txn[w]).stays = txn[w].stays
        /\ Advance(txn[w]).target = txn[w].target
    BY <2>2 DEF Advance, Txn
  <2>4. HoldsInv'
    BY <2>1, FewerHolds DEF TablesInv
  <2> QED BY <2>1, <2>2, <2>3, <2>4, TablesFrame
<1>6. ASSUME NEW w \in Worker, Begin(w) PROVE TablesInv'
  BY <1>6, BeginKeepsTables
<1> QED BY <1>1, <1>3, <1>4, <1>5, <1>6 DEF Next

-----------------------------------------------------------------------------
(* What the tables take of a slot *)

ItemsTake(s) == [b \in Booking |-> Taken(b.items, s)]
StayTakes(s) == [r \in Record |-> Taken({r.stay}, s)]
OpenOnes(rows) == {b \in rows : b.open}
ActiveOnes(rows) == {r \in rows : r.active}

BookedIn(rows, s) == MapThenSumSet(LAMBDA b : Taken(b.items, s), rows)
RecordedIn(rows, s) == MapThenSumSet(LAMBDA r : Taken({r.stay}, s), rows)

\* The fold over bookings is a sum, ...
LEMMA BookedFold ==
    ASSUME NEW S \in SUBSET Booking, IsFiniteSet(S),
           \A b \in S : IsFiniteSet(b.items), NEW s
    PROVE  /\ \A b \in S : ItemsTake(s)[b] \in Nat
           /\ BookedIn(S, s) = SumOver(ItemsTake(s), S)
           /\ SumOver(ItemsTake(s), S) \in Nat
<1> DEFINE f == ItemsTake(s)
           A(h) == [u \in SUBSET S |->
                      IF u = {} THEN 0
                      ELSE Taken((CHOOSE b \in u : TRUE).items, s)
                           + h[u \ {CHOOSE b \in u : TRUE}]]
           g == CHOOSE h : h = A(h)
<1>1. \A b \in S : f[b] \in Nat
  <2> TAKE b \in S
  <2>1. b.items \in SUBSET Stay /\ IsFiniteSet(b.items)
    BY DEF Booking
  <2>2. Taken(b.items, s) \in Nat
    BY <2>1, TakenIsSum
  <2> QED BY <2>2 DEF ItemsTake
<1>2. ASSUME NEW h PROVE (h = A(h)) <=> IsSum(h, f, S)
  <2>1. ASSUME NEW u \in SUBSET S, u # {}
        PROVE  f[Picked(u)] = Taken((CHOOSE b \in u : TRUE).items, s)
    <3>1. Picked(u) \in Booking
      BY <2>1 DEF Picked
    <3> QED BY <3>1 DEF ItemsTake, Picked
  <2> HIDE DEF f
  <2>2. ASSUME NEW u \in SUBSET S
        PROVE  (IF u = {} THEN 0
                ELSE Taken((CHOOSE b \in u : TRUE).items, s)
                     + h[u \ {CHOOSE b \in u : TRUE}])
               = IF u = {} THEN 0 ELSE f[Picked(u)] + h[u \ {Picked(u)}]
    BY <2>1 DEF Picked
  <2>3. A(h) = [u \in SUBSET S |->
            IF u = {} THEN 0 ELSE f[Picked(u)] + h[u \ {Picked(u)}]]
    BY <2>2
  <2> HIDE DEF A
  <2> QED BY <2>3 DEF IsSum
<1>3. BookedIn(S, s) = g[S]
  BY DEF BookedIn, MapThenSumSet, MapThenFoldSet
<1> HIDE DEF A, f
<1>4. g = A(g)
  BY <1>1, <1>2, SumExists
<1>5. IsSum(g, f, S)
  BY <1>2, <1>4
<1> HIDE DEF g
<1>6. g[S] = SumOver(f, S) /\ SumOver(f, S) \in Nat
  BY <1>1, <1>5, SumUnique, SumIsCount, SumType
<1> QED BY <1>1, <1>3, <1>6 DEF f

\* ... and so is the one over blocks and external reservations.
LEMMA RecordedFold ==
    ASSUME NEW S \in SUBSET Record, IsFiniteSet(S), NEW s
    PROVE  /\ \A r \in S : StayTakes(s)[r] \in Nat
           /\ RecordedIn(S, s) = SumOver(StayTakes(s), S)
           /\ SumOver(StayTakes(s), S) \in Nat
<1> DEFINE f == StayTakes(s)
           A(h) == [u \in SUBSET S |->
                      IF u = {} THEN 0
                      ELSE Taken({(CHOOSE r \in u : TRUE).stay}, s)
                           + h[u \ {CHOOSE r \in u : TRUE}]]
           g == CHOOSE h : h = A(h)
<1>1. \A r \in S : f[r] \in Nat
  <2> TAKE r \in S
  <2>1. {r.stay} \in SUBSET Stay /\ IsFiniteSet({r.stay})
    BY FS_Singleton DEF Record
  <2>2. Taken({r.stay}, s) \in Nat
    BY <2>1, TakenIsSum
  <2> QED BY <2>2 DEF StayTakes
<1>2. ASSUME NEW h PROVE (h = A(h)) <=> IsSum(h, f, S)
  <2>1. ASSUME NEW u \in SUBSET S, u # {}
        PROVE  f[Picked(u)] = Taken({(CHOOSE r \in u : TRUE).stay}, s)
    <3>1. Picked(u) \in Record
      BY <2>1 DEF Picked
    <3> QED BY <3>1 DEF StayTakes, Picked
  <2> HIDE DEF f
  <2>2. ASSUME NEW u \in SUBSET S
        PROVE  (IF u = {} THEN 0
                ELSE Taken({(CHOOSE r \in u : TRUE).stay}, s)
                     + h[u \ {CHOOSE r \in u : TRUE}])
               = IF u = {} THEN 0 ELSE f[Picked(u)] + h[u \ {Picked(u)}]
    BY <2>1 DEF Picked
  <2>3. A(h) = [u \in SUBSET S |->
            IF u = {} THEN 0 ELSE f[Picked(u)] + h[u \ {Picked(u)}]]
    BY <2>2
  <2> HIDE DEF A
  <2> QED BY <2>3 DEF IsSum
<1>3. RecordedIn(S, s) = g[S]
  BY DEF RecordedIn, MapThenSumSet, MapThenFoldSet
<1> HIDE DEF A, f
<1>4. g = A(g)
  BY <1>1, <1>2, SumExists
<1>5. IsSum(g, f, S)
  BY <1>2, <1>4
<1> HIDE DEF g
<1>6. g[S] = SumOver(f, S) /\ SumOver(f, S) \in Nat
  BY <1>1, <1>5, SumUnique, SumIsCount, SumType
<1> QED BY <1>1, <1>3, <1>6 DEF f

\* What is taken of a slot is a number, table by table: folds are sums.
Counted(s) ==
    /\ HeldOn(s) \in Nat
    /\ IsFiniteSet({h \in holds : Consumes(h, s)})
    /\ BookedOn(s) = SumOver(ItemsTake(s), OpenOnes(bookings))
    /\ IsFiniteSet(OpenOnes(bookings))
    /\ \A b \in OpenOnes(bookings) : ItemsTake(s)[b] \in Nat
    /\ BookedOn(s) \in Nat
    /\ RecordedOn({"block", "external", "import"}, s) =
          SumOver(StayTakes(s), ActiveOnes(records))
    /\ IsFiniteSet(ActiveOnes(records))
    /\ \A r \in ActiveOnes(records) : StayTakes(s)[r] \in Nat
    /\ RecordedOn({"block", "external", "import"}, s) \in Nat
    /\ calendar[s].quantity \in Int

\* Every table has finitely many rows, so what it takes is counted, ...
LEMMA TablesCounted == IInv => \A s \in Slot : Counted(s)
<1> SUFFICES ASSUME IInv, NEW s \in Slot PROVE Counted(s)
  OBVIOUS
<1>1. /\ OpenOnes(bookings) \in SUBSET Booking
      /\ IsFiniteSet(OpenOnes(bookings))
      /\ \A b \in OpenOnes(bookings) : IsFiniteSet(b.items)
  BY FS_Subset DEF OpenOnes, IInv, TypeOK, FiniteRows
<1>2. /\ ActiveOnes(records) \in SUBSET Record
      /\ IsFiniteSet(ActiveOnes(records))
  BY FS_Subset DEF ActiveOnes, IInv, TypeOK, FiniteRows
<1>3. {r \in records : r.active /\ r.kind \in {"block", "external", "import"}}
         = ActiveOnes(records)
  BY DEF ActiveOnes, Record, IInv, TypeOK
<1>4. IsFiniteSet({h \in holds : Consumes(h, s)}) /\ HeldOn(s) \in Nat
  BY FS_Subset, FS_CardinalityType DEF IInv, FiniteRows, HeldOn
<1>5. BookedOn(s) = BookedIn(OpenOnes(bookings), s)
  BY DEF BookedOn, BookedIn, OpenOnes
<1>6. RecordedOn({"block", "external", "import"}, s) =
         RecordedIn(ActiveOnes(records), s)
  BY <1>3 DEF RecordedOn, RecordedIn
<1>7. calendar[s].quantity \in Int
  BY DEF IInv, TypeOK, CalendarRow
<1>8. /\ BookedOn(s) = SumOver(ItemsTake(s), OpenOnes(bookings))
      /\ BookedOn(s) \in Nat
      /\ \A b \in OpenOnes(bookings) : ItemsTake(s)[b] \in Nat
  BY <1>1, <1>5, BookedFold
<1>9. /\ RecordedOn({"block", "external", "import"}, s) =
            SumOver(StayTakes(s), ActiveOnes(records))
      /\ RecordedOn({"block", "external", "import"}, s) \in Nat
      /\ \A r \in ActiveOnes(records) : StayTakes(s)[r] \in Nat
  BY <1>2, <1>6, RecordedFold
<1> QED BY <1>1, <1>2, <1>4, <1>7, <1>8, <1>9 DEF Counted

\* ... after a step as well.
LEMMA TablesCountedNext == IInv' => \A s \in Slot : Counted(s)'
<1>1. IInv' => (\A s \in Slot : Counted(s))'
  BY TablesCounted, PTL
<1> QED BY <1>1

-----------------------------------------------------------------------------
(* What a commit moves in the calendar *)

\* A commit publishes what the transaction has written.
LEMMA PublishMoves ==
    ASSUME IInv, OpenInv, WriteInv, NEW w \in Worker, Publish(w),
           NEW s \in Slot
    PROVE  /\ txn[w].op \in Consuming =>
                 calendar'[s].quantity =
                    calendar[s].quantity - Moved(txn[w], s)
           /\ txn[w].op \in Restoring =>
                 calendar'[s].quantity =
                    calendar[s].quantity + Moved(txn[w], s)
           /\ txn[w].op \in Editing /\ EditsNeverLower =>
                 calendar'[s].quantity >= calendar[s].quantity
           /\ txn[w].op \in Editing /\ TotalsStay =>
                 calendar'[s].quantity = calendar[s].quantity
           /\ txn[w].op = "book" => calendar'[s] = calendar[s]
<1>1. calendar'[s] = IF lockedBy[s] = w THEN draft[s] ELSE calendar[s]
  BY DEF Publish
<1>2. Written(w)
  BY DEF WriteInv
<1>3. calendar[s].quantity \in Int
  BY DEF IInv, TypeOK, CalendarRow
<1>4. CASE lockedBy[s] = w
  <2>1. DraftOf(w, s) /\ txn[w].op # "book"
    BY <1>2, <1>4 DEF Written
  <2> QED BY <1>1, <1>4, <2>1 DEF DraftOf
<1>5. CASE lockedBy[s] # w
  <2>1. txn[w].op \in Consuming \cup Restoring => Done(txn[w], s) = {}
    BY <1>2, <1>5 DEF Written
  <2>2. txn[w].op \in Consuming \cup Restoring => Moved(txn[w], s) = 0
    BY <2>1, SumEmpty DEF Moved
  <2>3. calendar'[s] = calendar[s]
    BY <1>1, <1>5
  <2>4. txn[w].op \in Consuming \cup Restoring =>
           /\ calendar'[s].quantity = calendar[s].quantity - Moved(txn[w], s)
           /\ calendar'[s].quantity = calendar[s].quantity + Moved(txn[w], s)
    BY <1>3, <2>2, <2>3
  <2>5. calendar'[s].quantity >= calendar[s].quantity
    BY <1>3, <2>3
  <2> QED BY <2>3, <2>4, <2>5
<1> QED BY <1>4, <1>5

\* What has been written by the end is what the stays take, and never more.
LEMMA MovedIsTaken ==
    ASSUME NEW t \in Txn, IsFiniteSet(t.stays),
           t.op \in Consuming \cup Restoring, NEW s \in Slot
    PROVE  /\ Moved(t, s) \in Nat /\ Taken(t.stays, s) \in Nat
           /\ Moved(t, s) <= Taken(t.stays, s)
           /\ t.todo = <<>> => Moved(t, s) = Taken(t.stays, s)
<1> DEFINE U == {stay \in t.stays : Consumes(stay, s)}
<1>1. t.stays \in SUBSET Stay
  BY DEF Txn
<1>2. /\ IsFiniteSet(U) /\ Taken(t.stays, s) = SumOver(Quantity, U)
      /\ Taken(t.stays, s) \in Nat
      /\ \A stay \in U : Quantity[stay] \in Nat
  BY <1>1, TakenIsSum
<1>3. Moved(t, s) \in Nat
  BY MovedType
<1>4. \A stay : Covers(t.op, stay, s) <=> Consumes(stay, s)
  BY DEF Covers, Consumes, LastDay, Consuming, Restoring, Editing
<1>5. Done(t, s) \in SUBSET U
  BY <1>4 DEF Done
<1>6. t.todo = <<>> => Done(t, s) = U
  BY <1>4 DEF Done, Awaits
<1> HIDE DEF U
<1>7. SumOver(Quantity, Done(t, s)) <= SumOver(Quantity, U)
  BY <1>2, <1>5, SumSubset
<1> QED BY <1>2, <1>3, <1>6, <1>7 DEF Moved

\* A transaction that has written all its rows has moved what its stays take;
\* one that stops before that, no more.
LEMMA CommitMoves ==
    ASSUME IInv, OpenInv, WriteInv, NEW w \in Worker, Publish(w),
           NEW s \in Slot
    PROVE  /\ txn[w].op \in Consuming \cup Restoring =>
                 Taken(txn[w].stays, s) \in Nat
           /\ txn[w].op \in Consuming /\ txn[w].todo = <<>> =>
                 calendar'[s].quantity =
                    calendar[s].quantity - Taken(txn[w].stays, s)
           /\ txn[w].op \in Consuming =>
                 calendar'[s].quantity >=
                    calendar[s].quantity - Taken(txn[w].stays, s)
           /\ txn[w].op \in Restoring /\ txn[w].todo = <<>> =>
                 calendar'[s].quantity =
                    calendar[s].quantity + Taken(txn[w].stays, s)
<1>1. txn[w] \in Txn /\ IsFiniteSet(txn[w].stays)
  BY DEF IInv, TypeOK, FiniteRows, WellFormed
<1>2. calendar[s].quantity \in Int
  BY DEF IInv, TypeOK, CalendarRow
<1>3. txn[w].op \in Consuming \cup Restoring =>
         /\ Moved(txn[w], s) \in Nat /\ Taken(txn[w].stays, s) \in Nat
         /\ Moved(txn[w], s) <= Taken(txn[w].stays, s)
         /\ txn[w].todo = <<>> => Moved(txn[w], s) = Taken(txn[w].stays, s)
  BY <1>1, MovedIsTaken
<1>4. /\ txn[w].op \in Consuming =>
            calendar'[s].quantity = calendar[s].quantity - Moved(txn[w], s)
      /\ txn[w].op \in Restoring =>
            calendar'[s].quantity = calendar[s].quantity + Moved(txn[w], s)
  BY PublishMoves
<1> QED BY <1>2, <1>3, <1>4

-----------------------------------------------------------------------------
(* What a commit deletes of the hold rows *)

\* Deleting by id the rows of a snapshot frees no more than the snapshot has,
\* and all of that when the rows are still there.
LEMMA DeletedRows ==
    ASSUME IInv, TablesInv, NEW w \in Worker, NEW s \in Slot
    PROVE  LET left == {h \in WithoutRows(txn[w].rows) : Consumes(h, s)}
               read == Taken(GroupHoldsByRange(txn[w].rows), s)
           IN  /\ Cardinality(left) \in Nat /\ read \in Nat
               /\ Cardinality(left) + read >= HeldOn(s)
               /\ StillThere => Cardinality(left) + read = HeldOn(s)
<1> DEFINE rows == txn[w].rows
           left == {h \in WithoutRows(rows) : Consumes(h, s)}
           all == {h \in holds : Consumes(h, s)}
           D == {h \in all : h.id \in {g.id : g \in rows}}
           G == {g \in rows : Consumes(g, s)}
           f == [h \in D |-> CHOOSE g \in G : g.id = h.id]
<1>1. rows \in SUBSET Hold /\ IsFiniteSet(rows) /\ IsFiniteSet(G)
  BY FS_Subset DEF IInv, TypeOK, Txn, TablesInv, SnapshotInv
<1>2. IsFiniteSet(all) /\ IsFiniteSet(D)
  BY FS_Subset DEF IInv, FiniteRows
<1>3. /\ \A h \in holds \cup rows : IdOfHold(h)
      /\ \A g, h \in holds : g.id = h.id => g = h
      /\ \A g, h \in rows : g.id = h.id => g = h
  BY DEF TablesInv, HoldsInv, SnapshotInv
<1>4. \A g \in rows, h \in holds : g.id = h.id =>
         (Consumes(g, s) <=> Consumes(h, s))
  BY <1>3 DEF IdOfHold, Consumes, LastNight
<1>5. \A h \in D : f[h] \in G /\ f[h].id = h.id
  <2> TAKE h \in D
  <2>1. \E g \in G : g.id = h.id
    BY <1>4
  <2> QED BY <2>1
<1>6. f \in Injection(D, G)
  <2>1. f \in [D -> G]
    BY <1>5
  <2> D \subseteq holds
    OBVIOUS
  <2> HIDE DEF f, D, G
  <2>2. \A x, y \in D : f[x] = f[y] => x = y
    BY <1>3, <1>5
  <2> QED BY <2>1, <2>2 DEF Injection, IsInjective
<1>7. StillThere => f \in Surjection(D, G)
  <2> SUFFICES ASSUME StillThere PROVE f \in Surjection(D, G)
    OBVIOUS
  <2>1. ASSUME NEW g \in G PROVE \E h \in D : f[h] = g
    <3>1. PICK h \in holds : h.id = g.id
      BY DEF StillThere
    <3>2. h \in D
      BY <1>4, <3>1
    <3>3. f[h] \in G /\ f[h].id = g.id
      BY <1>5, <3>1, <3>2
    <3>4. f[h] = g
      BY <1>3, <3>3
    <3> QED BY <3>2, <3>4
  <2>2. f \in [D -> G]
    BY <1>5
  <2> HIDE DEF f
  <2> QED BY <2>1, <2>2 DEF Surjection
<1>8. /\ Cardinality(D) <= Cardinality(G)
      /\ StillThere => Cardinality(D) = Cardinality(G)
  <2> HIDE DEF f, D, G
  <2> QED BY <1>1, <1>6, <1>7, FS_Injection
<1>9. Taken(GroupHoldsByRange(rows), s) = Cardinality(G)
  BY <1>1, GroupsTakeTheirRows
<1>10. left = all \ D /\ all \cap D = D
  BY DEF WithoutRows
<1>11. Cardinality(left) = Cardinality(all) - Cardinality(D)
  <2> HIDE DEF left, all, D
  <2>1. Cardinality(all \ D) = Cardinality(all) - Cardinality(all \cap D)
    BY <1>2, FS_Difference
  <2> QED BY <1>10, <2>1
<1>12. HeldOn(s) = Cardinality(all)
  BY DEF HeldOn
<1>13. /\ Cardinality(all) \in Nat /\ Cardinality(D) \in Nat
       /\ Cardinality(G) \in Nat /\ Cardinality(left) \in Nat
  <2> HIDE DEF left, all, D, G
  <2>1. IsFiniteSet(all \ D)
    BY <1>2, FS_Difference
  <2>2. IsFiniteSet(left)
    BY <1>10, <2>1
  <2> QED BY <1>1, <1>2, <2>2, FS_CardinalityType
<1> HIDE DEF left, all, D, G, f
<1>14. /\ Cardinality(left) + Cardinality(G) >= HeldOn(s)
       /\ StillThere => Cardinality(left) + Cardinality(G) = HeldOn(s)
  BY <1>8, <1>11, <1>12, <1>13
<1> QED BY <1>9, <1>13, <1>14 DEF left

-----------------------------------------------------------------------------
(* What a row and the tables account for together *)

Kinds == {"block", "external", "import"}

\* What a step leaves of a slot and what it takes of it, together, is never
\* less than before, ...
NothingLost(s) ==
    calendar'[s].quantity + TakenOn(s)' >= calendar[s].quantity + TakenOn(s)

\* ... or is what it was.
NothingMoved(s) ==
    calendar'[s].quantity + TakenOn(s)' = calendar[s].quantity + TakenOn(s)

\* The arithmetic of a step: the calendar, the holds, the bookings, the records.
LEMMA Totals ==
    ASSUME IInv, IInv', NEW s \in Slot
    PROVE  /\ Counted(s) /\ Counted(s)'
           /\ NothingLost(s) <=>
                 calendar'[s].quantity + HeldOn(s)' + BookedOn(s)'
                    + RecordedOn(Kinds, s)'
                 >= calendar[s].quantity + HeldOn(s) + BookedOn(s)
                    + RecordedOn(Kinds, s)
           /\ NothingMoved(s) <=>
                 calendar'[s].quantity + HeldOn(s)' + BookedOn(s)'
                    + RecordedOn(Kinds, s)'
                 = calendar[s].quantity + HeldOn(s) + BookedOn(s)
                    + RecordedOn(Kinds, s)
           /\ NothingMoved(s) => NothingLost(s)
           /\ bookings' = bookings => BookedOn(s)' = BookedOn(s)
           /\ records' = records => RecordedOn(Kinds, s)' = RecordedOn(Kinds, s)
           /\ holds' = holds => HeldOn(s)' = HeldOn(s)
<1>1. Counted(s) /\ Counted(s)'
  BY TablesCounted, TablesCountedNext
<1>2. /\ bookings' = bookings => BookedOn(s)' = BookedOn(s)
      /\ records' = records => RecordedOn(Kinds, s)' = RecordedOn(Kinds, s)
  BY <1>1 DEF Counted, Kinds
<1>3. holds' = holds => HeldOn(s)' = HeldOn(s)
  BY DEF HeldOn
<1>4. /\ TakenOn(s) = HeldOn(s) + BookedOn(s) + RecordedOn(Kinds, s)
      /\ TakenOn(s)' = HeldOn(s)' + BookedOn(s)' + RecordedOn(Kinds, s)'
  BY DEF TakenOn, Kinds
<1>5. /\ HeldOn(s) \in Nat /\ BookedOn(s) \in Nat
      /\ RecordedOn(Kinds, s) \in Nat /\ calendar[s].quantity \in Int
  BY <1>1 DEF Counted, Kinds
<1>6. /\ HeldOn(s)' \in Nat /\ BookedOn(s)' \in Nat
      /\ RecordedOn(Kinds, s)' \in Nat /\ calendar'[s].quantity \in Int
  BY <1>1 DEF Counted, Kinds
<1> QED BY <1>1, <1>2, <1>3, <1>4, <1>5, <1>6 DEF NothingLost, NothingMoved

\* Holds take from the calendar what they are.
LEMMA HoldsBalance ==
    ASSUME IInv, IInv', OpenInv, WriteInv, TablesInv, NEW s \in Slot,
           NEW w \in Worker, CommitHolds(w)
    PROVE  NothingMoved(s)
<1> DEFINE stays == txn[w].stays
           new == {h \in UNION {HoldRows(txn[w], stay) : stay \in stays} :
                     Consumes(h, s)}
           all == {h \in holds : Consumes(h, s)}
           after == {h \in holds' : Consumes(h, s)}
<1>1. /\ txn[w].op = "hold" /\ txn[w].todo = <<>> /\ Publish(w)
      /\ UNCHANGED <<bookings, records>>
      /\ holds' = holds \cup
            UNION {HoldRows(txn[w], stay) : stay \in stays}
  BY DEF CommitHolds, ReadyToCommit
<1>2. /\ stays \in SUBSET Stay /\ IsFiniteSet(stays) /\ requests \in Nat
      /\ txn[w].user \in User
  BY <1>1 DEF IInv, TypeOK, FiniteRows, WellFormed, Txn
<1>3. Cardinality(new) = Taken(stays, s)
  BY <1>2, HoldRowsTakeTheirStays
<1>4. IsFiniteSet(all) /\ IsFiniteSet(after)
  BY Totals DEF Counted
<1>5. after = all \cup new
  BY <1>1
<1>6. all \cap new = {}
  <2>1. \A h \in all : h.id[1] < requests
    BY DEF TablesInv, HoldsInv, IdOfHold
  <2>2. \A h \in new : h.id[1] = requests
    BY DEF HoldRows
  <2> HIDE DEF all, new
  <2> QED BY <1>2, <2>1, <2>2
<1>7. HeldOn(s) = Cardinality(all) /\ HeldOn(s)' = Cardinality(after)
  BY DEF HeldOn
<1> HIDE DEF all, new, after
<1>8. IsFiniteSet(new)
  BY <1>4, <1>5, FS_Subset
<1>9. Cardinality(after) = Cardinality(all) + Cardinality(new) - 0
  BY <1>4, <1>5, <1>6, <1>8, FS_Union, FS_EmptySet
<1>10. /\ calendar'[s].quantity = calendar[s].quantity - Taken(stays, s)
       /\ Taken(stays, s) \in Nat
  BY <1>1, CommitMoves DEF Consuming
<1>11. /\ BookedOn(s)' = BookedOn(s)
       /\ RecordedOn(Kinds, s)' = RecordedOn(Kinds, s)
  BY <1>1, Totals
<1>12. /\ HeldOn(s) \in Nat /\ BookedOn(s) \in Nat
       /\ RecordedOn(Kinds, s) \in Nat /\ calendar[s].quantity \in Int
  BY Totals DEF Counted, Kinds
<1>13. HeldOn(s)' = HeldOn(s) + Taken(stays, s)
  BY <1>3, <1>7, <1>9, <1>10, <1>12
<1>14. calendar'[s].quantity + HeldOn(s)' + BookedOn(s)'
          + RecordedOn(Kinds, s)'
       = calendar[s].quantity + HeldOn(s) + BookedOn(s)
          + RecordedOn(Kinds, s)
  BY <1>10, <1>11, <1>12, <1>13
<1> QED BY <1>14, Totals

\* Hold rows that a release or a sweep deletes give back at least what they
\* took: the calendar is paid for every row that was read.
LEMMA ReleaseBalance ==
    ASSUME IInv, IInv', OpenInv, WriteInv, TablesInv, NEW s \in Slot,
           NEW w \in Worker, CommitRelease(w)
    PROVE  NothingLost(s) /\ (StillThere => NothingMoved(s))
<1> DEFINE stays == txn[w].stays
           left == {h \in WithoutRows(txn[w].rows) : Consumes(h, s)}
<1>1. /\ txn[w].op \in {"release", "sweep"} /\ txn[w].todo = <<>>
      /\ Publish(w) /\ UNCHANGED <<bookings, records>>
      /\ holds' = WithoutRows(txn[w].rows)
  BY DEF CommitRelease, ReadyToCommit
<1>2. stays = GroupHoldsByRange(txn[w].rows)
  BY <1>1 DEF TablesInv, SnapshotInv
<1>3. HeldOn(s)' = Cardinality(left)
  BY <1>1 DEF HeldOn
<1>4. /\ Cardinality(left) \in Nat /\ Taken(stays, s) \in Nat
      /\ Cardinality(left) + Taken(stays, s) >= HeldOn(s)
      /\ StillThere => Cardinality(left) + Taken(stays, s) = HeldOn(s)
  BY <1>2, DeletedRows
<1>5. calendar'[s].quantity = calendar[s].quantity + Taken(stays, s)
  BY <1>1, CommitMoves DEF Restoring
<1>6. /\ BookedOn(s)' = BookedOn(s)
      /\ RecordedOn(Kinds, s)' = RecordedOn(Kinds, s)
  BY <1>1, Totals
<1>7. /\ HeldOn(s) \in Nat /\ BookedOn(s) \in Nat
      /\ RecordedOn(Kinds, s) \in Nat /\ calendar[s].quantity \in Int
  BY Totals DEF Counted, Kinds
<1> HIDE DEF left, stays
<1>8. calendar'[s].quantity + HeldOn(s)' + BookedOn(s)'
         + RecordedOn(Kinds, s)'
      >= calendar[s].quantity + HeldOn(s) + BookedOn(s)
         + RecordedOn(Kinds, s)
  BY <1>3, <1>4, <1>5, <1>6, <1>7
<1>9. StillThere =>
         calendar'[s].quantity + HeldOn(s)' + BookedOn(s)'
            + RecordedOn(Kinds, s)'
         = calendar[s].quantity + HeldOn(s) + BookedOn(s)
            + RecordedOn(Kinds, s)
  BY <1>3, <1>4, <1>5, <1>6, <1>7
<1> QED BY <1>8, <1>9, Totals

\* A booking takes the place of at least the holds it consumes.
LEMMA BookingBalance ==
    ASSUME IInv, IInv', OpenInv, WriteInv, TablesInv, NEW s \in Slot,
           NEW w \in Worker, CommitBooking(w)
    PROVE  NothingLost(s) /\ (StillThere => NothingMoved(s))
<1> DEFINE stays == txn[w].stays
           left == {h \in WithoutRows(txn[w].rows) : Consumes(h, s)}
           b == [id |-> Cardinality(bookings) + 1, items |-> stays,
                 open |-> TRUE]
<1>1. /\ txn[w].op = "book" /\ Publish(w) /\ records' = records
      /\ holds' = WithoutRows(txn[w].rows) /\ bookings' = bookings \cup {b}
  BY DEF CommitBooking, ReadyToCommit
<1>2. stays = GroupHoldsByRange(txn[w].rows)
  BY <1>1 DEF TablesInv, SnapshotInv
<1>3. HeldOn(s)' = Cardinality(left)
  BY <1>1 DEF HeldOn
<1>4. /\ Cardinality(left) \in Nat /\ Taken(stays, s) \in Nat
      /\ Cardinality(left) + Taken(stays, s) >= HeldOn(s)
      /\ StillThere => Cardinality(left) + Taken(stays, s) = HeldOn(s)
  BY <1>2, DeletedRows
<1>5. calendar'[s].quantity = calendar[s].quantity
  BY <1>1, PublishMoves
<1>6. RecordedOn(Kinds, s)' = RecordedOn(Kinds, s)
  BY <1>1, Totals
<1>7. /\ HeldOn(s) \in Nat /\ BookedOn(s) \in Nat
      /\ RecordedOn(Kinds, s) \in Nat /\ calendar[s].quantity \in Int
  BY Totals DEF Counted, Kinds
<1>8. BookedOn(s)' = BookedOn(s) + Taken(stays, s)
  <2>1. /\ b.id = Cardinality(bookings) + 1 /\ b.items = stays /\ b.open
    OBVIOUS
  <2>2. b \in bookings' /\ bookings' \subseteq Booking
    BY <1>1 DEF IInv, TypeOK
  <2> HIDE DEF b
  <2>3. b \notin bookings
    BY <2>1, NumberedAdd DEF TablesInv, IInv, FiniteRows
  <2>4. OpenOnes(bookings') = OpenOnes(bookings) \cup {b}
        /\ b \notin OpenOnes(bookings)
    BY <1>1, <2>1, <2>3 DEF OpenOnes
  <2>5. ItemsTake(s)[b] = Taken(stays, s)
    BY <2>1, <2>2 DEF ItemsTake
  <2>6. /\ IsFiniteSet(OpenOnes(bookings))
        /\ \A x \in OpenOnes(bookings) : ItemsTake(s)[x] \in Nat
        /\ BookedOn(s) = SumOver(ItemsTake(s), OpenOnes(bookings))
    BY Totals DEF Counted
  <2>7. BookedOn(s)' = SumOver(ItemsTake(s), OpenOnes(bookings'))
    BY Totals DEF Counted
  <2>8. SumOver(ItemsTake(s), OpenOnes(bookings) \cup {b}) =
           SumOver(ItemsTake(s), OpenOnes(bookings)) + ItemsTake(s)[b]
    BY <1>4, <2>4, <2>5, <2>6, SumAdd
  <2> QED BY <2>4, <2>5, <2>6, <2>7, <2>8
<1> HIDE DEF left, stays, b
<1>9. calendar'[s].quantity + HeldOn(s)' + BookedOn(s)'
         + RecordedOn(Kinds, s)'
      >= calendar[s].quantity + HeldOn(s) + BookedOn(s)
         + RecordedOn(Kinds, s)
  BY <1>3, <1>4, <1>5, <1>6, <1>7, <1>8
<1>10. StillThere =>
         calendar'[s].quantity + HeldOn(s)' + BookedOn(s)'
            + RecordedOn(Kinds, s)'
         = calendar[s].quantity + HeldOn(s) + BookedOn(s)
            + RecordedOn(Kinds, s)
  BY <1>3, <1>4, <1>5, <1>6, <1>7, <1>8
<1> QED BY <1>9, <1>10, Totals

\* A booking that is closed gives back what its items took.
LEMMA CloseBalance ==
    ASSUME IInv, IInv', OpenInv, WriteInv, TablesInv, NEW s \in Slot,
           NEW w \in Worker, CommitClose(w)
    PROVE  NothingMoved(s)
<1> DEFINE closed(b) == IF b.id = txn[w].target THEN [b EXCEPT !.open = FALSE]
                        ELSE b
<1>1. /\ txn[w].op = "close" /\ txn[w].todo = <<>> /\ Publish(w)
      /\ holds' = holds /\ records' = records
      /\ bookings' = {closed(b) : b \in bookings}
  BY DEF CommitClose, ReadyToCommit
<1>2. PICK b \in bookings :
         b.id = txn[w].target /\ b.items = txn[w].stays /\ b.open
  BY <1>1 DEF TablesInv, TargetInv
<1>3. bookings \subseteq Booking
  BY DEF IInv, TypeOK
<1>4. calendar'[s].quantity = calendar[s].quantity + Taken(b.items, s)
      /\ Taken(b.items, s) \in Nat
  BY <1>1, <1>2, CommitMoves DEF Restoring
<1>5. OpenOnes(bookings') = OpenOnes(bookings) \ {b}
  <2>1. \A x \in bookings : x.id = b.id => x = b
    BY DEF TablesInv, Numbered
  <2>2. \A x \in bookings : x # b => closed(x) = x
    BY <1>2, <2>1
  <2>3. closed(b).open = FALSE
    BY <1>2, <1>3 DEF Booking
  <2> HIDE DEF closed
  <2> QED BY <1>1, <1>2, <2>2, <2>3 DEF OpenOnes
<1>6. b \in OpenOnes(bookings) /\ ItemsTake(s)[b] = Taken(b.items, s)
  BY <1>2, <1>3 DEF OpenOnes, ItemsTake
<1>7. BookedOn(s)' = BookedOn(s) - Taken(b.items, s)
  <2>1. /\ IsFiniteSet(OpenOnes(bookings))
        /\ \A x \in OpenOnes(bookings) : ItemsTake(s)[x] \in Nat
        /\ BookedOn(s) = SumOver(ItemsTake(s), OpenOnes(bookings))
    BY Totals DEF Counted
  <2>2. BookedOn(s)' = SumOver(ItemsTake(s), OpenOnes(bookings'))
    BY Totals DEF Counted
  <2>3. SumOver(ItemsTake(s), OpenOnes(bookings) \ {b}) =
           SumOver(ItemsTake(s), OpenOnes(bookings)) - ItemsTake(s)[b]
    BY <1>6, <2>1, SumRemove
  <2> QED BY <1>5, <1>6, <2>1, <2>2, <2>3
<1>8. /\ HeldOn(s)' = HeldOn(s)
      /\ RecordedOn(Kinds, s)' = RecordedOn(Kinds, s)
  BY <1>1, Totals
<1>9. /\ HeldOn(s) \in Nat /\ BookedOn(s) \in Nat
      /\ RecordedOn(Kinds, s) \in Nat /\ calendar[s].quantity \in Int
  BY Totals DEF Counted, Kinds
<1>10. calendar'[s].quantity + HeldOn(s)' + BookedOn(s)'
          + RecordedOn(Kinds, s)'
       = calendar[s].quantity + HeldOn(s) + BookedOn(s)
          + RecordedOn(Kinds, s)
  BY <1>4, <1>7, <1>8, <1>9
<1> QED BY <1>10, Totals

\* A block or an external reservation takes at least what the calendar is
\* charged for it: an import that stops half-way has charged some days only.
LEMMA RecordBalance ==
    ASSUME IInv, IInv', OpenInv, WriteInv, TablesInv, NEW s \in Slot,
           NEW w \in Worker, CommitRecord(w) \/ ImportRowFails(w)
    PROVE  NothingLost(s) /\ (CommitRecord(w) => NothingMoved(s))
<1>1. /\ txn[w].op \in Kinds /\ Publish(w) /\ InsertRecord(w)
      /\ holds' = holds /\ bookings' = bookings
      /\ CommitRecord(w) => txn[w].todo = <<>>
  BY DEF CommitRecord, ImportRowFails, ReadyToCommit, Kinds
<1>2. PICK stay : txn[w].stays = {stay}
  BY <1>1 DEF TablesInv, TargetInv, Kinds
<1> DEFINE r == [id |-> Cardinality(records) + 1, kind |-> txn[w].op,
                 stay |-> stay, active |-> TRUE]
<1>3. records' = records \cup {r}
  BY <1>1, <1>2 DEF InsertRecord
<1>4. /\ Taken({stay}, s) \in Nat
      /\ calendar'[s].quantity >= calendar[s].quantity - Taken({stay}, s)
      /\ CommitRecord(w) =>
            calendar'[s].quantity = calendar[s].quantity - Taken({stay}, s)
  BY <1>1, <1>2, CommitMoves DEF Consuming, Kinds
<1>5. RecordedOn(Kinds, s)' = RecordedOn(Kinds, s) + Taken({stay}, s)
  <2>1. r.id = Cardinality(records) + 1 /\ r.stay = stay /\ r.active
    OBVIOUS
  <2>2. r \in records' /\ records' \subseteq Record
    BY <1>3 DEF IInv, TypeOK
  <2> HIDE DEF r
  <2>3. r \notin records
    BY <2>1, NumberedAdd DEF TablesInv, IInv, FiniteRows
  <2>4. ActiveOnes(records') = ActiveOnes(records) \cup {r}
        /\ r \notin ActiveOnes(records)
    BY <1>3, <2>1, <2>3 DEF ActiveOnes
  <2>5. StayTakes(s)[r] = Taken({stay}, s)
    BY <2>1, <2>2 DEF StayTakes
  <2>6. /\ IsFiniteSet(ActiveOnes(records))
        /\ \A x \in ActiveOnes(records) : StayTakes(s)[x] \in Nat
        /\ RecordedOn(Kinds, s) = SumOver(StayTakes(s), ActiveOnes(records))
    BY Totals DEF Counted, Kinds
  <2>7. RecordedOn(Kinds, s)' = SumOver(StayTakes(s), ActiveOnes(records'))
    BY Totals DEF Counted, Kinds
  <2>8. SumOver(StayTakes(s), ActiveOnes(records) \cup {r}) =
           SumOver(StayTakes(s), ActiveOnes(records)) + StayTakes(s)[r]
    BY <1>4, <2>4, <2>5, <2>6, SumAdd
  <2> QED BY <2>4, <2>5, <2>6, <2>7, <2>8
<1>6. HeldOn(s)' = HeldOn(s) /\ BookedOn(s)' = BookedOn(s)
  BY <1>1, Totals
<1>7. /\ HeldOn(s) \in Nat /\ BookedOn(s) \in Nat
      /\ RecordedOn(Kinds, s) \in Nat /\ calendar[s].quantity \in Int
      /\ calendar'[s].quantity \in Int
  BY Totals DEF Counted, Kinds
<1>8. calendar'[s].quantity + HeldOn(s)' + BookedOn(s)'
         + RecordedOn(Kinds, s)'
      >= calendar[s].quantity + HeldOn(s) + BookedOn(s)
         + RecordedOn(Kinds, s)
  BY <1>4, <1>5, <1>6, <1>7
<1>9. CommitRecord(w) =>
         calendar'[s].quantity + HeldOn(s)' + BookedOn(s)'
            + RecordedOn(Kinds, s)'
         = calendar[s].quantity + HeldOn(s) + BookedOn(s)
            + RecordedOn(Kinds, s)
  BY <1>4, <1>5, <1>6, <1>7
<1> QED BY <1>8, <1>9, Totals

\* A block that is released gives back what it took; the second of two that
\* release it gives that back once more.
LEMMA CancelBalance ==
    ASSUME IInv, IInv', OpenInv, WriteInv, TablesInv, NEW s \in Slot,
           NEW w \in Worker, CommitCancel(w)
    PROVE  NothingLost(s) /\ (StillThere => NothingMoved(s))
<1> DEFINE cancelled(r) == IF r.id = txn[w].target
                           THEN [r EXCEPT !.active = FALSE] ELSE r
<1>1. /\ txn[w].op = "cancel" /\ txn[w].todo = <<>> /\ Publish(w)
      /\ holds' = holds /\ bookings' = bookings
      /\ records' = {cancelled(r) : r \in records}
  BY DEF CommitCancel, ReadyToCommit
<1>2. PICK r \in records : r.id = txn[w].target /\ txn[w].stays = {r.stay}
  BY <1>1 DEF TablesInv, TargetInv
<1>3. records \subseteq Record
  BY DEF IInv, TypeOK
<1>4. \A x \in records : x.id = r.id => x = r
  BY DEF TablesInv, Numbered
<1>5. calendar'[s].quantity = calendar[s].quantity + Taken({r.stay}, s)
      /\ Taken({r.stay}, s) \in Nat
  BY <1>1, <1>2, CommitMoves DEF Restoring
<1>6. StillThere => r.active
  BY <1>1, <1>2, <1>4 DEF StillThere
<1>7. ActiveOnes(records') = ActiveOnes(records) \ {r}
  <2>1. \A x \in records : x # r => cancelled(x) = x
    BY <1>2, <1>4
  <2>2. cancelled(r).active = FALSE
    BY <1>2, <1>3 DEF Record
  <2> HIDE DEF cancelled
  <2> QED BY <1>1, <1>2, <2>1, <2>2 DEF ActiveOnes
<1>8. /\ IsFiniteSet(ActiveOnes(records))
      /\ \A x \in ActiveOnes(records) : StayTakes(s)[x] \in Nat
      /\ RecordedOn(Kinds, s) = SumOver(StayTakes(s), ActiveOnes(records))
  BY Totals DEF Counted, Kinds
<1>9. RecordedOn(Kinds, s)' = SumOver(StayTakes(s), ActiveOnes(records'))
  BY Totals DEF Counted, Kinds
<1>10. /\ r.active =>
             RecordedOn(Kinds, s)' = RecordedOn(Kinds, s) - Taken({r.stay}, s)
       /\ ~r.active => RecordedOn(Kinds, s)' = RecordedOn(Kinds, s)
  <2>1. CASE r.active
    <3>1. r \in ActiveOnes(records) /\ StayTakes(s)[r] = Taken({r.stay}, s)
      BY <1>2, <1>3, <2>1 DEF ActiveOnes, StayTakes
    <3>2. SumOver(StayTakes(s), ActiveOnes(records) \ {r}) =
             SumOver(StayTakes(s), ActiveOnes(records)) - StayTakes(s)[r]
      BY <1>8, <3>1, SumRemove
    <3> QED BY <1>7, <1>8, <1>9, <2>1, <3>1, <3>2
  <2>2. CASE ~r.active
    <3>1. ActiveOnes(records) \ {r} = ActiveOnes(records)
      BY <2>2 DEF ActiveOnes
    <3> QED BY <1>7, <1>8, <1>9, <2>2, <3>1
  <2> QED BY <2>1, <2>2
<1>11. HeldOn(s)' = HeldOn(s) /\ BookedOn(s)' = BookedOn(s)
  BY <1>1, Totals
<1>12. /\ HeldOn(s) \in Nat /\ BookedOn(s) \in Nat
       /\ RecordedOn(Kinds, s) \in Nat /\ calendar[s].quantity \in Int
  BY Totals DEF Counted, Kinds
<1>13. calendar'[s].quantity + HeldOn(s)' + BookedOn(s)'
          + RecordedOn(Kinds, s)'
       >= calendar[s].quantity + HeldOn(s) + BookedOn(s)
          + RecordedOn(Kinds, s)
  BY <1>5, <1>10, <1>11, <1>12
<1>14. r.active =>
          calendar'[s].quantity + HeldOn(s)' + BookedOn(s)'
             + RecordedOn(Kinds, s)'
          = calendar[s].quantity + HeldOn(s) + BookedOn(s)
             + RecordedOn(Kinds, s)
  BY <1>5, <1>10, <1>11, <1>12
<1> QED BY <1>6, <1>13, <1>14, Totals

\* A calendar edit moves the tables nowhere.
LEMMA EditBalance ==
    ASSUME IInv, IInv', OpenInv, WriteInv, TablesInv, NEW s \in Slot,
           NEW w \in Worker, CommitEdit(w)
    PROVE  /\ EditsNeverLower => NothingLost(s)
           /\ TotalsStay => NothingMoved(s)
<1>1. /\ txn[w].op \in Editing /\ Publish(w)
      /\ UNCHANGED <<holds, bookings, records>>
  BY DEF CommitEdit, ReadyToCommit, tables
<1>2. /\ HeldOn(s)' = HeldOn(s) /\ BookedOn(s)' = BookedOn(s)
      /\ RecordedOn(Kinds, s)' = RecordedOn(Kinds, s)
  BY <1>1, Totals
<1>3. /\ HeldOn(s) \in Nat /\ BookedOn(s) \in Nat
      /\ RecordedOn(Kinds, s) \in Nat /\ calendar[s].quantity \in Int
      /\ calendar'[s].quantity \in Int
  BY Totals DEF Counted, Kinds
<1>4. /\ EditsNeverLower => calendar'[s].quantity >= calendar[s].quantity
      /\ TotalsStay => calendar'[s].quantity = calendar[s].quantity
  BY <1>1, PublishMoves
<1>5. EditsNeverLower =>
         calendar'[s].quantity + HeldOn(s)' + BookedOn(s)'
            + RecordedOn(Kinds, s)'
         >= calendar[s].quantity + HeldOn(s) + BookedOn(s)
            + RecordedOn(Kinds, s)
  BY <1>2, <1>3, <1>4
<1>6. TotalsStay =>
         calendar'[s].quantity + HeldOn(s)' + BookedOn(s)'
            + RecordedOn(Kinds, s)'
         = calendar[s].quantity + HeldOn(s) + BookedOn(s)
            + RecordedOn(Kinds, s)
  BY <1>2, <1>3, <1>4
<1> QED BY <1>5, <1>6, Totals

\* A step that leaves the row and the counts alone moves nothing.
LEMMA BalanceFrame ==
    ASSUME IInv, IInv', NEW s \in Slot,
           calendar'[s] = calendar[s], HeldOn(s)' = HeldOn(s),
           bookings' = bookings, records' = records
    PROVE  NothingMoved(s)
<1>1. /\ BookedOn(s)' = BookedOn(s)
      /\ RecordedOn(Kinds, s)' = RecordedOn(Kinds, s)
  BY Totals
<1> QED BY <1>1, Totals

\* A hold that expires takes what it took.
LEMMA ExpiryBalance ==
    ASSUME IInv, IInv', TablesInv, NEW s \in Slot, HoldExpires
    PROVE  NothingMoved(s)
<1>1. PICK h \in holds :
        /\ holds' = (holds \ {h}) \cup {[h EXCEPT !.expired = TRUE]}
        /\ UNCHANGED <<calendar, bookings, records>>
  BY DEF HoldExpires
<1> DEFINE x == [h EXCEPT !.expired = TRUE]
           all == {g \in holds : Consumes(g, s)}
           after == {g \in holds' : Consumes(g, s)}
<1>2. /\ x.id = h.id /\ (Consumes(x, s) <=> Consumes(h, s))
      /\ holds' = (holds \ {h}) \cup {x}
  BY <1>1 DEF IInv, TypeOK, Hold, Consumes, LastNight
<1> HIDE DEF x
<1>3. x \notin holds \ {h}
  BY <1>2 DEF TablesInv, HoldsInv
<1>4. IsFiniteSet(all) /\ HeldOn(s) = Cardinality(all)
      /\ HeldOn(s)' = Cardinality(after)
  BY Totals DEF Counted, HeldOn
<1>5. CASE Consumes(h, s)
  <2>1. after = (all \ {h}) \cup {x} /\ h \in all /\ x \notin all \ {h}
    BY <1>2, <1>3, <1>5
  <2> HIDE DEF all, after
  <2>2. /\ IsFiniteSet(all \ {h})
        /\ Cardinality(all \ {h}) = Cardinality(all) - 1
    BY <1>4, <2>1, FS_RemoveElement
  <2>3. Cardinality((all \ {h}) \cup {x}) = Cardinality(all \ {h}) + 1
    BY <2>1, <2>2, FS_AddElement
  <2>4. Cardinality(all) \in Nat
    BY <1>4, FS_CardinalityType
  <2>5. HeldOn(s)' = HeldOn(s)
    BY <1>4, <2>1, <2>2, <2>3, <2>4
  <2> QED BY <1>1, <2>5, BalanceFrame
<1>6. CASE ~Consumes(h, s)
  <2>1. after = all
    BY <1>2, <1>6
  <2> HIDE DEF all, after
  <2> QED BY <1>1, <1>4, <2>1, BalanceFrame
<1> QED BY <1>5, <1>6

-----------------------------------------------------------------------------
(* Every step *)

\* Nobody imports when there is nothing to import.
NoImports == \A w \in Worker : txn[w].op # "import"

\* No step loses capacity, unless a calendar row is deleted and reads as
\* untouched again; and when every row that was read is still there, a step
\* moves exactly as much in the tables as it moves in the calendar.
LEMMA StepBalance ==
    ASSUME IInv, IInv', OpenInv, WriteInv, TablesInv, NEW s \in Slot,
           [Next]_vars
    PROVE  /\ EditsNeverLower =>
                 NothingLost(s) \/ calendar'[s].quantity = Capacity[s[1]]
           /\ TotalsStay /\ StillThere /\ NoImports => NothingMoved(s)
<1>a. NothingMoved(s) => NothingLost(s)
  BY Totals
<1>b. ASSUME calendar'[s] = calendar[s],
             UNCHANGED <<holds, bookings, records>>
      PROVE  NothingMoved(s)
  BY <1>b, BalanceFrame, Totals
<1>1. ASSUME NEW w \in Worker, Begin(w) \/ WriteRow(w)
      PROVE  NothingMoved(s)
  <2>1. UNCHANGED <<calendar, holds, bookings, records>>
    BY <1>1 DEF Begin, CreateHolds, ReleaseHolds, CreateBooking,
       SweepExpiredHolds, CloseBooking, CreateManualBlock,
       CreateExternalReservation, ImportRow, CreateRecord, CancelRecord,
       SetAvailability, UpdateCalendarEntry, EditCalendar, WriteRow, tables
  <2> QED BY <1>b, <2>1
<1>2. ASSUME NEW w \in Worker,
             Refuse(w) \/ DeadlockVictim(w) \/ LoseTransaction(w)
      PROVE  NothingMoved(s)
  <2>1. UNCHANGED <<calendar, holds, bookings, records>>
    BY <1>2 DEF Refuse, DeadlockVictim, LoseTransaction, RollBack, tables
  <2> QED BY <1>b, <2>1
<1>3. ASSUME NEW w \in Worker, Finish(w)
      PROVE  /\ EditsNeverLower => NothingLost(s)
             /\ TotalsStay /\ StillThere /\ NoImports => NothingMoved(s)
  <2>1. ImportRowFails(w) => ~NoImports
    BY DEF ImportRowFails, NoImports
  <2> QED BY <1>a, <1>2, <1>3, <2>1, HoldsBalance, ReleaseBalance,
          BookingBalance, CloseBalance, RecordBalance, CancelBalance,
          EditBalance DEF Finish
<1>4. CASE RemoveCalendarEntry
  <2>1. PICK r \in RemovableSlots :
          calendar' = [calendar EXCEPT ![r] = [status |-> "AVAILABLE",
                                               quantity |-> Capacity[r[1]]]]
    BY <1>4 DEF RemoveCalendarEntry
  <2>2. UNCHANGED <<holds, bookings, records>>
    BY <1>4 DEF RemoveCalendarEntry, tables
  <2>3. calendar \in [Slot -> CalendarRow]
    BY DEF IInv, TypeOK
  <2>4. CASE s = r
    BY <2>1, <2>3, <2>4 DEF TotalsStay
  <2>5. CASE s # r
    BY <1>a, <1>b, <2>1, <2>2, <2>3, <2>5
  <2> QED BY <2>4, <2>5
<1>5. CASE HoldExpires
  BY <1>5, <1>a, ExpiryBalance
<1>6. CASE \/ CreateBlackout \/ UpdateBlackout \/ DeleteBlackout
           \/ UNCHANGED vars
  <2>1. UNCHANGED <<calendar, holds, bookings, records>>
    BY <1>6 DEF CreateBlackout, UpdateBlackout, DeleteBlackout, tables, vars
  <2> QED BY <1>a, <1>b, <2>1
<1> QED BY <1>a, <1>1, <1>2, <1>3, <1>4, <1>5, <1>6 DEF Next

\* What the engine keeps of its transactions and tables, whatever races.
EngineInv == IInv /\ OpenInv /\ WriteInv /\ TablesInv

\* It holds before any transaction, ...
LEMMA InitEngineInv == Init => EngineInv
<1> SUFFICES ASSUME Init PROVE EngineInv
  OBVIOUS
<1>1. /\ \A w \in Worker : txn[w] = NoTxn
      /\ \A s \in Slot : lockedBy[s] = NoWorker /\ draft[s] = calendar[s]
      /\ holds = {} /\ bookings = {} /\ records = {}
  BY DEF Init
<1>2. IInv
  BY InitIInv
<1>3. OpenInv
  BY <1>1, NobodyAssumption
     DEF OpenInv, CleanRows, IdleHasNoLock, NoTxn
<1>4. WriteInv
  BY <1>1, NobodyAssumption
     DEF WriteInv, Written, Cursor, NoTxn, Consuming, Restoring
<1>5. TablesInv
  <2>1. \A w \in Worker : txn[w].op = "idle" /\ txn[w].rows = {}
    BY <1>1 DEF NoTxn
  <2>2. \A w \in Worker : SnapshotInv(txn[w]) /\ TargetInv(txn[w])
    BY <2>1, FS_EmptySet DEF SnapshotInv, TargetInv, Editing
  <2>3. HoldsInv /\ Numbered(bookings) /\ Numbered(records)
    BY <1>1 DEF HoldsInv, Numbered
  <2> QED BY <2>1, <2>2, <2>3 DEF TablesInv
<1> QED BY <1>2, <1>3, <1>4, <1>5 DEF EngineInv

\* ... and every step keeps it.
LEMMA StepEngineInv == EngineInv /\ [Next]_vars => EngineInv'
<1> SUFFICES ASSUME EngineInv, [Next]_vars PROVE EngineInv'
  OBVIOUS
<1>1. EditStays
  BY DEF EditStays, EngineInv, TablesInv, TargetInv
<1> QED BY <1>1, StepIInv, StepOpenInv, StepWriteInv, StepTablesInv
        DEF EngineInv

\* The engine's invariant holds in every state.
THEOREM EngineInvariance == Spec => []EngineInv
<1> QED BY InitEngineInv, StepEngineInv, PTL DEF Spec

-----------------------------------------------------------------------------
(* Capacity is never lost *)

\* Before any transaction the calendar has all there is.
LEMMA InitBalance ==
    ASSUME Init, NEW s \in Slot
    PROVE  calendar[s].quantity = Capacity[s[1]] /\ TakenOn(s) = 0
<1>1. IInv
  BY InitIInv
<1>2. /\ calendar[s].quantity = Capacity[s[1]]
      /\ holds = {} /\ bookings = {} /\ records = {}
  BY DEF Init
<1>3. /\ OpenOnes(bookings) = {} /\ ActiveOnes(records) = {}
      /\ {h \in holds : Consumes(h, s)} = {}
  BY <1>2 DEF OpenOnes, ActiveOnes
<1>4. Counted(s)
  BY <1>1, TablesCounted
<1>5. HeldOn(s) = 0
  BY <1>3, FS_EmptySet DEF HeldOn
<1>6. BookedOn(s) = 0 /\ RecordedOn(Kinds, s) = 0
  BY <1>3, <1>4, SumEmpty DEF Counted, Kinds
<1> QED BY <1>2, <1>5, <1>6 DEF TakenOn, Kinds

\* What is taken and what is left are numbers.
LEMMA TakenIsNat ==
    ASSUME IInv, NEW s \in Slot
    PROVE  /\ TakenOn(s) \in Nat /\ calendar[s].quantity \in Int
           /\ Capacity[s[1]] \in Nat
<1>1. Counted(s)
  BY TablesCounted
<1>2. HeldOn(s) \in Nat /\ BookedOn(s) \in Nat /\ RecordedOn(Kinds, s) \in Nat
  BY <1>1 DEF Counted, Kinds
<1> QED BY <1>1, <1>2, CapacityAssumption DEF TakenOn, Kinds, Counted, Slot

\* The same after a step.
LEMMA TakenIsNatNext ==
    IInv' => \A s \in Slot :
                TakenOn(s)' \in Nat /\ calendar'[s].quantity \in Int
<1>1. IInv => \A s \in Slot : TakenOn(s) \in Nat /\ calendar[s].quantity \in Int
  BY TakenIsNat
<1>2. (IInv => \A s \in Slot :
                  TakenOn(s) \in Nat /\ calendar[s].quantity \in Int)'
  BY <1>1, PTL
<1> QED BY <1>2

\* Whatever races and whichever step fails, a calendar row and the tables
\* together account for at least the capacity of the unit, as long as no edit
\* of the calendar asks for less than that.
THEOREM CapacityIsNeverLost == Spec => [](EditsNeverLower => CapacityNeverLost)
<1> DEFINE Inv == EngineInv /\ (EditsNeverLower => CapacityNeverLost)
<1>1. Init => Inv
  <2> SUFFICES ASSUME Init PROVE EngineInv /\ CapacityNeverLost
    OBVIOUS
  <2>1. EngineInv
    BY InitEngineInv
  <2>2. ASSUME NEW s \in Slot
        PROVE  calendar[s].quantity + TakenOn(s) >= Capacity[s[1]]
    <3>1. Capacity[s[1]] \in Nat
      BY CapacityAssumption DEF Slot
    <3> QED BY <3>1, InitBalance
  <2> QED BY <2>1, <2>2 DEF CapacityNeverLost
<1>2. Inv /\ [Next]_vars => Inv'
  <2> SUFFICES ASSUME Inv, [Next]_vars PROVE Inv'
    OBVIOUS
  <2>1. EngineInv'
    BY StepEngineInv
  <2>2. ASSUME EditsNeverLower PROVE CapacityNeverLost'
    <3>1. ASSUME NEW s \in Slot
          PROVE  calendar'[s].quantity + TakenOn(s)' >= Capacity[s[1]]
      <4>1. NothingLost(s) \/ calendar'[s].quantity = Capacity[s[1]]
        BY <2>1, <2>2, StepBalance DEF EngineInv
      <4>2. calendar[s].quantity + TakenOn(s) >= Capacity[s[1]]
        BY <2>2 DEF CapacityNeverLost
      <4>3. /\ TakenOn(s) \in Nat /\ calendar[s].quantity \in Int
            /\ Capacity[s[1]] \in Nat
        BY TakenIsNat DEF EngineInv
      <4>4. TakenOn(s)' \in Nat /\ calendar'[s].quantity \in Int
        BY <2>1, TakenIsNatNext DEF EngineInv
      <4> QED BY <4>1, <4>2, <4>3, <4>4 DEF NothingLost
    <3> QED BY <3>1 DEF CapacityNeverLost
  <2>3. EditsNeverLower' <=> EditsNeverLower
    BY DEF EditsNeverLower
  <2> QED BY <2>1, <2>2, <2>3
<1>3. Inv => (EditsNeverLower => CapacityNeverLost)
  OBVIOUS
<1> QED BY <1>1, <1>2, <1>3, PTL DEF Spec

-----------------------------------------------------------------------------
(* The books balance *)

\* Between two steps of SerialSpec.
SerialInv == OneAtATime /\ StillThere /\ (ImportRequests = {} => NoImports)

\* No transaction deletes or closes what another one has read.
LEMMA EndKeepsStillThere ==
    ASSUME IInv, TablesInv, OneAtATime, StillThere,
           NEW w \in Worker, txn' = [txn EXCEPT ![w] = NoTxn],
           \A h \in holds :
              \/ \E g \in txn[w].rows : g.id = h.id
              \/ \E g \in holds' : g.id = h.id,
           \A r \in records :
              \/ txn[w].op = "cancel" /\ r.id = txn[w].target
              \/ \E q \in records' : q.id = r.id /\ (r.active => q.active)
    PROVE  StillThere'
<1>1. txn'[w] = NoTxn /\ \A v \in Worker \ {w} : txn'[v] = txn[v]
  BY DEF IInv, TypeOK
<1>2. ASSUME NEW v \in Worker, NEW g \in txn'[v].rows
      PROVE  \E h \in holds' : h.id = g.id
  <2>1. v # w /\ g \in txn[v].rows
    BY <1>1, <1>2 DEF NoTxn
  <2>2. PICK h \in holds : h.id = g.id
    BY <2>1 DEF StillThere
  <2>3. \A f \in txn[w].rows : f.id # h.id
    BY <2>1, <2>2 DEF OneAtATime
  <2> QED BY <2>2, <2>3
<1>3. ASSUME NEW v \in Worker, txn'[v].op = "cancel"
      PROVE  \E r \in records' : r.id = txn'[v].target /\ r.active
  <2>1. v # w /\ txn'[v] = txn[v]
    BY <1>1, <1>3 DEF NoTxn
  <2>2. PICK r \in records : r.id = txn[v].target /\ r.active
    BY <1>3, <2>1 DEF StillThere
  <2>3. ~(txn[w].op = "cancel" /\ txn[w].target = txn[v].target)
    BY <1>3, <2>1 DEF OneAtATime
  <2> QED BY <2>1, <2>2, <2>3
<1> QED BY <1>2, <1>3 DEF StillThere

\* A transaction that begins has just read what it read.
LEMMA BeginKeepsStillThere ==
    ASSUME IInv, StillThere, NEW w \in Worker, Begin(w)
    PROVE  StillThere'
<1>1. UNCHANGED <<holds, records>>
  BY DEF Begin, CreateHolds, ReleaseHolds, CreateBooking, SweepExpiredHolds,
         CloseBooking, CreateManualBlock, CreateExternalReservation, ImportRow,
         CreateRecord, CancelRecord, SetAvailability, UpdateCalendarEntry,
         EditCalendar, tables
<1>2. txn \in [Worker -> Txn]
  BY DEF IInv, TypeOK
<1> DEFINE Read(t) == /\ t.rows \subseteq holds
                      /\ t.op = "cancel" =>
                            \E r \in records : r.id = t.target /\ r.active
<1>3. ASSUME NEW t, Open(w, t), Read(t)
      PROVE  /\ \A v \in Worker \ {w} : txn'[v] = txn[v]
             /\ Read(txn'[w])
  <2>1. PICK todo, day : txn' = [txn EXCEPT ![w] =
                                   [t EXCEPT !.todo = todo, !.day = day]]
    BY <1>3 DEF Open
  <2>2. txn'[w] = [t EXCEPT !.todo = todo, !.day = day]
    BY <1>2, <2>1
  <2>3. /\ txn'[w].rows = t.rows /\ txn'[w].op = t.op
        /\ txn'[w].target = t.target
    BY <2>2
  <2>4. \A v \in Worker \ {w} : txn'[v] = txn[v]
    BY <1>2, <2>1
  <2> QED BY <1>3, <2>3, <2>4
<1>4. ASSUME NEW t, t.rows = {}, t.op # "cancel"
      PROVE  Read(t)
  BY <1>4
<1> DEFINE Goal == /\ \A v \in Worker \ {w} : txn'[v] = txn[v]
                   /\ Read(txn'[w])
<1>5. ASSUME CreateHolds(w) PROVE Goal
  <2>1. PICK user, request :
          Open(w, [NoTxn EXCEPT !.op = "hold", !.user = user,
                                !.stays = request])
    BY <1>5 DEF CreateHolds
  <2> DEFINE t == [NoTxn EXCEPT !.op = "hold", !.user = user,
                                !.stays = request]
  <2>2. t.rows = {} /\ t.op # "cancel"
    BY DEF NoTxn
  <2>3. Open(w, t)
    BY <2>1
  <2> HIDE DEF t, Read
  <2> QED BY <1>3, <1>4, <2>2, <2>3
<1>6. ASSUME NEW op \in {"release", "sweep"}, NEW rows \in SUBSET holds,
             Open(w, [NoTxn EXCEPT !.op = op, !.rows = rows,
                                   !.stays = GroupHoldsByRange(rows)])
      PROVE  Goal
  <2> DEFINE t == [NoTxn EXCEPT !.op = op, !.rows = rows,
                                !.stays = GroupHoldsByRange(rows)]
  <2>1. t.rows = rows /\ t.op = op
    BY DEF NoTxn
  <2>2. Open(w, t)
    BY <1>6
  <2> HIDE DEF t
  <2>3. Read(t)
    BY <2>1
  <2> HIDE DEF Read
  <2> QED BY <1>3, <2>2, <2>3
<1>7. ASSUME ReleaseHolds(w) \/ SweepExpiredHolds(w) PROVE Goal
  <2> HIDE DEF Goal
  <2>1. CASE ReleaseHolds(w)
    BY <1>6, <2>1 DEF ReleaseHolds, ActiveHoldsOf
  <2>2. CASE SweepExpiredHolds(w)
    BY <1>6, <2>2 DEF SweepExpiredHolds
  <2> QED BY <1>7, <2>1, <2>2
<1>8. ASSUME CreateBooking(w) PROVE Goal
  <2>1. PICK rows \in SUBSET holds :
          txn' = [txn EXCEPT ![w] =
                    [NoTxn EXCEPT !.op = "book", !.rows = rows,
                                  !.stays = GroupHoldsByRange(rows)]]
    BY <1>8 DEF CreateBooking, ActiveHoldsOf
  <2>2. /\ \A v \in Worker \ {w} : txn'[v] = txn[v]
        /\ txn'[w].op = "book" /\ txn'[w].rows = rows
    BY <1>2, <2>1 DEF NoTxn
  <2> QED BY <2>2
<1>9. ASSUME CloseBooking(w) PROVE Goal
  <2>1. PICK b \in bookings :
          Open(w, [NoTxn EXCEPT !.op = "close", !.target = b.id,
                                !.stays = b.items])
    BY <1>9 DEF CloseBooking
  <2> DEFINE t == [NoTxn EXCEPT !.op = "close", !.target = b.id,
                                !.stays = b.items]
  <2>2. t.rows = {} /\ t.op # "cancel"
    BY DEF NoTxn
  <2>3. Open(w, t)
    BY <2>1
  <2> HIDE DEF t, Read
  <2> QED BY <1>3, <1>4, <2>2, <2>3
<1>10. ASSUME CancelRecord(w) PROVE Goal
  <2>1. PICK r \in records :
          /\ r.active
          /\ Open(w, [NoTxn EXCEPT !.op = "cancel", !.target = r.id,
                                   !.stays = {r.stay}])
    BY <1>10 DEF CancelRecord
  <2> DEFINE t == [NoTxn EXCEPT !.op = "cancel", !.target = r.id,
                                !.stays = {r.stay}]
  <2>2. t.rows = {} /\ t.target = r.id
    BY DEF NoTxn
  <2>3. Open(w, t)
    BY <2>1
  <2> HIDE DEF t
  <2>4. Read(t)
    BY <2>1, <2>2
  <2> HIDE DEF Read
  <2> QED BY <1>3, <2>3, <2>4
<1>11. ASSUME NEW kind \in {"block", "external", "import"}, NEW stay,
              Open(w, [NoTxn EXCEPT !.op = kind, !.stays = {stay}])
       PROVE  Goal
  <2> DEFINE t == [NoTxn EXCEPT !.op = kind, !.stays = {stay}]
  <2>1. t.rows = {} /\ t.op # "cancel"
    BY DEF NoTxn
  <2>2. Open(w, t)
    BY <1>11
  <2> HIDE DEF t, Read
  <2> QED BY <1>3, <1>4, <2>1, <2>2
<1>12. ASSUME \/ CreateManualBlock(w) \/ CreateExternalReservation(w)
              \/ ImportRow(w)
       PROVE  Goal
  <2> HIDE DEF Goal
  <2> QED BY <1>11, <1>12 DEF CreateManualBlock, CreateExternalReservation,
             ImportRow, CreateRecord
<1>13. ASSUME SetAvailability(w) \/ UpdateCalendarEntry(w) PROVE Goal
  <2>1. PICK op \in Editing, edit \in EditRequests,
             status \in Status \cup {"KEEP"} :
          Open(w, [NoTxn EXCEPT !.op = op, !.stays = {edit},
                                !.status = status])
    BY <1>13 DEF SetAvailability, UpdateCalendarEntry, EditCalendar
  <2> DEFINE t == [NoTxn EXCEPT !.op = op, !.stays = {edit},
                                !.status = status]
  <2>2. t.rows = {} /\ t.op # "cancel"
    BY DEF NoTxn, Editing
  <2>3. Open(w, t)
    BY <2>1
  <2> HIDE DEF t, Read
  <2> QED BY <1>3, <1>4, <2>2, <2>3
<1>14. Goal
  <2> HIDE DEF Goal
  <2> QED BY <1>5, <1>7, <1>8, <1>9, <1>10, <1>12, <1>13 DEF Begin
<1> QED BY <1>1, <1>14 DEF StillThere

\* Nothing but an import begins an import.
LEMMA StepNoImports ==
    ASSUME IInv, ImportRequests = {}, NoImports, [Next]_vars
    PROVE  NoImports'
<1>1. txn \in [Worker -> Txn]
  BY DEF IInv, TypeOK
<1>2. ASSUME NEW w \in Worker, NEW t, Open(w, t), t.op # "import"
      PROVE  NoImports'
  <2>1. PICK todo, day : txn' = [txn EXCEPT ![w] =
                                   [t EXCEPT !.todo = todo, !.day = day]]
    BY <1>2 DEF Open
  <2>2. txn'[w].op = t.op /\ \A v \in Worker \ {w} : txn'[v] = txn[v]
    BY <1>1, <2>1
  <2> QED BY <1>2, <2>2 DEF NoImports
<1>3. ASSUME NEW w \in Worker, Begin(w) PROVE NoImports'
  <2>1. CASE CreateHolds(w)
    <3>1. PICK user, request :
            Open(w, [NoTxn EXCEPT !.op = "hold", !.user = user,
                                  !.stays = request])
      BY <2>1 DEF CreateHolds
    <3>2. [NoTxn EXCEPT !.op = "hold", !.user = user,
                        !.stays = request].op # "import"
      BY DEF NoTxn
    <3> QED BY <1>2, <3>1, <3>2
  <2>2. ASSUME NEW op \in {"release", "sweep"}, NEW rows,
               Open(w, [NoTxn EXCEPT !.op = op, !.rows = rows,
                                     !.stays = GroupHoldsByRange(rows)])
        PROVE  NoImports'
    <3>1. [NoTxn EXCEPT !.op = op, !.rows = rows,
             !.stays = GroupHoldsByRange(rows)].op # "import"
      BY DEF NoTxn
    <3> QED BY <1>2, <2>2, <3>1
  <2>3. CASE ReleaseHolds(w) \/ SweepExpiredHolds(w)
    BY <2>2, <2>3 DEF ReleaseHolds, SweepExpiredHolds
  <2>4. CASE CreateBooking(w)
    BY <1>1, <2>4 DEF CreateBooking, NoTxn, NoImports
  <2>5. ASSUME NEW op \in {"close", "cancel"}, NEW target, NEW stays,
               Open(w, [NoTxn EXCEPT !.op = op, !.target = target,
                                     !.stays = stays])
        PROVE  NoImports'
    <3>1. [NoTxn EXCEPT !.op = op, !.target = target,
                        !.stays = stays].op # "import"
      BY DEF NoTxn
    <3> QED BY <1>2, <2>5, <3>1
  <2>6. CASE CloseBooking(w) \/ CancelRecord(w)
    BY <2>5, <2>6 DEF CloseBooking, CancelRecord
  <2>7. ASSUME NEW kind \in {"block", "external"}, NEW stay,
               Open(w, [NoTxn EXCEPT !.op = kind, !.stays = {stay}])
        PROVE  NoImports'
    <3>1. [NoTxn EXCEPT !.op = kind, !.stays = {stay}].op # "import"
      BY DEF NoTxn
    <3> QED BY <1>2, <2>7, <3>1
  <2>8. CASE CreateManualBlock(w) \/ CreateExternalReservation(w)
    BY <2>7, <2>8 DEF CreateManualBlock, CreateExternalReservation,
                      CreateRecord
  <2>9. CASE ImportRow(w)
    BY <2>9 DEF ImportRow, CreateRecord
  <2>10. ASSUME NEW op \in Editing, NEW edit, NEW status,
                Open(w, [NoTxn EXCEPT !.op = op, !.stays = {edit},
                                      !.status = status])
         PROVE  NoImports'
    <3>1. [NoTxn EXCEPT !.op = op, !.stays = {edit},
                        !.status = status].op # "import"
      BY DEF NoTxn, Editing
    <3> QED BY <1>2, <2>10, <3>1
  <2>11. CASE SetAvailability(w) \/ UpdateCalendarEntry(w)
    BY <2>10, <2>11 DEF SetAvailability, UpdateCalendarEntry, EditCalendar
  <2> QED BY <1>3, <2>1, <2>3, <2>4, <2>6, <2>8, <2>9, <2>11 DEF Begin
<1>4. ASSUME NEW w \in Worker, Finish(w) \/ LoseTransaction(w)
      PROVE  NoImports'
  <2>1. txn' = [txn EXCEPT ![w] = NoTxn]
    BY <1>4 DEF Finish, CommitHolds, CommitRelease, CommitBooking,
       CommitClose, CommitRecord, CommitCancel, CommitEdit, Refuse,
       ImportRowFails, DeadlockVictim, LoseTransaction, Publish, RollBack
  <2> QED BY <1>1, <2>1 DEF NoTxn, NoImports
<1>5. ASSUME NEW w \in Worker, WriteRow(w) PROVE NoImports'
  <2>1. txn' = [txn EXCEPT ![w] = Advance(@)]
    BY <1>5 DEF WriteRow
  <2>2. Advance(txn[w]).op = txn[w].op
    BY <1>1 DEF Advance, Txn
  <2> QED BY <1>1, <2>1, <2>2 DEF NoImports
<1>6. CASE \/ HoldExpires \/ RemoveCalendarEntry \/ CreateBlackout
           \/ UpdateBlackout \/ DeleteBlackout \/ UNCHANGED vars
  BY <1>6 DEF HoldExpires, RemoveCalendarEntry, CreateBlackout,
     UpdateBlackout, DeleteBlackout, vars, NoImports
<1> QED BY <1>3, <1>4, <1>5, <1>6 DEF Next

\* What a transaction has read is still there when it commits.
LEMMA StepStillThere ==
    ASSUME IInv, TablesInv, OneAtATime, StillThere, [Next]_vars
    PROVE  StillThere'
<1>1. txn \in [Worker -> Txn]
  BY DEF IInv, TypeOK
<1>2. ASSUME NEW w \in Worker, Finish(w) \/ LoseTransaction(w)
      PROVE  StillThere'
  <2>1. txn' = [txn EXCEPT ![w] = NoTxn]
    BY <1>2 DEF Finish, CommitHolds, CommitRelease, CommitBooking,
       CommitClose, CommitRecord, CommitCancel, CommitEdit, Refuse,
       ImportRowFails, DeadlockVictim, LoseTransaction, Publish, RollBack
  <2>2. \A h \in holds : \/ \E g \in txn[w].rows : g.id = h.id
                         \/ \E g \in holds' : g.id = h.id
    <3>1. holds \subseteq holds' \/ holds' = WithoutRows(txn[w].rows)
      BY <1>2 DEF Finish, CommitHolds, CommitRelease, CommitBooking,
         CommitClose, CommitRecord, CommitCancel, CommitEdit, Refuse,
         ImportRowFails, DeadlockVictim, LoseTransaction, RollBack, tables
    <3> QED BY <3>1 DEF WithoutRows
  <2>3. \A r \in records :
           \/ txn[w].op = "cancel" /\ r.id = txn[w].target
           \/ \E q \in records' : q.id = r.id /\ (r.active => q.active)
    <3>1. CASE CommitCancel(w)
      <4>1. /\ txn[w].op = "cancel"
            /\ \A r \in records : r.id # txn[w].target => r \in records'
        BY <3>1 DEF CommitCancel, ReadyToCommit
      <4> QED BY <4>1
    <3>2. CASE ~CommitCancel(w)
      <4>1. records \subseteq records'
        BY <1>2, <3>2 DEF Finish, CommitHolds, CommitRelease, CommitBooking,
           CommitClose, CommitRecord, CommitEdit, Refuse, ImportRowFails,
           DeadlockVictim, LoseTransaction, RollBack, InsertRecord, tables
      <4> QED BY <4>1
    <3> QED BY <3>1, <3>2
  <2> QED BY <2>1, <2>2, <2>3, EndKeepsStillThere
<1>3. ASSUME NEW w \in Worker, WriteRow(w) PROVE StillThere'
  <2>1. txn' = [txn EXCEPT ![w] = Advance(@)] /\ UNCHANGED <<holds, records>>
    BY <1>3 DEF WriteRow, tables
  <2>2. /\ Advance(txn[w]).op = txn[w].op
        /\ Advance(txn[w]).rows = txn[w].rows
        /\ Advance(txn[w]).target = txn[w].target
    BY <1>1 DEF Advance, Txn
  <2> QED BY <1>1, <2>1, <2>2 DEF StillThere
<1>4. CASE HoldExpires
  <2>1. PICK h \in holds :
          /\ holds' = (holds \ {h}) \cup {[h EXCEPT !.expired = TRUE]}
          /\ UNCHANGED <<records, txn>>
    BY <1>4 DEF HoldExpires
  <2> DEFINE x == [h EXCEPT !.expired = TRUE]
  <2>2. x.id = h.id /\ holds' = (holds \ {h}) \cup {x}
    BY <2>1 DEF IInv, TypeOK, Hold
  <2> HIDE DEF x
  <2> QED BY <2>1, <2>2 DEF StillThere
<1>5. CASE \/ RemoveCalendarEntry \/ CreateBlackout
           \/ UpdateBlackout \/ DeleteBlackout \/ UNCHANGED vars
  <2>1. UNCHANGED <<holds, records, txn>>
    BY <1>5 DEF RemoveCalendarEntry, CreateBlackout, UpdateBlackout,
       DeleteBlackout, vars, tables
  <2> QED BY <2>1 DEF StillThere
<1>6. ASSUME NEW w \in Worker, Begin(w) PROVE StillThere'
  BY <1>6, BeginKeepsStillThere
<1> QED BY <1>2, <1>3, <1>4, <1>5, <1>6 DEF Next

\* When no two open transactions have read the same row, nothing is imported
\* and no edit changes a total, the calendar and the tables agree exactly in
\* every state: what a reader sees free is what nobody has taken.
THEOREM BooksBalance ==
    SerialSpec => [](TotalsStay /\ ImportRequests = {} => Conservation)
<1> DEFINE Given == TotalsStay /\ ImportRequests = {}
           Inv == EngineInv /\ SerialInv /\ (Given => Conservation)
<1>1. Init => Inv
  <2> SUFFICES ASSUME Init PROVE EngineInv /\ SerialInv /\ Conservation
    OBVIOUS
  <2>1. EngineInv
    BY InitEngineInv
  <2>2. \A w \in Worker : txn[w].op = "idle" /\ txn[w].rows = {}
    BY DEF Init, NoTxn
  <2>3. SerialInv
    BY <2>2 DEF SerialInv, OneAtATime, StillThere, NoImports
  <2>4. ASSUME NEW s \in Slot
        PROVE  calendar[s].quantity + TakenOn(s) = Capacity[s[1]]
    <3>1. Capacity[s[1]] \in Nat
      BY CapacityAssumption DEF Slot
    <3> QED BY <3>1, InitBalance
  <2> QED BY <2>1, <2>3, <2>4 DEF Conservation
<1>2. Inv /\ [SerialNext]_vars => Inv'
  <2> SUFFICES ASSUME Inv, [SerialNext]_vars PROVE Inv'
    OBVIOUS
  <2>1. [Next]_vars
    BY DEF SerialNext
  <2>2. EngineInv'
    BY <2>1, StepEngineInv
  <2>3. OneAtATime'
    BY DEF SerialNext, SerialInv, OneAtATime, vars
  <2>4. StillThere'
    BY <2>1, StepStillThere DEF EngineInv, SerialInv
  <2>5. ImportRequests = {} => NoImports'
    BY <2>1, StepNoImports DEF EngineInv, SerialInv
  <2>6. ASSUME Given PROVE Conservation'
    <3>1. ASSUME NEW s \in Slot
          PROVE  calendar'[s].quantity + TakenOn(s)' = Capacity[s[1]]
      <4>1. NothingMoved(s)
        BY <2>1, <2>2, <2>6, StepBalance DEF EngineInv, SerialInv
      <4>2. calendar[s].quantity + TakenOn(s) = Capacity[s[1]]
        BY <2>6 DEF Conservation
      <4> QED BY <4>1, <4>2 DEF NothingMoved
    <3> QED BY <3>1 DEF Conservation
  <2>7. Given' <=> Given
    BY DEF TotalsStay
  <2> HIDE DEF Given
  <2> QED BY <2>2, <2>3, <2>4, <2>5, <2>6, <2>7 DEF SerialInv
<1>3. Inv => (Given => Conservation)
  OBVIOUS
<1> HIDE DEF Inv
<1> QED BY <1>1, <1>2, <1>3, PTL DEF SerialSpec

\* Then no unit is promised to more holders than there are: selling one twice
\* takes two transactions that have read the same row.
THEOREM SerialNeverOverbooks ==
    SerialSpec => [](TotalsStay /\ ImportRequests = {} => NoOverbooking)
<1>1. Init => EngineInv
  BY InitEngineInv
<1>2. EngineInv /\ [SerialNext]_vars => EngineInv'
  BY StepEngineInv DEF SerialNext
<1>3. SerialSpec => []EngineInv
  BY <1>1, <1>2, PTL DEF SerialSpec
<1>4. EngineInv /\ Conservation => NoOverbooking
  <2> SUFFICES ASSUME EngineInv, Conservation, NEW s \in Slot
               PROVE  TakenOn(s) <= Capacity[s[1]]
    BY DEF NoOverbooking
  <2>1. /\ calendar[s].quantity >= 0
        /\ calendar[s].quantity + TakenOn(s) = Capacity[s[1]]
    BY DEF EngineInv, IInv, NeverNegative, Conservation
  <2>2. /\ TakenOn(s) \in Nat /\ calendar[s].quantity \in Int
        /\ Capacity[s[1]] \in Nat
    BY TakenIsNat DEF EngineInv
  <2> QED BY <2>1, <2>2
<1> QED BY <1>3, <1>4, BooksBalance, PTL

-----------------------------------------------------------------------------
(* The claims of Inventory *)

ClaimId == ({"hold"} \X HoldId) \cup ({"booking"} \X Nat \X Stay)
              \cup ({"record"} \X Nat)
ClaimRow == [id: ClaimId, slots: SUBSET Slot, quantity: Nat]
ClaimQuantity == [c \in ClaimRow |-> c.quantity]
Wanted(C, s) == SumOver(ClaimQuantity, {c \in C : s \in c.slots})

\* The demand of claims is a sum.
LEMMA DemandIsWanted ==
    ASSUME NEW C \in SUBSET ClaimRow, IsFiniteSet(C), NEW s
    PROVE  Promise!Demand(C, s) = Wanted(C, s)
<1> DEFINE S == {c \in C : s \in c.slots}
           f == ClaimQuantity
           A(h) == [u \in SUBSET S |->
                      IF u = {} THEN 0
                      ELSE (CHOOSE c \in u : TRUE).quantity
                           + h[u \ {CHOOSE c \in u : TRUE}]]
           g == CHOOSE h : h = A(h)
<1>1. S \in SUBSET ClaimRow /\ IsFiniteSet(S)
  BY FS_Subset
<1>2. \A c \in S : f[c] \in Nat
  BY <1>1 DEF ClaimQuantity, ClaimRow
<1>3. Promise!Demand(C, s) = g[S]
  BY DEF Promise!Demand, Promise!MapThenSumSet, Promise!MapThenFoldSet
<1>4. Wanted(C, s) = SumOver(f, S)
  BY DEF Wanted
<1> HIDE DEF S
<1>5. ASSUME NEW h PROVE (h = A(h)) <=> IsSum(h, f, S)
  <2>1. ASSUME NEW u \in SUBSET S, u # {}
        PROVE  f[Picked(u)] = (CHOOSE c \in u : TRUE).quantity
    BY <1>1, <2>1 DEF Picked, ClaimQuantity
  <2> HIDE DEF f
  <2>2. ASSUME NEW u \in SUBSET S
        PROVE  (IF u = {} THEN 0
                ELSE (CHOOSE c \in u : TRUE).quantity
                     + h[u \ {CHOOSE c \in u : TRUE}])
               = IF u = {} THEN 0 ELSE f[Picked(u)] + h[u \ {Picked(u)}]
    BY <2>1 DEF Picked
  <2>3. A(h) = [u \in SUBSET S |->
            IF u = {} THEN 0 ELSE f[Picked(u)] + h[u \ {Picked(u)}]]
    BY <2>2
  <2> HIDE DEF A
  <2> QED BY <2>3 DEF IsSum
<1> HIDE DEF A, f
<1>6. g = A(g)
  BY <1>1, <1>2, <1>5, SumExists
<1>7. IsSum(g, f, S)
  BY <1>5, <1>6
<1> HIDE DEF g
<1>8. g[S] = SumOver(f, S)
  BY <1>1, <1>2, <1>7, SumUnique, SumIsCount
<1> QED BY <1>3, <1>4, <1>8

\* Claims that want a slot are finitely many and want a number.
LEMMA WantedType ==
    ASSUME NEW C \in SUBSET ClaimRow, IsFiniteSet(C), NEW s
    PROVE  /\ IsFiniteSet({c \in C : s \in c.slots})
           /\ \A c \in C : ClaimQuantity[c] \in Nat
           /\ Wanted(C, s) \in Nat
<1> DEFINE S == {c \in C : s \in c.slots}
<1>1. IsFiniteSet(S)
  BY FS_Subset
<1>2. \A c \in C : ClaimQuantity[c] \in Nat
  BY DEF ClaimQuantity, ClaimRow
<1>3. \A c \in S : ClaimQuantity[c] \in Nat
  BY <1>2
<1>4. Wanted(C, s) = SumOver(ClaimQuantity, S)
  BY DEF Wanted
<1> HIDE DEF S
<1>5. Wanted(C, s) \in Nat
  BY <1>1, <1>3, <1>4, SumType
<1> QED BY <1>1, <1>2, <1>5 DEF S

\* No claims want nothing.
LEMMA WantedNone == ASSUME NEW s PROVE Wanted({}, s) = 0
<1>1. {c \in {} : s \in c.slots} = {}
  OBVIOUS
<1> QED BY <1>1, SumEmpty DEF Wanted

\* Claims of two sets that have none in common want the sum.
LEMMA WantedUnion ==
    ASSUME NEW C \in SUBSET ClaimRow, IsFiniteSet(C),
           NEW D \in SUBSET ClaimRow, IsFiniteSet(D), C \cap D = {}, NEW s
    PROVE  Wanted(C \cup D, s) = Wanted(C, s) + Wanted(D, s)
<1> DEFINE S(X) == {c \in X : s \in c.slots}
<1>1. /\ IsFiniteSet(S(C)) /\ \A c \in C : ClaimQuantity[c] \in Nat
      /\ IsFiniteSet(S(D)) /\ \A c \in D : ClaimQuantity[c] \in Nat
  BY WantedType
<1>2. /\ S(C \cup D) = S(C) \cup S(D) /\ S(C) \cap S(D) = {}
      /\ \A c \in S(C) \cup S(D) : ClaimQuantity[c] \in Nat
  BY <1>1
<1>3. /\ Wanted(C \cup D, s) = SumOver(ClaimQuantity, S(C \cup D))
      /\ Wanted(C, s) = SumOver(ClaimQuantity, S(C))
      /\ Wanted(D, s) = SumOver(ClaimQuantity, S(D))
  BY DEF Wanted
<1> HIDE DEF S
<1>4. SumOver(ClaimQuantity, S(C) \cup S(D)) =
         SumOver(ClaimQuantity, S(C)) + SumOver(ClaimQuantity, S(D))
  BY <1>1, <1>2, SumUnion
<1> QED BY <1>2, <1>3, <1>4

\* One claim more wants its quantity of the slots it is about.
LEMMA WantedAdd ==
    ASSUME NEW C \in SUBSET ClaimRow, IsFiniteSet(C), NEW c \in ClaimRow,
           c \notin C, NEW s
    PROVE  Wanted(C \cup {c}, s) =
              Wanted(C, s) + (IF s \in c.slots THEN c.quantity ELSE 0)
<1> DEFINE one == {x \in {c} : s \in x.slots}
<1>1. /\ {c} \in SUBSET ClaimRow /\ IsFiniteSet({c}) /\ C \cap {c} = {}
  BY FS_Singleton
<1>2. Wanted(C \cup {c}, s) = Wanted(C, s) + Wanted({c}, s)
  BY <1>1, WantedUnion
<1>3. Wanted({c}, s) = SumOver(ClaimQuantity, one)
  BY DEF Wanted
<1>4. ClaimQuantity[c] = c.quantity /\ c.quantity \in Nat
  BY DEF ClaimQuantity, ClaimRow
<1>5. CASE s \in c.slots
  <2>1. one = {} \cup {c}
    BY <1>5
  <2> HIDE DEF one
  <2>2. IsFiniteSet({}) /\ c \notin {} /\ \A y \in {} : ClaimQuantity[y] \in Nat
    BY FS_EmptySet
  <2>3. SumOver(ClaimQuantity, {} \cup {c}) =
           SumOver(ClaimQuantity, {}) + ClaimQuantity[c]
    BY <1>4, <2>2, SumAdd
  <2>4. SumOver(ClaimQuantity, {}) = 0
    BY SumEmpty
  <2>5. Wanted({c}, s) = c.quantity
    BY <1>3, <1>4, <2>1, <2>3, <2>4
  <2> QED BY <1>2, <1>5, <2>5
<1>6. CASE s \notin c.slots
  <2>1. one = {}
    BY <1>6
  <2> HIDE DEF one
  <2> QED BY <1>2, <1>3, <1>6, <2>1, SumEmpty
<1> QED BY <1>5, <1>6

\* A claim on a stay wants the slots that the stay consumes.
LEMMA ClaimType ==
    ASSUME NEW id \in ClaimId, NEW stay, NEW quantity \in Nat, NEW s \in Slot
    PROVE  LET c == Claim(id, stay, quantity)
           IN  /\ c \in ClaimRow /\ c.id = id /\ c.quantity = quantity
               /\ s \in c.slots <=> Consumes(stay, s)
BY DEF Claim, ClaimRow, SlotsOf

HoldClaims(rows) == {Claim(<<"hold", h.id>>, h, 1) : h \in rows}
ItemClaims(n, stays) ==
    {Claim(<<"booking", n, stay>>, stay, stay.quantity) : stay \in stays}
BookingClaims(rows) == UNION {ItemClaims(b.id, b.items) : b \in rows}
RecordClaims(rows) ==
    {Claim(<<"record", r.id>>, r.stay, r.stay.quantity) : r \in rows}

\* Hold rows want one unit each, ...
LEMMA HoldsWant ==
    ASSUME NEW rows \in SUBSET Hold, IsFiniteSet(rows),
           \A g, h \in rows : g.id = h.id => g = h, NEW s \in Slot
    PROVE  /\ HoldClaims(rows) \in SUBSET ClaimRow
           /\ IsFiniteSet(HoldClaims(rows))
           /\ Wanted(HoldClaims(rows), s) =
                 Cardinality({h \in rows : Consumes(h, s)})
<1> DEFINE N(U) == {h \in U : Consumes(h, s)}
           Good(U) == /\ HoldClaims(U) \in SUBSET ClaimRow
                      /\ IsFiniteSet(HoldClaims(U))
                      /\ Wanted(HoldClaims(U), s) = Cardinality(N(U))
           Bad == {U \in SUBSET rows : ~Good(U)}
<1> SUFFICES ASSUME Bad # {} PROVE FALSE
  OBVIOUS
<1> Bad \in SUBSET (SUBSET rows)
  OBVIOUS
<1> HIDE DEF Bad
<1>1. PICK U \in Bad : \A V \in Bad : V \subseteq U => V = U
  BY SmallestSubset
<1> USE DEF Bad
<1>2. U # {}
  <2>1. HoldClaims({}) = {} /\ N({}) = {}
    BY DEF HoldClaims
  <2>2. Good({})
    BY <2>1, WantedNone, FS_EmptySet
  <2> HIDE DEF Good
  <2> QED BY <2>2
<1>3. PICK x \in U : TRUE
  BY <1>2
<1> DEFINE V == U \ {x}
           c == Claim(<<"hold", x.id>>, x, 1)
<1>4. /\ x \in Hold /\ x \in rows /\ V \in SUBSET rows /\ U = V \cup {x}
      /\ x \notin V /\ V # U
  BY <1>3
<1>5. Good(V)
  <2> HIDE DEF Good
  <2> QED BY <1>1, <1>4
<1>6. <<"hold", x.id>> \in ClaimId
  BY <1>4 DEF Hold, ClaimId
<1>7. /\ c \in ClaimRow /\ c.id = <<"hold", x.id>> /\ c.quantity = 1
      /\ s \in c.slots <=> Consumes(x, s)
  BY <1>6, ClaimType
<1>8. \A d \in HoldClaims(V) : \E h \in V : d.id = <<"hold", h.id>>
  BY DEF HoldClaims, Claim
<1>9. c \notin HoldClaims(V)
  <2> HIDE DEF c, V
  <2> QED BY <1>4, <1>7, <1>8
<1>10. HoldClaims(U) = HoldClaims(V) \cup {c}
  BY <1>4 DEF HoldClaims
<1> HIDE DEF c
<1>11. Wanted(HoldClaims(U), s) =
          Wanted(HoldClaims(V), s) + (IF Consumes(x, s) THEN 1 ELSE 0)
  <2>1. HoldClaims(V) \in SUBSET ClaimRow /\ IsFiniteSet(HoldClaims(V))
    BY <1>5
  <2> DEFINE D == HoldClaims(V)
  <2> HIDE DEF D, Good, V, N
  <2>2. Wanted(D \cup {c}, s) =
           Wanted(D, s) + (IF s \in c.slots THEN c.quantity ELSE 0)
    BY <1>7, <1>9, <2>1, WantedAdd DEF D
  <2> QED BY <1>7, <1>10, <2>2 DEF D
<1>12. Cardinality(N(U)) =
          Cardinality(N(V)) + (IF Consumes(x, s) THEN 1 ELSE 0)
  <2>1. IsFiniteSet(N(V))
    BY FS_Subset
  <2>2. CASE Consumes(x, s)
    <3>1. N(U) = N(V) \cup {x} /\ x \notin N(V)
      BY <1>4, <2>2
    <3> HIDE DEF N
    <3> QED BY <2>1, <2>2, <3>1, FS_AddElement
  <2>3. CASE ~Consumes(x, s)
    <3>1. N(U) = N(V)
      BY <1>4, <2>3
    <3>2. Cardinality(N(V)) \in Nat
      BY <2>1, FS_CardinalityType
    <3> HIDE DEF N
    <3> QED BY <2>3, <3>1, <3>2
  <2> QED BY <2>2, <2>3
<1>13. IsFiniteSet(HoldClaims(U)) /\ HoldClaims(U) \in SUBSET ClaimRow
  <2>1. HoldClaims(V) \in SUBSET ClaimRow /\ IsFiniteSet(HoldClaims(V))
    BY <1>5
  <2> HIDE DEF Good, V
  <2>2. IsFiniteSet(HoldClaims(V) \cup {c})
    BY <2>1, FS_AddElement
  <2> QED BY <1>7, <1>10, <2>1, <2>2
<1>14. Good(U)
  BY <1>5, <1>11, <1>12, <1>13
<1> HIDE DEF Good
<1> QED BY <1>1, <1>14

\* ... the items of a booking what they take, ...
LEMMA ItemsWant ==
    ASSUME NEW n \in Nat, NEW stays \in SUBSET Stay, IsFiniteSet(stays),
           NEW s \in Slot
    PROVE  /\ ItemClaims(n, stays) \in SUBSET ClaimRow
           /\ IsFiniteSet(ItemClaims(n, stays))
           /\ Wanted(ItemClaims(n, stays), s) = Taken(stays, s)
<1> DEFINE Good(U) == /\ ItemClaims(n, U) \in SUBSET ClaimRow
                      /\ IsFiniteSet(ItemClaims(n, U))
                      /\ Wanted(ItemClaims(n, U), s) = Taken(U, s)
           Bad == {U \in SUBSET stays : ~Good(U)}
<1> SUFFICES ASSUME Bad # {} PROVE FALSE
  OBVIOUS
<1> Bad \in SUBSET (SUBSET stays)
  OBVIOUS
<1> HIDE DEF Bad
<1>1. PICK U \in Bad : \A V \in Bad : V \subseteq U => V = U
  BY SmallestSubset
<1> USE DEF Bad
<1>2. U # {}
  <2>1. ItemClaims(n, {}) = {}
    BY DEF ItemClaims
  <2>2. Good({})
    BY <2>1, WantedNone, TakenOfNone, FS_EmptySet
  <2> HIDE DEF Good
  <2> QED BY <2>2
<1>3. PICK x \in U : TRUE
  BY <1>2
<1> DEFINE V == U \ {x}
           c == Claim(<<"booking", n, x>>, x, x.quantity)
<1>4. /\ x \in Stay /\ x.quantity \in Nat /\ V \in SUBSET stays
      /\ U = V \cup {x} /\ x \notin V /\ V # U /\ V \in SUBSET Stay
  BY <1>3 DEF Stay
<1>5. Good(V)
  <2> HIDE DEF Good
  <2> QED BY <1>1, <1>4
<1>6. <<"booking", n, x>> \in ClaimId
  BY <1>4 DEF ClaimId
<1>7. /\ c \in ClaimRow /\ c.id = <<"booking", n, x>>
      /\ c.quantity = x.quantity
      /\ s \in c.slots <=> Consumes(x, s)
  BY <1>4, <1>6, ClaimType
<1>8. \A d \in ItemClaims(n, V) : \E y \in V : d.id = <<"booking", n, y>>
  BY DEF ItemClaims, Claim
<1>9. c \notin ItemClaims(n, V)
  <2> HIDE DEF c, V
  <2> QED BY <1>4, <1>7, <1>8
<1>10. ItemClaims(n, U) = ItemClaims(n, V) \cup {c}
  BY <1>4 DEF ItemClaims
<1> HIDE DEF c
<1>11. Wanted(ItemClaims(n, U), s) = Wanted(ItemClaims(n, V), s)
          + (IF Consumes(x, s) THEN x.quantity ELSE 0)
  <2>1. ItemClaims(n, V) \in SUBSET ClaimRow /\ IsFiniteSet(ItemClaims(n, V))
    BY <1>5
  <2> DEFINE D == ItemClaims(n, V)
  <2> HIDE DEF D, Good, V
  <2>2. Wanted(D \cup {c}, s) =
           Wanted(D, s) + (IF s \in c.slots THEN c.quantity ELSE 0)
    BY <1>7, <1>9, <2>1, WantedAdd DEF D
  <2> QED BY <1>7, <1>10, <2>2 DEF D
<1>12. Taken(U, s) =
          Taken(V, s) + (IF Consumes(x, s) THEN x.quantity ELSE 0)
  <2>1. IsFiniteSet(V)
    BY FS_Subset
  <2> HIDE DEF V
  <2> QED BY <1>4, <2>1, TakenAdd
<1>13. IsFiniteSet(ItemClaims(n, U)) /\ ItemClaims(n, U) \in SUBSET ClaimRow
  <2>1. ItemClaims(n, V) \in SUBSET ClaimRow /\ IsFiniteSet(ItemClaims(n, V))
    BY <1>5
  <2> HIDE DEF Good, V
  <2>2. IsFiniteSet(ItemClaims(n, V) \cup {c})
    BY <2>1, FS_AddElement
  <2> QED BY <1>7, <1>10, <2>1, <2>2
<1>14. Good(U)
  BY <1>5, <1>11, <1>12, <1>13
<1> HIDE DEF Good
<1> QED BY <1>1, <1>14

\* ... blocks and external reservations what their stays take, ...
LEMMA RecordsWant ==
    ASSUME NEW rows \in SUBSET Record, IsFiniteSet(rows),
           \A q, r \in rows : q.id = r.id => q = r, NEW s \in Slot
    PROVE  /\ RecordClaims(rows) \in SUBSET ClaimRow
           /\ IsFiniteSet(RecordClaims(rows))
           /\ Wanted(RecordClaims(rows), s) = SumOver(StayTakes(s), rows)
<1> DEFINE Good(U) == /\ RecordClaims(U) \in SUBSET ClaimRow
                      /\ IsFiniteSet(RecordClaims(U))
                      /\ Wanted(RecordClaims(U), s) = SumOver(StayTakes(s), U)
           Bad == {U \in SUBSET rows : ~Good(U)}
<1> SUFFICES ASSUME Bad # {} PROVE FALSE
  OBVIOUS
<1> Bad \in SUBSET (SUBSET rows)
  OBVIOUS
<1> HIDE DEF Bad
<1>1. PICK U \in Bad : \A V \in Bad : V \subseteq U => V = U
  BY SmallestSubset
<1> USE DEF Bad
<1>2. U # {}
  <2>1. RecordClaims({}) = {}
    BY DEF RecordClaims
  <2>2. Good({})
    BY <2>1, WantedNone, SumEmpty, FS_EmptySet
  <2> HIDE DEF Good
  <2> QED BY <2>2
<1>3. PICK x \in U : TRUE
  BY <1>2
<1> DEFINE V == U \ {x}
           c == Claim(<<"record", x.id>>, x.stay, x.stay.quantity)
<1>4. /\ x \in Record /\ x.stay \in Stay /\ x.stay.quantity \in Nat
      /\ V \in SUBSET rows /\ V \in SUBSET Record /\ x \in rows
      /\ U = V \cup {x} /\ x \notin V /\ V # U
  BY <1>3 DEF Record, Stay
<1>5. Good(V)
  <2> HIDE DEF Good
  <2> QED BY <1>1, <1>4
<1>6. <<"record", x.id>> \in ClaimId
  BY <1>4 DEF ClaimId, Record
<1>7. /\ c \in ClaimRow /\ c.id = <<"record", x.id>>
      /\ c.quantity = x.stay.quantity
      /\ s \in c.slots <=> Consumes(x.stay, s)
  BY <1>4, <1>6, ClaimType
<1>8. \A d \in RecordClaims(V) : \E y \in V : d.id = <<"record", y.id>>
  BY DEF RecordClaims, Claim
<1>9. c \notin RecordClaims(V)
  <2> HIDE DEF c, V
  <2> QED BY <1>4, <1>7, <1>8
<1>10. RecordClaims(U) = RecordClaims(V) \cup {c}
  BY <1>4 DEF RecordClaims
<1> HIDE DEF c
<1>11. IsFiniteSet(V)
  BY FS_Subset
<1>12. RecordClaims(V) \in SUBSET ClaimRow /\ IsFiniteSet(RecordClaims(V))
       /\ Wanted(RecordClaims(V), s) = SumOver(StayTakes(s), V)
  BY <1>5
<1>13. /\ \A r \in V : StayTakes(s)[r] \in Nat
       /\ SumOver(StayTakes(s), V) \in Nat
  BY <1>4, <1>11, RecordedFold
<1>14. StayTakes(s)[x] = (IF Consumes(x.stay, s) THEN x.stay.quantity ELSE 0)
       /\ StayTakes(s)[x] \in Nat
  BY <1>4, TakenOfOne DEF StayTakes
<1>15. Good(U)
  <2> DEFINE D == RecordClaims(V)
             f == StayTakes(s)
  <2> HIDE DEF D, f, V, Good
  <2>1. Wanted(D \cup {c}, s) =
           Wanted(D, s) + (IF s \in c.slots THEN c.quantity ELSE 0)
    BY <1>7, <1>9, <1>12, WantedAdd DEF D
  <2>2. SumOver(f, V \cup {x}) = SumOver(f, V) + f[x]
    BY <1>4, <1>11, <1>13, <1>14, SumAdd DEF f
  <2>3. Wanted(RecordClaims(U), s) = SumOver(StayTakes(s), U)
    BY <1>4, <1>7, <1>10, <1>12, <1>14, <2>1, <2>2 DEF D, f
  <2>4. IsFiniteSet(D \cup {c}) /\ D \cup {c} \in SUBSET ClaimRow
    BY <1>7, <1>12, FS_AddElement DEF D
  <2> QED BY <1>10, <2>3, <2>4 DEF D, Good
<1> HIDE DEF Good
<1> QED BY <1>1, <1>15

\* ... and bookings what their items take.
LEMMA BookingsWant ==
    ASSUME NEW rows \in SUBSET Booking, IsFiniteSet(rows),
           \A b \in rows : IsFiniteSet(b.items),
           \A b, q \in rows : b.id = q.id => b = q, NEW s \in Slot
    PROVE  /\ BookingClaims(rows) \in SUBSET ClaimRow
           /\ IsFiniteSet(BookingClaims(rows))
           /\ Wanted(BookingClaims(rows), s) = SumOver(ItemsTake(s), rows)
<1> DEFINE Good(U) == /\ BookingClaims(U) \in SUBSET ClaimRow
                      /\ IsFiniteSet(BookingClaims(U))
                      /\ Wanted(BookingClaims(U), s) = SumOver(ItemsTake(s), U)
           Bad == {U \in SUBSET rows : ~Good(U)}
<1> SUFFICES ASSUME Bad # {} PROVE FALSE
  OBVIOUS
<1> Bad \in SUBSET (SUBSET rows)
  OBVIOUS
<1> HIDE DEF Bad
<1>1. PICK U \in Bad : \A V \in Bad : V \subseteq U => V = U
  BY SmallestSubset
<1> USE DEF Bad
<1>2. U # {}
  <2>1. BookingClaims({}) = {}
    BY DEF BookingClaims
  <2>2. Good({})
    BY <2>1, WantedNone, SumEmpty, FS_EmptySet
  <2> HIDE DEF Good
  <2> QED BY <2>2
<1>3. PICK x \in U : TRUE
  BY <1>2
<1> DEFINE V == U \ {x}
           C == ItemClaims(x.id, x.items)
<1>4. /\ x \in Booking /\ x.items \in SUBSET Stay /\ x.id \in Nat
      /\ IsFiniteSet(x.items) /\ x \in rows
      /\ V \in SUBSET rows /\ V \in SUBSET Booking
      /\ U = V \cup {x} /\ x \notin V /\ V # U
  BY <1>3 DEF Booking
<1>5. Good(V)
  <2> HIDE DEF Good
  <2> QED BY <1>1, <1>4
<1>6. /\ C \in SUBSET ClaimRow /\ IsFiniteSet(C)
      /\ Wanted(C, s) = Taken(x.items, s)
  BY <1>4, ItemsWant
<1>7. \A d \in C : d.id[2] = x.id
  BY DEF ItemClaims, Claim
<1>8. \A d \in BookingClaims(V) : \E y \in V : d.id[2] = y.id
  BY DEF BookingClaims, ItemClaims, Claim
<1>9. BookingClaims(V) \cap C = {}
  <2> HIDE DEF C, V
  <2> QED BY <1>4, <1>7, <1>8
<1>10. BookingClaims(U) = BookingClaims(V) \cup C
  <2> HIDE DEF C, V
  <2>1. U = V \cup {x} /\ C = ItemClaims(x.id, x.items)
    BY <1>4 DEF C
  <2> QED BY <2>1 DEF BookingClaims
<1> HIDE DEF C
<1>11. IsFiniteSet(V)
  BY FS_Subset
<1>12. BookingClaims(V) \in SUBSET ClaimRow /\ IsFiniteSet(BookingClaims(V))
       /\ Wanted(BookingClaims(V), s) = SumOver(ItemsTake(s), V)
  BY <1>5
<1>13. /\ \A b \in V : ItemsTake(s)[b] \in Nat
       /\ SumOver(ItemsTake(s), V) \in Nat
  BY <1>4, <1>11, BookedFold
<1>14. ItemsTake(s)[x] = Taken(x.items, s) /\ Taken(x.items, s) \in Nat
  BY <1>4, TakenIsSum DEF ItemsTake
<1>15. Good(U)
  <2> DEFINE D == BookingClaims(V)
             f == ItemsTake(s)
  <2> HIDE DEF D, f, V, Good
  <2>1. Wanted(D \cup C, s) = Wanted(D, s) + Wanted(C, s)
    BY <1>6, <1>9, <1>12, WantedUnion DEF D
  <2>2. SumOver(f, V \cup {x}) = SumOver(f, V) + f[x]
    BY <1>4, <1>11, <1>13, <1>14, SumAdd DEF f
  <2>3. Wanted(BookingClaims(U), s) = SumOver(ItemsTake(s), U)
    BY <1>4, <1>6, <1>10, <1>12, <1>14, <2>1, <2>2 DEF D, f
  <2>4. IsFiniteSet(D \cup C) /\ D \cup C \in SUBSET ClaimRow
    BY <1>6, <1>12, FS_Union DEF D
  <2> QED BY <1>10, <2>3, <2>4 DEF D, Good
<1> HIDE DEF Good
<1> QED BY <1>1, <1>15

\* The claims of the tables, table by table.
LEMMA ClaimsOfTables ==
    Claims = (HoldClaims(holds) \cup BookingClaims(OpenOnes(bookings)))
                \cup RecordClaims(ActiveOnes(records))
<1> DEFINE items(b) == {Claim(<<"booking", b.id, stay>>, stay, stay.quantity)
                          : stay \in b.items}
<1>1. BookingClaims(OpenOnes(bookings)) =
         UNION {items(b) : b \in {b \in bookings : b.open}}
  <2>1. \A b : ItemClaims(b.id, b.items) = items(b)
    BY DEF ItemClaims
  <2> HIDE DEF items
  <2> QED BY <2>1 DEF BookingClaims, OpenOnes
<1>2. HoldClaims(holds) = {Claim(<<"hold", h.id>>, h, 1) : h \in holds}
  BY DEF HoldClaims
<1>3. RecordClaims(ActiveOnes(records)) =
         {Claim(<<"record", r.id>>, r.stay, r.stay.quantity)
            : r \in {r \in records : r.active}}
  BY DEF RecordClaims, ActiveOnes
<1> QED BY <1>1, <1>2, <1>3 DEF Claims

\* A claim is granted by the table that its id names.
LEMMA ClaimsApart ==
    ASSUME NEW hs, NEW bs, NEW rs
    PROVE  /\ \A c \in HoldClaims(hs) : c.id[1] = "hold"
           /\ \A c \in BookingClaims(bs) : c.id[1] = "booking"
           /\ \A c \in RecordClaims(rs) : c.id[1] = "record"
<1>1. \A c \in HoldClaims(hs) : c.id[1] = "hold"
  BY DEF HoldClaims, Claim
<1>2. \A c \in BookingClaims(bs) : c.id[1] = "booking"
  BY DEF BookingClaims, ItemClaims, Claim
<1>3. \A c \in RecordClaims(rs) : c.id[1] = "record"
  BY DEF RecordClaims, Claim
<1> QED BY <1>1, <1>2, <1>3

\* What the claims want of a slot is what the tables take of it.
ClaimsCounted(s) ==
    /\ Claims \in SUBSET ClaimRow /\ IsFiniteSet(Claims)
    /\ Wanted(Claims, s) = TakenOn(s)

\* It is so in every state of the engine, ...
LEMMA ClaimsWantTaken == EngineInv => \A s \in Slot : ClaimsCounted(s)
<1> SUFFICES ASSUME EngineInv, NEW s \in Slot PROVE ClaimsCounted(s)
  OBVIOUS
<1> DEFINE H == HoldClaims(holds)
           B == BookingClaims(OpenOnes(bookings))
           R == RecordClaims(ActiveOnes(records))
<1>1. Counted(s)
  BY TablesCounted DEF EngineInv
<1>2. /\ H \in SUBSET ClaimRow /\ IsFiniteSet(H)
      /\ Wanted(H, s) = HeldOn(s)
  BY HoldsWant DEF EngineInv, IInv, TypeOK, FiniteRows, TablesInv, HoldsInv,
     HeldOn
<1>3. /\ B \in SUBSET ClaimRow /\ IsFiniteSet(B)
      /\ Wanted(B, s) = BookedOn(s)
  <2>1. /\ OpenOnes(bookings) \in SUBSET Booking
        /\ \A b \in OpenOnes(bookings) : IsFiniteSet(b.items)
        /\ \A b, q \in OpenOnes(bookings) : b.id = q.id => b = q
    BY DEF OpenOnes, EngineInv, IInv, TypeOK, FiniteRows, TablesInv, Numbered
  <2> QED BY <1>1, <2>1, BookingsWant DEF Counted
<1>4. /\ R \in SUBSET ClaimRow /\ IsFiniteSet(R)
      /\ Wanted(R, s) = RecordedOn({"block", "external", "import"}, s)
  <2>1. /\ ActiveOnes(records) \in SUBSET Record
        /\ \A q, r \in ActiveOnes(records) : q.id = r.id => q = r
    BY DEF ActiveOnes, EngineInv, IInv, TypeOK, TablesInv, Numbered
  <2> QED BY <1>1, <2>1, RecordsWant DEF Counted
<1>5. /\ \A c \in H : c.id[1] = "hold"
      /\ \A c \in B : c.id[1] = "booking"
      /\ \A c \in R : c.id[1] = "record"
  BY ClaimsApart
<1>6. Claims = (H \cup B) \cup R
  BY ClaimsOfTables
<1>7. TakenOn(s) = HeldOn(s) + BookedOn(s)
         + RecordedOn({"block", "external", "import"}, s)
  BY DEF TakenOn
<1> HIDE DEF H, B, R
<1>8. H \cap B = {} /\ (H \cup B) \cap R = {}
  BY <1>5
<1>9. /\ H \cup B \in SUBSET ClaimRow /\ IsFiniteSet(H \cup B)
      /\ IsFiniteSet((H \cup B) \cup R)
  BY <1>2, <1>3, <1>4, FS_Union
<1>10. Wanted(H \cup B, s) = Wanted(H, s) + Wanted(B, s)
  BY <1>2, <1>3, <1>8, WantedUnion
<1>11. Wanted((H \cup B) \cup R, s) = Wanted(H \cup B, s) + Wanted(R, s)
  BY <1>4, <1>8, <1>9, WantedUnion
<1> QED BY <1>2, <1>3, <1>4, <1>6, <1>7, <1>9, <1>10, <1>11 DEF ClaimsCounted

\* ... after a step as well.
LEMMA ClaimsWantTakenNext == EngineInv' => \A s \in Slot : ClaimsCounted(s)'
<1>1. EngineInv' => (\A s \in Slot : ClaimsCounted(s))'
  BY ClaimsWantTaken, PTL
<1> QED BY <1>1

\* Claims are finitely many rows: without a slot there is nothing to claim.
LEMMA ClaimsAreRows ==
    EngineInv => Claims \in SUBSET ClaimRow /\ IsFiniteSet(Claims)
<1> SUFFICES ASSUME EngineInv
             PROVE  Claims \in SUBSET ClaimRow /\ IsFiniteSet(Claims)
  OBVIOUS
<1>1. CASE Slot # {}
  <2>1. PICK s \in Slot : TRUE
    BY <1>1
  <2> QED BY <2>1, ClaimsWantTaken DEF ClaimsCounted
<1>2. CASE Slot = {}
  <2>1. ASSUME NEW u \in Unit PROVE FALSE
    <3>1. <<u, 1>> \in Slot
      BY BoundAssumption DEF Slot, Day
    <3> QED BY <1>2, <3>1
  <2>2. Hold = {} /\ Stay = {}
    <3>1. \A h \in Hold : h.unit \in Unit
      BY DEF Hold
    <3>2. \A stay \in Stay : stay.unit \in Unit
      BY DEF Stay
    <3> QED BY <2>1, <3>1, <3>2
  <2>3. holds = {} /\ records = {} /\ \A b \in bookings : b.items = {}
    BY <2>2 DEF EngineInv, IInv, TypeOK, Record, Booking
  <2>4. HoldClaims(holds) = {} /\ RecordClaims(ActiveOnes(records)) = {}
    BY <2>3 DEF HoldClaims, RecordClaims, ActiveOnes
  <2>5. \A b \in OpenOnes(bookings) : ItemClaims(b.id, b.items) = {}
    BY <2>3 DEF OpenOnes, ItemClaims
  <2>6. BookingClaims(OpenOnes(bookings)) = {}
    BY <2>5 DEF BookingClaims
  <2>7. Claims = {}
    BY <2>4, <2>6, ClaimsOfTables
  <2> QED BY <2>7, FS_EmptySet
<1> QED BY <1>1, <1>2

\* ... after a step as well.
LEMMA ClaimsAreRowsNext ==
    EngineInv' => Claims' \in SUBSET ClaimRow /\ IsFiniteSet(Claims')
<1>1. EngineInv' => (Claims \in SUBSET ClaimRow /\ IsFiniteSet(Claims))'
  BY ClaimsAreRows, PTL
<1> QED BY <1>1

-----------------------------------------------------------------------------
(* Inventory is implemented *)

\* The claims that come and those that go differ by what the tables take.
LEMMA ClaimsMove ==
    ASSUME EngineInv, EngineInv', NEW s \in Slot
    PROVE  LET came == Promise!Demand(Claims' \ Claims, s)
               gone == Promise!Demand(Claims \ Claims', s)
           IN  /\ came \in Nat /\ gone \in Nat
               /\ came - gone = TakenOn(s)' - TakenOn(s)
               /\ Claims \subseteq Claims' => gone = 0
               /\ Claims' \subseteq Claims => came = 0
<1> DEFINE C == Claims
           D == Claims'
           taken == TakenOn(s)
           takenNext == TakenOn(s)'
<1>1. C \in SUBSET ClaimRow /\ IsFiniteSet(C) /\ Wanted(C, s) = taken
  BY ClaimsWantTaken DEF ClaimsCounted
<1>2. D \in SUBSET ClaimRow /\ IsFiniteSet(D) /\ Wanted(D, s) = takenNext
  BY ClaimsWantTakenNext DEF ClaimsCounted
<1> HIDE DEF C, D, taken, takenNext
<1>3. /\ IsFiniteSet(C \ D) /\ IsFiniteSet(D \ C) /\ IsFiniteSet(C \cap D)
      /\ C \ D \in SUBSET ClaimRow /\ D \ C \in SUBSET ClaimRow
      /\ C \cap D \in SUBSET ClaimRow
  BY <1>1, <1>2, FS_Subset
<1>4. /\ Wanted(C \ D, s) \in Nat /\ Wanted(D \ C, s) \in Nat
      /\ Wanted(C \cap D, s) \in Nat
  BY <1>3, WantedType
<1>5. /\ Promise!Demand(D \ C, s) = Wanted(D \ C, s)
      /\ Promise!Demand(C \ D, s) = Wanted(C \ D, s)
  BY <1>3, DemandIsWanted
<1>6. /\ Wanted((C \cap D) \cup (C \ D), s) =
            Wanted(C \cap D, s) + Wanted(C \ D, s)
      /\ Wanted((C \cap D) \cup (D \ C), s) =
            Wanted(C \cap D, s) + Wanted(D \ C, s)
  BY <1>3, WantedUnion
<1>7. (C \cap D) \cup (C \ D) = C /\ (C \cap D) \cup (D \ C) = D
  OBVIOUS
<1>8. Wanted(D \ C, s) - Wanted(C \ D, s) = takenNext - taken
  <2> DEFINE both == Wanted(C \cap D, s)
             gone == Wanted(C \ D, s)
             came == Wanted(D \ C, s)
  <2>1. Wanted(C, s) = both + gone /\ Wanted(D, s) = both + came
    BY <1>6, <1>7
  <2>2. taken = both + gone /\ takenNext = both + came
    BY <1>1, <1>2, <2>1
  <2>3. both \in Nat /\ gone \in Nat /\ came \in Nat
    BY <1>4
  <2> HIDE DEF both, gone, came
  <2>4. came - gone = takenNext - taken
    BY <2>2, <2>3
  <2> QED BY <2>4 DEF gone, came
<1>9. /\ C \subseteq D => C \ D = {}
      /\ D \subseteq C => D \ C = {}
  OBVIOUS
<1>10. /\ C \subseteq D => Wanted(C \ D, s) = 0
       /\ D \subseteq C => Wanted(D \ C, s) = 0
  BY <1>9, WantedNone
<1> QED BY <1>4, <1>5, <1>8, <1>10 DEF C, D, taken, takenNext

\* A step that moves in the calendar what it moves in the tables, and only
\* grants, only returns or leaves the calendar alone, is one of Inventory.
LEMMA MoveIsAllowed ==
    ASSUME EngineInv, EngineInv', \A s \in Slot : NothingMoved(s),
           \/ Claims \subseteq Claims'
           \/ Claims' \subseteq Claims
           \/ \A s \in Slot : calendar'[s].quantity = calendar[s].quantity
    PROVE  Promise!Next
<1> DEFINE came(s) == Promise!Demand(Claims' \ Claims, s)
           gone(s) == Promise!Demand(Claims \ Claims', s)
           old(s) == calendar[s].quantity
           new(s) == calendar'[s].quantity
<1>1. ASSUME NEW s \in Slot
      PROVE  /\ came(s) \in Nat /\ gone(s) \in Nat
             /\ old(s) \in Int /\ new(s) \in Int /\ new(s) >= 0
             /\ new(s) - old(s) = gone(s) - came(s)
             /\ Claims \subseteq Claims' => gone(s) = 0
             /\ Claims' \subseteq Claims => came(s) = 0
  <2>1. /\ came(s) \in Nat /\ gone(s) \in Nat
        /\ came(s) - gone(s) = TakenOn(s)' - TakenOn(s)
        /\ Claims \subseteq Claims' => gone(s) = 0
        /\ Claims' \subseteq Claims => came(s) = 0
    BY ClaimsMove
  <2>2. new(s) + TakenOn(s)' = old(s) + TakenOn(s)
    BY DEF NothingMoved
  <2>3. /\ TakenOn(s) \in Nat /\ TakenOn(s)' \in Nat
        /\ old(s) \in Int /\ new(s) \in Int
    BY TakenIsNat, TakenIsNatNext DEF EngineInv
  <2>4. new(s) >= 0
    BY DEF EngineInv, IInv, NeverNegative
  <2> DEFINE x == TakenOn(s)
             y == TakenOn(s)'
  <2>5. x \in Nat /\ y \in Nat /\ came(s) - gone(s) = y - x
        /\ new(s) + y = old(s) + x
    BY <2>1, <2>2, <2>3
  <2> HIDE DEF came, gone, old, new, x, y
  <2>6. new(s) - old(s) = gone(s) - came(s)
    <3>1. /\ came(s) \in Nat /\ gone(s) \in Nat /\ x \in Nat /\ y \in Nat
          /\ old(s) \in Int /\ new(s) \in Int
          /\ came(s) - gone(s) = y - x /\ new(s) + y = old(s) + x
      BY <2>1, <2>3, <2>5
    <3>2. \A a, b \in Nat, c, d \in Nat, e, f \in Int :
             a - b = d - c /\ f + d = e + c => f - e = b - a
      OBVIOUS
    <3> QED BY <3>1, <3>2
  <2> QED BY <2>1, <2>3, <2>4, <2>6
<1> HIDE DEF came, gone, old, new
<1>5. Promise!Wellformed(Claims')
  <2>1. Claims' \in SUBSET ClaimRow /\ IsFiniteSet(Claims')
    BY ClaimsAreRowsNext
  <2>2. \A c \in ClaimRow : c.quantity \in Nat
    BY DEF ClaimRow
  <2>3. Promise!IsFiniteSet(Claims')
    BY <2>1 DEF Promise!IsFiniteSet, IsFiniteSet
  <2> QED BY <2>1, <2>2, <2>3 DEF Promise!Wellformed
<1>2. CASE Claims \subseteq Claims'
  <2>1. ASSUME NEW s \in Slot
        PROVE  came(s) <= old(s) /\ new(s) = old(s) - came(s)
    BY <1>1, <1>2
  <2>2. [s \in Slot |-> new(s)] = [s \in Slot |-> old(s) - came(s)]
    BY <2>1
  <2>3. Promise!Grant
    BY <1>2, <2>1, <2>2 DEF Promise!Grant, came, old, new
  <2> QED BY <1>5, <2>3 DEF Promise!Next
<1>3. CASE Claims' \subseteq Claims
  <2>1. ASSUME NEW s \in Slot PROVE new(s) = old(s) + gone(s)
    BY <1>1, <1>3
  <2>2. [s \in Slot |-> new(s)] = [s \in Slot |-> old(s) + gone(s)]
    BY <2>1
  <2>3. Promise!Return
    BY <1>3, <2>1, <2>2 DEF Promise!Return, gone, old, new
  <2> QED BY <1>5, <2>3 DEF Promise!Next
<1>4. CASE \A s \in Slot : calendar'[s].quantity = calendar[s].quantity
  <2>1. \A s \in Slot : new(s) = old(s)
    BY <1>4 DEF new, old
  <2>2. \A s \in Slot : came(s) = gone(s)
    BY <1>1, <2>1
  <2>3. [s \in Slot |-> new(s)] = [s \in Slot |-> old(s)]
    BY <2>1
  <2>4. Promise!Convert
    BY <2>2, <2>3 DEF Promise!Convert, came, gone, old, new
  <2> QED BY <1>5, <2>4 DEF Promise!Next
<1> QED BY <1>2, <1>3, <1>4

\* More rows, more claims.
LEMMA ClaimsOfMoreRows ==
    ASSUME NEW hs, NEW bs, NEW rs, NEW hs1 \in SUBSET hs,
           NEW bs1 \in SUBSET bs, NEW rs1 \in SUBSET rs
    PROVE  (HoldClaims(hs1) \cup BookingClaims(bs1)) \cup RecordClaims(rs1)
              \subseteq (HoldClaims(hs) \cup BookingClaims(bs))
                           \cup RecordClaims(rs)
<1>1. HoldClaims(hs1) \subseteq HoldClaims(hs)
  BY DEF HoldClaims
<1>2. BookingClaims(bs1) \subseteq BookingClaims(bs)
  BY DEF BookingClaims
<1>3. RecordClaims(rs1) \subseteq RecordClaims(rs)
  BY DEF RecordClaims
<1> QED BY <1>1, <1>2, <1>3

\* Tables that only gain rows grant claims, ...
LEMMA ClaimsGranted ==
    ASSUME holds \subseteq holds',
           OpenOnes(bookings) \subseteq OpenOnes(bookings'),
           ActiveOnes(records) \subseteq ActiveOnes(records')
    PROVE  Claims \subseteq Claims'
<1>1. (Claims = (HoldClaims(holds) \cup BookingClaims(OpenOnes(bookings)))
                   \cup RecordClaims(ActiveOnes(records)))'
  BY ClaimsOfTables, PTL
<1> QED BY <1>1, ClaimsOfTables, ClaimsOfMoreRows

\* ... and tables that only lose some return claims.
LEMMA ClaimsReturned ==
    ASSUME holds' \subseteq holds,
           OpenOnes(bookings') \subseteq OpenOnes(bookings),
           ActiveOnes(records') \subseteq ActiveOnes(records)
    PROVE  Claims' \subseteq Claims
<1>1. (Claims = (HoldClaims(holds) \cup BookingClaims(OpenOnes(bookings)))
                   \cup RecordClaims(ActiveOnes(records)))'
  BY ClaimsOfTables, PTL
<1> QED BY <1>1, ClaimsOfTables, ClaimsOfMoreRows

\* A commit grants, returns or leaves the calendar alone: none does two.
LEMMA CommitGrantsOrReturns ==
    ASSUME IInv, OpenInv, WriteInv, TablesInv, TotalsStay, NoImports,
           NEW w \in Worker, Finish(w)
    PROVE  \/ Claims \subseteq Claims'
           \/ Claims' \subseteq Claims
           \/ \A s \in Slot : calendar'[s].quantity = calendar[s].quantity
<1>1. CASE CommitHolds(w)
  <2>1. holds \subseteq holds' /\ bookings' = bookings /\ records' = records
    BY <1>1 DEF CommitHolds
  <2> QED BY <2>1, ClaimsGranted
<1>2. CASE CommitRelease(w)
  <2>1. holds' \subseteq holds /\ bookings' = bookings /\ records' = records
    BY <1>2 DEF CommitRelease, WithoutRows
  <2> QED BY <2>1, ClaimsReturned
<1>3. CASE CommitBooking(w)
  <2>1. txn[w].op = "book" /\ Publish(w)
    BY <1>3 DEF CommitBooking, ReadyToCommit
  <2>2. ASSUME NEW s \in Slot
        PROVE  calendar'[s].quantity = calendar[s].quantity
    BY <2>1, PublishMoves
  <2> QED BY <2>2
<1>4. CASE CommitClose(w)
  <2>1. /\ holds' = holds /\ records' = records
        /\ bookings' = {IF b.id = txn[w].target THEN [b EXCEPT !.open = FALSE]
                        ELSE b : b \in bookings}
    BY <1>4 DEF CommitClose
  <2>2. \A b \in bookings : [b EXCEPT !.open = FALSE].open = FALSE
    BY DEF IInv, TypeOK, Booking
  <2>3. OpenOnes(bookings') \subseteq OpenOnes(bookings)
    BY <2>1, <2>2 DEF OpenOnes
  <2> QED BY <2>1, <2>3, ClaimsReturned
<1>5. CASE CommitRecord(w)
  <2>1. holds' = holds /\ bookings' = bookings /\ records \subseteq records'
    BY <1>5 DEF CommitRecord, InsertRecord
  <2>2. ActiveOnes(records) \subseteq ActiveOnes(records')
    BY <2>1 DEF ActiveOnes
  <2> QED BY <2>1, <2>2, ClaimsGranted
<1>6. CASE CommitCancel(w)
  <2>1. /\ holds' = holds /\ bookings' = bookings
        /\ records' = {IF r.id = txn[w].target THEN [r EXCEPT !.active = FALSE]
                       ELSE r : r \in records}
    BY <1>6 DEF CommitCancel
  <2>2. \A r \in records : [r EXCEPT !.active = FALSE].active = FALSE
    BY DEF IInv, TypeOK, Record
  <2>3. ActiveOnes(records') \subseteq ActiveOnes(records)
    BY <2>1, <2>2 DEF ActiveOnes
  <2> QED BY <2>1, <2>3, ClaimsReturned
<1>7. CASE CommitEdit(w)
  <2>1. txn[w].op \in Editing /\ Publish(w)
    BY <1>7 DEF CommitEdit, ReadyToCommit
  <2>2. ASSUME NEW s \in Slot
        PROVE  calendar'[s].quantity = calendar[s].quantity
    BY <2>1, PublishMoves
  <2> QED BY <2>2
<1>8. CASE Refuse(w) \/ DeadlockVictim(w) \/ LoseTransaction(w)
  BY <1>8 DEF Refuse, DeadlockVictim, LoseTransaction, RollBack
<1>9. ~ImportRowFails(w)
  BY DEF ImportRowFails, NoImports
<1> QED BY <1>1, <1>2, <1>3, <1>4, <1>5, <1>6, <1>7, <1>8, <1>9 DEF Finish

\* So does every step.
LEMMA StepGrantsOrReturns ==
    ASSUME EngineInv, TotalsStay, NoImports, [Next]_vars
    PROVE  \/ Claims \subseteq Claims'
           \/ Claims' \subseteq Claims
           \/ \A s \in Slot : calendar'[s].quantity = calendar[s].quantity
<1>1. ASSUME NEW w \in Worker, Begin(w) \/ WriteRow(w)
      PROVE  calendar' = calendar
  BY <1>1 DEF Begin, CreateHolds, ReleaseHolds, CreateBooking,
     SweepExpiredHolds, CloseBooking, CreateManualBlock,
     CreateExternalReservation, ImportRow, CreateRecord, CancelRecord,
     SetAvailability, UpdateCalendarEntry, EditCalendar, WriteRow, tables
<1>2. RemovableSlots = {} => ~RemoveCalendarEntry
  BY DEF RemoveCalendarEntry
<1>3. CASE \/ HoldExpires \/ CreateBlackout \/ UpdateBlackout
           \/ DeleteBlackout \/ UNCHANGED vars
  BY <1>3 DEF HoldExpires, CreateBlackout, UpdateBlackout, DeleteBlackout,
     vars
<1>4. ASSUME NEW w \in Worker, LoseTransaction(w) PROVE calendar' = calendar
  BY <1>4 DEF LoseTransaction, RollBack
<1>5. ASSUME NEW w \in Worker, Finish(w)
      PROVE  \/ Claims \subseteq Claims'
             \/ Claims' \subseteq Claims
             \/ \A s \in Slot : calendar'[s].quantity = calendar[s].quantity
  BY <1>5, CommitGrantsOrReturns DEF EngineInv
<1>6. calendar' = calendar =>
         \A s \in Slot : calendar'[s].quantity = calendar[s].quantity
  OBVIOUS
<1> QED BY <1>1, <1>2, <1>3, <1>4, <1>5, <1>6 DEF Next, TotalsStay

\* With no import, no edit of what there is to sell, and no two open
\* transactions about the same row, the day-by-day engine is an Inventory:
\* a reader of the committed tables sees whole requests granted and whole rows
\* returned, and nothing granted that was not free on each of its days.
THEOREM SerialImplementsInventory ==
    ASSUME TotalsStay, ImportRequests = {}
    PROVE  SerialSpec => ImplementsInventory
<1> DEFINE free == [slot \in Slot |-> calendar[slot].quantity]
           Inv == EngineInv /\ SerialInv
<1>1. Init => Promise!Init
  <2> SUFFICES ASSUME Init PROVE Promise!Init
    OBVIOUS
  <2>1. holds = {} /\ bookings = {} /\ records = {}
    BY DEF Init
  <2>2. Claims = {}
    BY <2>1, ClaimsOfTables
       DEF HoldClaims, BookingClaims, RecordClaims, OpenOnes, ActiveOnes
  <2>3. \A slot \in Slot : calendar[slot].quantity = Capacity[slot[1]]
    BY DEF Init
  <2>4. free = [slot \in Slot |-> Capacity[slot[1]]]
    BY <2>3
  <2> QED BY <2>2, <2>4 DEF Promise!Init
<1>2. Init => Inv
  <2> SUFFICES ASSUME Init PROVE EngineInv /\ SerialInv
    OBVIOUS
  <2>1. EngineInv
    BY InitEngineInv
  <2>2. \A w \in Worker : txn[w].op = "idle" /\ txn[w].rows = {}
    BY DEF Init, NoTxn
  <2>3. SerialInv
    BY <2>2 DEF SerialInv, OneAtATime, StillThere, NoImports
  <2> QED BY <2>1, <2>3
<1>3. Inv /\ [SerialNext]_vars => Inv' /\ [Promise!Next]_<<free, Claims>>
  <2> SUFFICES ASSUME Inv, [SerialNext]_vars
               PROVE  Inv' /\ Promise!Next
    OBVIOUS
  <2>1. [Next]_vars
    BY DEF SerialNext
  <2>2. EngineInv'
    BY <2>1, StepEngineInv
  <2>3. OneAtATime'
    BY DEF SerialNext, SerialInv, OneAtATime, vars
  <2>4. StillThere'
    BY <2>1, StepStillThere DEF EngineInv, SerialInv
  <2>5. NoImports'
    BY <2>1, StepNoImports DEF EngineInv, SerialInv
  <2>6. NoImports
    BY DEF SerialInv
  <2>7. \A s \in Slot : NothingMoved(s)
    BY <2>1, <2>2, <2>6, StepBalance DEF EngineInv, SerialInv
  <2>8. Promise!Next
    BY <2>1, <2>2, <2>6, <2>7, StepGrantsOrReturns, MoveIsAllowed
  <2> QED BY <2>2, <2>3, <2>4, <2>5, <2>8 DEF SerialInv
<1>4. ImplementsInventory <=> Promise!Init /\ [][Promise!Next]_<<free, Claims>>
  BY DEF ImplementsInventory, Promise!Spec
<1> HIDE DEF Inv, free
<1> QED BY <1>1, <1>2, <1>3, <1>4, PTL DEF SerialSpec
=============================================================================
