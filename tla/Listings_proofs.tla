-------------------------- MODULE Listings_proofs ---------------------------
(***************************************************************************)
(* What holds of Blackouts, of Advertising and of Connections for every    *)
(* number of ranges, editors, guests, promotions, requests, events of a    *)
(* feed and runs.  They read their rows before they write them without a   *)
(* lock: each invariant has a part that holds whatever overlaps, and one   *)
(* that holds as long as nothing has.                                      *)
(***************************************************************************)
EXTENDS Blackouts, Advertising, Connections, Sums_proofs

-----------------------------------------------------------------------------
(* Blackout ranges *)

\* What an edit knows at each of its steps, whatever the other edits do.
EditAt(edit) ==
    /\ edit.pc = "idle" => edit = NoEdit
    /\ edit.pc = "read" => edit.read \in DateRange
    /\ edit.pc = "checked" /\ edit.read = NoRange =>
          edit.from \in BlackoutDate /\ edit.to \in BlackoutDate

\* What an edit knows as long as it is alone.
EditAlone(edit) ==
    /\ ranges[edit.row] = edit.read
    /\ edit.pc = "checked" =>
          LET next == Assigned(edit, edit.read)
          IN  next.from <= next.to /\ ~HasOverlap(edit.row, next)

OneEditor ==
    \A e, f \in Editor : rangeEdit[e] # NoEdit /\ rangeEdit[f] # NoEdit => e = f

RangesApart ==
    \A r \in BlackoutRow : ranges[r] # NoRange =>
        /\ ranges[r].from <= ranges[r].to
        /\ ~HasOverlap(r, ranges[r])

Serial ==
    /\ OneEditor /\ RangesApart
    /\ \A e \in Editor : rangeEdit[e] # NoEdit => EditAlone(rangeEdit[e])

GuestAt(g) ==
    /\ g.always \subseteq g.stay \cap Vetoed
    /\ g.pc \in {"cleared", "granted"} => g.always = {}

RangesInv ==
    /\ BlackoutsTypeOK
    /\ \A e \in Editor : EditAt(rangeEdit[e])
    /\ ~editsOverlapped => Serial
    /\ \A g \in Guest : GuestAt(guest[g])

\* The values for absence have their types and are no ranges.
LEMMA RangeTypes ==
    /\ NoEdit \in RangeEdit /\ NoStay \in GuestState
    /\ NoRange \notin DateRange /\ EditAt(NoEdit) /\ Keep \notin BlackoutDate
<1>1. NoRange \notin DateRange /\ Keep \notin BlackoutDate
  BY BlackoutAssumption DEF NoRange, DateRange, BlackoutDate, Keep
<1>2. (CHOOSE r \in BlackoutRow : TRUE) \in BlackoutRow
  BY BlackoutAssumption
<1>3. NoEdit \in RangeEdit
  BY <1>2 DEF NoEdit, RangeEdit
<1>4. NoStay \in GuestState
  BY DEF NoStay, GuestState
<1>5. EditAt(NoEdit)
  BY DEF EditAt, NoEdit
<1> QED BY <1>1, <1>3, <1>4, <1>5

\* The invariant holds before there is a range.
LEMMA RangesInitially == InitBlackouts => RangesInv
<1> SUFFICES ASSUME InitBlackouts PROVE RangesInv
  OBVIOUS
<1>1. BlackoutsTypeOK
  BY RangeTypes DEF InitBlackouts, BlackoutsTypeOK
<1>2. \A e \in Editor : rangeEdit[e] = NoEdit
  BY DEF InitBlackouts
<1>3. Serial
  BY <1>2 DEF InitBlackouts, Serial, OneEditor, RangesApart
<1>4. \A g \in Guest : GuestAt(guest[g])
  BY DEF InitBlackouts, GuestAt, NoStay
<1> QED BY <1>1, <1>2, <1>3, <1>4, RangeTypes DEF RangesInv

\* Steps of an edit that write nothing: a first step, a check or the end.
LEMMA EditMoves ==
    ASSUME RangesInv, NEW e \in Editor, NEW edit \in RangeEdit, EditAt(edit),
           rangeEdit' = [rangeEdit EXCEPT ![e] = edit],
           UNCHANGED <<ranges, guest>>, editsOverlapped' \in BOOLEAN,
           editsOverlapped => editsOverlapped',
           ~editsOverlapped' /\ Serial =>
              /\ edit # NoEdit =>
                    \A f \in Editor : rangeEdit[f] # NoEdit => f = e
              /\ edit # NoEdit => EditAlone(edit)
    PROVE  RangesInv'
<1>1. BlackoutsTypeOK'
  BY DEF RangesInv, BlackoutsTypeOK
<1>2. /\ rangeEdit'[e] = edit
      /\ \A f \in Editor \ {e} : rangeEdit'[f] = rangeEdit[f]
  BY DEF RangesInv, BlackoutsTypeOK
<1>3. \A f \in Editor : EditAt(rangeEdit'[f])
  BY <1>2 DEF RangesInv
<1>4. \A g \in Guest : GuestAt(guest[g])'
  BY DEF RangesInv, GuestAt, Vetoed
<1>5. ASSUME ~editsOverlapped' PROVE Serial'
  <2>1. Serial
    BY <1>5 DEF RangesInv, BlackoutsTypeOK
  <2>2. OneEditor'
    BY <1>2, <1>5, <2>1 DEF Serial, OneEditor
  <2>3. RangesApart'
    BY <2>1 DEF Serial, RangesApart, HasOverlap
  <2>4. \A f \in Editor : rangeEdit'[f] # NoEdit => EditAlone(rangeEdit'[f])
    BY <1>2, <1>5, <2>1 DEF Serial
  <2>5. \A f \in Editor : rangeEdit'[f] # NoEdit => EditAlone(rangeEdit[f])'
    BY <2>4 DEF EditAlone, HasOverlap
  <2> QED BY <2>2, <2>3, <2>5 DEF Serial
<1>6. \A f \in Editor : EditAt(rangeEdit[f])'
  BY <1>3 DEF EditAt
<1> QED BY <1>1, <1>4, <1>5, <1>6 DEF RangesInv

\* An edit that begins, checks or dies writes no row.
LEMMA EditStepKeeps ==
    ASSUME RangesInv, NEW e \in Editor,
           CreateRange(e) \/ UpdateRange(e) \/ UpdateChecks(e) \/ EditDies(e)
    PROVE  RangesInv'
<1>1. CASE CreateRange(e)
  <2>1. PICK row \in BlackoutRow, range \in DateRange :
           /\ range.from <= range.to /\ ranges[row] = NoRange
           /\ ~HasOverlap(row, range)
           /\ EditBegins(e, [pc |-> "checked", row |-> row,
                             from |-> range.from, to |-> range.to,
                             read |-> NoRange])
    BY <1>1 DEF CreateRange
  <2> DEFINE edit == [pc |-> "checked", row |-> row, from |-> range.from,
                      to |-> range.to, read |-> NoRange]
  <2>2. range.from \in BlackoutDate /\ range.to \in BlackoutDate
        /\ range = [from |-> range.from, to |-> range.to]
    BY DEF DateRange
  <2>3. edit \in RangeEdit /\ EditAt(edit)
    BY <2>2, RangeTypes DEF RangeEdit, EditAt
  <2>4. Assigned(edit, edit.read) = range
    BY <2>2, RangeTypes DEF Assigned
  <2>5. EditAlone(edit)
    <3> HIDE DEF edit
    <3>1. edit.row = row /\ edit.read = NoRange
      BY DEF edit
    <3> QED BY <2>1, <2>4, <3>1 DEF EditAlone
  <2> HIDE DEF edit
  <2>6. /\ rangeEdit' = [rangeEdit EXCEPT ![e] = edit]
        /\ editsOverlapped' =
              (editsOverlapped \/ \E f \in Editor : rangeEdit[f] # NoEdit)
        /\ UNCHANGED <<ranges, guest>>
    BY <2>1 DEF EditBegins, edit
  <2>7. editsOverlapped \in BOOLEAN
    BY DEF RangesInv, BlackoutsTypeOK
  <2> QED BY <2>3, <2>5, <2>6, <2>7, EditMoves
<1>2. CASE UpdateRange(e)
  <2>1. PICK row \in BlackoutRow, from \in BlackoutDate \cup {Keep},
             to \in BlackoutDate \cup {Keep} :
           /\ ranges[row] # NoRange
           /\ EditBegins(e, [pc |-> "read", row |-> row, from |-> from,
                             to |-> to, read |-> ranges[row]])
    BY <1>2 DEF UpdateRange
  <2> DEFINE edit == [pc |-> "read", row |-> row, from |-> from, to |-> to,
                      read |-> ranges[row]]
  <2>2. ranges[row] \in DateRange
    BY <2>1 DEF RangesInv, BlackoutsTypeOK
  <2>3. edit \in RangeEdit /\ EditAt(edit)
    BY <2>2 DEF RangeEdit, EditAt
  <2>4. EditAlone(edit)
    BY DEF EditAlone
  <2>5. /\ rangeEdit' = [rangeEdit EXCEPT ![e] = edit]
        /\ editsOverlapped' =
              (editsOverlapped \/ \E f \in Editor : rangeEdit[f] # NoEdit)
        /\ UNCHANGED <<ranges, guest>>
    BY <2>1 DEF EditBegins
  <2> HIDE DEF edit
  <2>6. editsOverlapped \in BOOLEAN
    BY DEF RangesInv, BlackoutsTypeOK
  <2> QED BY <2>3, <2>4, <2>5, <2>6, EditMoves
<1>3. CASE UpdateChecks(e)
  <2> DEFINE edit == rangeEdit[e]
             next == NextRange(edit)
             checked == [edit EXCEPT !.pc = "checked"]
  <2>1. /\ edit.pc = "read" /\ UNCHANGED <<ranges, guest, editsOverlapped>>
        /\ rangeEdit' = [rangeEdit EXCEPT ![e] =
              IF next.to < next.from \/ HasOverlap(edit.row, next)
              THEN NoEdit ELSE checked]
    BY <1>3 DEF UpdateChecks
  <2>2. edit \in RangeEdit /\ EditAt(edit) /\ edit.read \in DateRange
        /\ editsOverlapped \in BOOLEAN
    BY <2>1 DEF RangesInv, BlackoutsTypeOK, EditAt
  <2>3. edit # NoEdit
    BY <2>1 DEF NoEdit
  <2>4. CASE next.to < next.from \/ HasOverlap(edit.row, next)
    BY <2>1, <2>2, <2>4, EditMoves, RangeTypes
  <2>5. CASE ~(next.to < next.from \/ HasOverlap(edit.row, next))
    <3>1. rangeEdit' = [rangeEdit EXCEPT ![e] = checked]
      BY <2>1, <2>5
    <3>2. /\ checked \in RangeEdit /\ checked.pc = "checked"
          /\ checked.row = edit.row /\ checked.read = edit.read
          /\ checked.from = edit.from /\ checked.to = edit.to
      BY <2>2 DEF RangeEdit
    <3>3. EditAt(checked)
      BY <2>2, <3>2, RangeTypes DEF EditAt
    <3>4. Assigned(checked, checked.read) = next
      BY <3>2 DEF Assigned, NextRange
    <3>5. next.from <= next.to
      <4>1. next.from \in Nat /\ next.to \in Nat
        BY <2>2 DEF NextRange, RangeEdit, DateRange, BlackoutDate, Keep
      <4> QED BY <2>5, <4>1
    <3>6. EditAlone(edit) => EditAlone(checked)
      BY <2>5, <3>2, <3>4, <3>5 DEF EditAlone
    <3>7. Serial => /\ \A f \in Editor : rangeEdit[f] # NoEdit => f = e
                    /\ EditAlone(checked)
      BY <2>3, <3>6 DEF Serial, OneEditor
    <3> HIDE DEF checked
    <3> QED BY <2>1, <2>2, <3>1, <3>2, <3>3, <3>7, EditMoves
  <2> QED BY <2>4, <2>5
<1>4. CASE EditDies(e)
  <2>1. editsOverlapped \in BOOLEAN
    BY DEF RangesInv, BlackoutsTypeOK
  <2> QED BY <1>4, <2>1, EditMoves, RangeTypes DEF EditDies
<1> QED BY <1>1, <1>2, <1>3, <1>4

\* A write of the rows leaves of each stay the days that are still vetoed.
LEMMA WatchedGuests ==
    ASSUME RangesInv, guest' = [g \in Guest |-> Watched(g)]
    PROVE  /\ guest' \in [Guest -> GuestState]
           /\ \A g \in Guest : GuestAt(guest[g])'
<1>1. \A g \in Guest : guest[g] \in GuestState /\ GuestAt(guest[g])
  BY DEF RangesInv, BlackoutsTypeOK
<1>2. \A g \in Guest :
         /\ Watched(g) \in GuestState
         /\ Watched(g).pc = guest[g].pc /\ Watched(g).stay = guest[g].stay
         /\ Watched(g).always = guest[g].always \cap Vetoed'
  BY <1>1 DEF Watched, GuestState
<1>3. guest' \in [Guest -> GuestState]
  BY <1>2
<1>4. ASSUME NEW g \in Guest PROVE GuestAt(guest[g])'
  <2>1. /\ guest'[g].pc = guest[g].pc /\ guest'[g].stay = guest[g].stay
        /\ guest'[g].always = guest[g].always \cap Vetoed'
    BY <1>2
  <2>2. /\ guest[g].always \subseteq guest[g].stay \cap Vetoed
        /\ guest[g].pc \in {"cleared", "granted"} => guest[g].always = {}
    BY <1>1 DEF GuestAt
  <2> QED BY <2>1, <2>2 DEF GuestAt
<1> QED BY <1>3, <1>4

\* A row that is inserted, updated or deleted keeps the invariant: the check
\* before it was about the rows as they still are, if no edits overlap.
LEMMA RowWriteKeeps ==
    ASSUME RangesInv, NEW e \in Editor, EditWrites(e) \/ DeleteRange(e)
    PROVE  RangesInv'
<1>1. guest' \in [Guest -> GuestState] /\ \A g \in Guest : GuestAt(guest[g])'
  BY WatchedGuests DEF EditWrites, DeleteRange
<1>2. BlackoutsTypeOK /\ \A f \in Editor : EditAt(rangeEdit[f])
  BY DEF RangesInv
<1>3. CASE EditWrites(e)
  <2> DEFINE edit == rangeEdit[e]
             row == ranges[edit.row]
             new == IF row = NoRange /\ edit.read # NoRange THEN NoRange
                    ELSE Assigned(edit, row)
  <2>1. /\ edit.pc = "checked"
        /\ ranges' = [ranges EXCEPT ![edit.row] = new]
        /\ rangeEdit' = [rangeEdit EXCEPT ![e] = NoEdit]
        /\ UNCHANGED editsOverlapped
    BY <1>3 DEF EditWrites
  <2>2. /\ edit \in RangeEdit /\ EditAt(edit) /\ edit.row \in BlackoutRow
        /\ edit # NoEdit /\ row \in DateRange \cup {NoRange}
    BY <1>2, <2>1 DEF BlackoutsTypeOK, RangeEdit, NoEdit
  <2>3. new \in DateRange \cup {NoRange}
    <3>1. CASE row = NoRange /\ edit.read # NoRange
      BY <3>1
    <3>2. CASE row = NoRange /\ edit.read = NoRange
      <4>1. edit.from \in BlackoutDate /\ edit.to \in BlackoutDate
        BY <2>1, <2>2, <3>2 DEF EditAt
      <4>2. new = Assigned(edit, row)
        BY <3>2
      <4>3. Assigned(edit, row) \in DateRange
        BY <4>1, RangeTypes DEF Assigned, DateRange
      <4> QED BY <4>2, <4>3
    <3>3. CASE row \in DateRange
      <4>1. new = Assigned(edit, row)
        BY <3>3, RangeTypes
      <4>2. Assigned(edit, row) \in DateRange
        BY <2>2, <3>3 DEF Assigned, RangeEdit, DateRange
      <4> QED BY <4>1, <4>2
    <3> QED BY <2>2, <3>1, <3>2, <3>3
  <2> HIDE DEF new
  <2>4. BlackoutsTypeOK'
    BY <1>1, <1>2, <2>1, <2>3, RangeTypes DEF BlackoutsTypeOK
  <2>5. /\ rangeEdit'[e] = NoEdit
        /\ \A f \in Editor \ {e} : rangeEdit'[f] = rangeEdit[f]
        /\ ranges'[edit.row] = new
        /\ \A r \in BlackoutRow \ {edit.row} : ranges'[r] = ranges[r]
    BY <1>2, <2>1, <2>2 DEF BlackoutsTypeOK
  <2>6. \A f \in Editor : EditAt(rangeEdit[f])'
    BY <1>2, <2>5, RangeTypes DEF EditAt
  <2>7. ASSUME ~editsOverlapped' PROVE Serial'
    <3>1. Serial
      BY <2>1, <2>7 DEF RangesInv
    <3>2. \A f \in Editor : rangeEdit'[f] = NoEdit
      BY <2>2, <2>5, <3>1 DEF Serial, OneEditor
    <3>3. EditAlone(edit) /\ row = edit.read
      BY <2>2, <3>1 DEF Serial, EditAlone
    <3>4. /\ new = Assigned(edit, edit.read)
          /\ new.from <= new.to /\ ~HasOverlap(edit.row, new)
      BY <2>1, <3>3 DEF EditAlone, new
    <3>5. RangesApart'
      <4>1. ASSUME NEW r \in BlackoutRow, ranges'[r] # NoRange
            PROVE  /\ ranges'[r].from <= ranges'[r].to
                   /\ \A s \in BlackoutRow \ {r} : ranges'[s] # NoRange =>
                         ~(/\ ranges'[s].from <= ranges'[r].to
                           /\ ranges'[r].from <= ranges'[s].to)
        <5>1. CASE r = edit.row
          BY <2>5, <3>4, <5>1 DEF HasOverlap
        <5>2. CASE r # edit.row
          <6>1. /\ ranges[r].from <= ranges[r].to /\ ~HasOverlap(r, ranges[r])
                /\ ranges'[r] = ranges[r]
            BY <2>5, <3>1, <4>1, <5>2 DEF Serial, RangesApart
          <6>2. ~(new.from <= ranges[r].to /\ ranges[r].from <= new.to)
            BY <3>4, <4>1, <5>2, <6>1 DEF HasOverlap
          <6> QED BY <2>5, <5>2, <6>1, <6>2 DEF HasOverlap
        <5> QED BY <5>1, <5>2
      <4> QED BY <4>1 DEF RangesApart, HasOverlap
    <3> QED BY <3>2, <3>5 DEF Serial, OneEditor
  <2> QED BY <1>1, <2>4, <2>6, <2>7 DEF RangesInv
<1>4. CASE DeleteRange(e)
  <2>1. PICK row \in BlackoutRow :
           ranges' = [ranges EXCEPT ![row] = NoRange]
    BY <1>4 DEF DeleteRange
  <2>2. UNCHANGED rangeEdit /\ rangeEdit[e] = NoEdit
        /\ editsOverlapped' =
              (editsOverlapped \/ \E f \in Editor : rangeEdit[f] # NoEdit)
    BY <1>4 DEF DeleteRange
  <2>3. BlackoutsTypeOK'
    BY <1>1, <1>2, <2>1, <2>2 DEF BlackoutsTypeOK
  <2>4. \A r \in BlackoutRow :
           ranges'[r] # NoRange => ranges'[r] = ranges[r]
    BY <1>2, <2>1 DEF BlackoutsTypeOK
  <2>5. \A f \in Editor : EditAt(rangeEdit[f])'
    BY <1>2, <2>2 DEF EditAt
  <2>6. ASSUME ~editsOverlapped' PROVE Serial'
    <3>1. Serial /\ \A f \in Editor : rangeEdit'[f] = NoEdit
      BY <1>2, <2>2, <2>6 DEF RangesInv, BlackoutsTypeOK
    <3>2. RangesApart'
      BY <2>4, <3>1 DEF Serial, RangesApart, HasOverlap
    <3> QED BY <3>1, <3>2 DEF Serial, OneEditor
  <2> QED BY <1>1, <2>3, <2>5, <2>6 DEF RangesInv
<1> QED BY <1>3, <1>4

\* What a guest's request learns of the ranges keeps the invariant.
LEMMA GuestStepKeeps ==
    ASSUME RangesInv, NEW g \in Guest,
           GuestAsks(g) \/ GuestVetoed(g) \/ GuestGranted(g)
    PROVE  RangesInv'
<1>1. UNCHANGED <<ranges, rangeEdit, editsOverlapped>>
  BY DEF GuestAsks, GuestVetoed, GuestGranted
<1>2. guest[g] \in GuestState /\ GuestAt(guest[g])
      /\ guest \in [Guest -> GuestState]
      /\ ranges \in [BlackoutRow -> DateRange \cup {NoRange}]
  BY DEF RangesInv, BlackoutsTypeOK
<1>3. PICK next \in GuestState :
         guest' = [guest EXCEPT ![g] = next] /\ GuestAt(next)
  <2>1. CASE GuestAsks(g)
    <3>1. PICK range \in DateRange :
             guest' = [guest EXCEPT ![g] =
                [pc |-> "asking", stay |-> DaysOf(range),
                 always |-> DaysOf(range) \cap Vetoed]]
      BY <2>1 DEF GuestAsks
    <3>2. DaysOf(range) \subseteq BlackoutDate
      BY BlackoutAssumption DEF DateRange, DaysOf, BlackoutDate
    <3> DEFINE next == [pc |-> "asking", stay |-> DaysOf(range),
                        always |-> DaysOf(range) \cap Vetoed]
    <3>3. next \in GuestState
      BY <3>2 DEF GuestState
    <3>4. GuestAt(next)
      BY DEF GuestAt
    <3> QED BY <3>1, <3>3, <3>4
  <2>2. CASE GuestVetoed(g)
    <3>1. CASE VetoApplies(guest[g].stay)
      BY <2>2, <3>1, RangeTypes DEF GuestVetoed, GuestAt, NoStay
    <3>2. CASE ~VetoApplies(guest[g].stay)
      <4> DEFINE next == [guest[g] EXCEPT !.pc = "cleared"]
      <4>1. guest' = [guest EXCEPT ![g] = next]
        BY <2>2, <3>2 DEF GuestVetoed
      <4>2. /\ next \in GuestState /\ next.stay = guest[g].stay
            /\ next.always = guest[g].always
        BY <1>2 DEF GuestState
      <4>3. guest[g].stay \cap Vetoed = {}
        BY <3>2 DEF VetoApplies, Vetoed
      <4>4. guest[g].always = {}
        BY <1>2, <4>3 DEF GuestAt
      <4> QED BY <4>1, <4>2, <4>4 DEF GuestAt
    <3> QED BY <3>1, <3>2
  <2>3. CASE GuestGranted(g)
    <3> DEFINE next == [guest[g] EXCEPT !.pc = "granted"]
    <3>1. guest' = [guest EXCEPT ![g] = next]
      BY <2>3 DEF GuestGranted
    <3>2. next \in GuestState /\ next.stay = guest[g].stay
          /\ next.always = guest[g].always
      BY <1>2 DEF GuestState
    <3>3. guest[g].always = {}
      BY <1>2, <2>3 DEF GuestAt, GuestGranted
    <3> QED BY <3>1, <3>2, <3>3 DEF GuestAt
  <2> QED BY <2>1, <2>2, <2>3
<1>4. BlackoutsTypeOK'
  BY <1>1, <1>3 DEF RangesInv, BlackoutsTypeOK
<1>5. Vetoed' = Vetoed
  BY <1>1 DEF Vetoed
<1>6. \A k \in Guest : GuestAt(guest[k])'
  <2>1. \A k \in Guest : guest'[k] = IF k = g THEN next ELSE guest[k]
    BY <1>2, <1>3
  <2>2. \A k \in Guest : GuestAt(guest'[k])
    BY <1>3, <2>1 DEF RangesInv
  <2> QED BY <1>5, <2>2 DEF GuestAt
<1>7. \A f \in Editor : EditAt(rangeEdit[f])'
  BY <1>1 DEF RangesInv, EditAt
<1>8. ~editsOverlapped' => Serial'
  BY <1>1 DEF RangesInv, Serial, OneEditor, RangesApart, EditAlone, HasOverlap
<1> QED BY <1>4, <1>6, <1>7, <1>8 DEF RangesInv

\* Every step keeps the invariant.
LEMMA RangesStepKeeps == RangesInv /\ [BlackoutsNext]_blackoutVars => RangesInv'
<1> SUFFICES ASSUME RangesInv, [BlackoutsNext]_blackoutVars
             PROVE  RangesInv'
  OBVIOUS
<1>1. CASE UNCHANGED blackoutVars
  BY <1>1 DEF RangesInv, BlackoutsTypeOK, EditAt, Serial, OneEditor,
              RangesApart, EditAlone, HasOverlap, GuestAt, Vetoed, blackoutVars
<1>2. CASE BlackoutsNext
  BY <1>2, EditStepKeeps, RowWriteKeeps, GuestStepKeeps DEF BlackoutsNext
<1> QED BY <1>1, <1>2

\* The invariant holds in every state.
THEOREM RangesInvariant == BlackoutsSpec => []RangesInv
BY RangesInitially, RangesStepKeeps, PTL DEF BlackoutsSpec

\* Ranges of one listing do not overlap unless two edits did, and no stay is
\* granted over a day that was vetoed from its request to its check
\* (createBlackoutDate, updateBlackoutDate, the veto of createHolds).
THEOREM BlackoutsAreKept == BlackoutsSpec => []BlackoutsHold
<1>1. RangesInv => BlackoutsHold
  <2> SUFFICES ASSUME RangesInv PROVE BlackoutsHold
    OBVIOUS
  <2>1. \A g \in Guest : guest[g].pc \in {"cleared", "granted"} =>
           guest[g].always = {}
    BY DEF RangesInv, GuestAt
  <2>2. ASSUME ~editsOverlapped, NEW r \in BlackoutRow, ranges[r] # NoRange,
               NEW s \in BlackoutRow \ {r}
        PROVE  DaysOf(ranges[r]) \cap DaysOf(ranges[s]) = {}
    <3>1. /\ ranges[r] \in DateRange
          /\ ranges[s] \in DateRange \/ ranges[s] = NoRange
          /\ RangesApart
      BY <2>2 DEF RangesInv, BlackoutsTypeOK, Serial
    <3>2. ranges[r].from \in Nat \ {0} /\ ranges[r].to \in Nat \ {0}
      BY <3>1 DEF DateRange, BlackoutDate
    <3>3. CASE ranges[s] = NoRange
      BY <3>2, <3>3 DEF DaysOf, NoRange
    <3>4. CASE ranges[s] # NoRange
      <4>1. ranges[s].from \in Nat /\ ranges[s].to \in Nat
        BY <3>1, <3>4 DEF DateRange, BlackoutDate
      <4>2. ~(ranges[s].from <= ranges[r].to /\ ranges[r].from <= ranges[s].to)
        BY <2>2, <3>1, <3>4 DEF RangesApart, HasOverlap
      <4> QED BY <3>2, <4>1, <4>2 DEF DaysOf
    <3> QED BY <3>3, <3>4
  <2>3. ASSUME ~editsOverlapped, NEW r \in BlackoutRow, ranges[r] # NoRange
        PROVE  ranges[r].from <= ranges[r].to
    BY <2>3 DEF RangesInv, Serial, RangesApart
  <2> QED BY <2>1, <2>2, <2>3 DEF BlackoutsHold
<1> QED BY <1>1, RangesInvariant, PTL

-----------------------------------------------------------------------------
(* Promotions *)

PaidStatus == ShownStatus \cup {"PAID_MANUAL"}

\* What a request that has read still knows when it writes.
TaskAt(task) ==
    task.pc = "read" =>
        /\ task.op = "create" =>
              ads[task.ad].status = NoAd /\ task.row.reminded = {}
        /\ task.op # "create" => ads[task.ad].status # NoAd
        /\ task.op = "approve" => ads[task.ad].paid

CreatesApart ==
    \A t, u \in AdRequest :
        /\ adTask[t].pc = "read" /\ adTask[t].op = "create"
        /\ adTask[u].pc = "read" /\ adTask[u].op = "create"
        /\ adTask[t].ad = adTask[u].ad
        => t = u

\* What it knows as long as it is alone.
TaskAlone(task) ==
    task.pc = "read" =>
        /\ task.op = "create" =>
              ~OverlapsOther(task.ad, task.row.start, task.row.end)
        /\ task.op = "extend" =>
              ~OverlapsOther(task.ad, ads[task.ad].start, task.end)
        /\ task.op # "create" => AdOpen(task.ad)

OneActor ==
    /\ \A t, u \in AdRequest :
          adTask[t].pc # "idle" /\ adTask[u].pc # "idle" => t = u
    /\ adSweep # IdleSweep => \A t \in AdRequest : adTask[t].pc = "idle"

PeriodsApart ==
    \A a \in Ad : AdOpen(a) => ~OverlapsOther(a, ads[a].start, ads[a].end)

RemindersSent ==
    \A a \in Ad, days \in ReminderDay :
        days \in ads[a].reminded =>
            <<a, days, ads[a].end>> \in noticed \cup adSweep.publish

AdsSerial ==
    /\ OneActor /\ PeriodsApart /\ RemindersSent
    /\ \A t \in AdRequest : TaskAlone(adTask[t])
    /\ \A a \in adSweep.activate : AdOpen(a)
    /\ \A n \in adSweep.remind : n[3] = ads[n[1]].end

AdsInv ==
    /\ AdvertisingTypeOK
    /\ \A a \in Ad : ads[a].status \in PaidStatus => ads[a].paid
    /\ \A t \in AdRequest : TaskAt(adTask[t])
    /\ CreatesApart
    /\ \A a \in adSweep.activate : ads[a].status # NoAd /\ ads[a].paid
    /\ \A a \in adSweep.expire : ads[a].status # NoAd
    /\ ~adRaced => AdsSerial

\* The values a request and a row start from have their types.
LEMMA AdTypes ==
    /\ BlankRow \in AdRow /\ IdleTask \in AdTask /\ IdleSweep \in AdSweep
    /\ 1 \in AdDate /\ AdDate \subseteq Nat
<1>1. 1 \in AdDate /\ AdDate \subseteq Nat
  BY AdvertisingAssumption DEF AdDate
<1>2. BlankRow \in AdRow
  BY <1>1 DEF BlankRow, AdRow
<1>3. (CHOOSE a \in Ad : TRUE) \in Ad
  BY AdvertisingAssumption
<1>4. IdleTask \in AdTask
  BY <1>1, <1>2, <1>3 DEF IdleTask, AdTask, AdOp
<1>5. IdleSweep \in AdSweep
  BY DEF IdleSweep, AdSweep
<1> QED BY <1>1, <1>2, <1>4, <1>5

\* The invariant holds before there is a promotion.
LEMMA AdsInitially == InitAdvertising => AdsInv
<1> SUFFICES ASSUME InitAdvertising PROVE AdsInv
  OBVIOUS
<1>1. AdvertisingTypeOK
  BY AdTypes DEF InitAdvertising, AdvertisingTypeOK
<1>2. /\ \A a \in Ad : /\ ads[a].status = NoAd /\ ads[a].reminded = {}
      /\ \A t \in AdRequest : adTask[t].pc = "idle"
      /\ adSweep.activate = {} /\ adSweep.expire = {} /\ adSweep.remind = {}
      /\ adSweep = IdleSweep
  BY DEF InitAdvertising, BlankRow, IdleTask, IdleSweep
<1>3. AdsSerial
  BY <1>2 DEF AdsSerial, OneActor, PeriodsApart, RemindersSent, TaskAlone,
              AdOpen
<1> QED BY <1>1, <1>2, <1>3
        DEF AdsInv, PaidStatus, ShownStatus, NoAd, TaskAt, CreatesApart

\* A row that overlaps no other leaves the periods apart.
LEMMA PeriodsOfRows ==
    ASSUME AdvertisingTypeOK, PeriodsApart, NEW a \in Ad, NEW row \in AdRow,
           ads' = [ads EXCEPT ![a] = row],
           row.status \notin EndedAd \cup {NoAd} =>
               ~OverlapsOther(a, row.start, row.end)
    PROVE  PeriodsApart'
<1>1. /\ ads'[a] = row
      /\ \A b \in Ad \ {a} : ads'[b] = ads[b]
  BY DEF AdvertisingTypeOK
<1>2. SUFFICES ASSUME NEW b \in Ad, NEW c \in Ad \ {b},
                      ads'[b].status \notin EndedAd \cup {NoAd},
                      ads'[c].status \notin EndedAd \cup {NoAd}
               PROVE  ~(/\ ads'[c].start <= ads'[b].end
                        /\ ads'[b].start <= ads'[c].end)
  BY DEF PeriodsApart, OverlapsOther, AdOpen, Overlap
<1>3. CASE b = a
  BY <1>1, <1>2, <1>3 DEF OverlapsOther, AdOpen, Overlap
<1>4. CASE c = a
  BY <1>1, <1>2, <1>4 DEF OverlapsOther, AdOpen, Overlap
<1>5. CASE b # a /\ c # a
  BY <1>1, <1>2, <1>5 DEF PeriodsApart, OverlapsOther, AdOpen, Overlap
<1> QED BY <1>3, <1>4, <1>5

\* A row that a request writes keeps the invariant when what it writes is
\* paid for if it is shown, and overlaps nothing if nothing raced.
LEMMA RowChangeKeeps ==
    ASSUME AdsInv, NEW a \in Ad, NEW row \in AdRow,
           ads' = [ads EXCEPT ![a] = row],
           row.status \in PaidStatus => row.paid,
           ads[a].status # NoAd => row.status # NoAd,
           ads[a].status # NoAd /\ ads[a].paid => row.paid,
           adTask' \in [AdRequest -> AdTask], adSweep' \in AdSweep,
           noticed' \subseteq Reminder, UNCHANGED <<today, adRaced>>,
           \A t \in AdRequest : adTask'[t].pc = "read" =>
               /\ adTask'[t] = adTask[t]
               /\ adTask[t].op = "create" /\ adTask[t].ad = a =>
                     row.status = NoAd,
           adSweep'.activate \subseteq adSweep.activate,
           adSweep'.expire \subseteq adSweep.expire,
           ~adRaced => AdsSerial'
    PROVE  AdsInv'
<1> USE DEF AdsInv
<1>1. AdvertisingTypeOK'
  BY DEF AdvertisingTypeOK
<1>2. /\ ads'[a] = row
      /\ \A b \in Ad \ {a} : ads'[b] = ads[b]
  BY DEF AdvertisingTypeOK
<1>3. \A b \in Ad : ads'[b].status \in PaidStatus => ads'[b].paid
  BY <1>2
<1>4. ASSUME NEW t \in AdRequest PROVE TaskAt(adTask[t])'
  <2> SUFFICES ASSUME adTask'[t].pc = "read" PROVE TaskAt(adTask[t])'
    BY DEF TaskAt
  <2>1. adTask'[t] = adTask[t] /\ TaskAt(adTask[t]) /\ adTask[t] \in AdTask
    BY DEF AdvertisingTypeOK
  <2>2. CASE adTask[t].ad # a
    BY <1>2, <2>1, <2>2 DEF TaskAt, AdTask
  <2>3. CASE adTask[t].ad = a
    BY <1>2, <2>1, <2>3 DEF TaskAt
  <2> QED BY <2>2, <2>3
<1>5. CreatesApart'
  BY DEF CreatesApart
<1>6. /\ \A b \in adSweep'.activate : ads'[b].status # NoAd /\ ads'[b].paid
      /\ \A b \in adSweep'.expire : ads'[b].status # NoAd
  <2>1. \A b \in adSweep'.activate \cup adSweep'.expire : b \in Ad
    BY DEF AdSweep
  <2> QED BY <1>2, <2>1
<1> QED BY <1>1, <1>3, <1>4, <1>5, <1>6

\* What the write of a request leaves in its row.
LEMMA WrittenRow ==
    ASSUME AdsInv, NEW t \in AdRequest, adTask[t].pc = "read"
    PROVE  LET task == adTask[t]
               old == ads[task.ad]
               row == Written(task)
           IN  /\ row \in AdRow /\ row.status # NoAd
               /\ row.status \in PaidStatus => row.paid
               /\ old.status # NoAd /\ old.paid => row.paid
               /\ task.op = "create" =>
                     /\ row.start = task.row.start /\ row.end = task.row.end
                     /\ row.reminded = {}
               /\ task.op = "extend" =>
                     /\ row.start = old.start /\ row.end = task.end
                     /\ row.reminded = {}
               /\ task.op \notin {"create", "extend"} =>
                     /\ row.start = old.start /\ row.end = old.end
                     /\ row.reminded = old.reminded
               /\ task.op = "cancel" => row.status = "CANCELLED"
<1> DEFINE task == adTask[t]
           old == ads[task.ad]
           row == Written(task)
<1>1. /\ task \in AdTask /\ task.op \in AdOp /\ task.ad \in Ad
      /\ task.row \in AdRow /\ task.end \in AdDate /\ old \in AdRow
      /\ TaskAt(task) /\ (old.status \in PaidStatus => old.paid)
  BY DEF AdsInv, AdvertisingTypeOK, AdTask
<1>2. \A paid \in BOOLEAN, start \in AdDate :
         /\ FirstStatus(paid, start) \in AdStatus
         /\ FirstStatus(paid, start) \in PaidStatus => paid
  BY DEF FirstStatus, AdStatus, PaidStatus, ShownStatus
<1>3. NoAd \notin AdStatus
  BY DEF NoAd, AdStatus
<1>4. CASE task.op = "create"
  <2>1. row = [task.row EXCEPT
                  !.status = FirstStatus(task.row.paid, task.row.start)]
    BY <1>4 DEF Written
  <2>2. task.row.paid \in BOOLEAN /\ task.row.start \in AdDate
    BY <1>1 DEF AdRow
  <2>3. task.row.reminded = {} /\ old.status = NoAd
    BY <1>1, <1>4 DEF TaskAt
  <2> HIDE DEF task, row
  <2>4. /\ row \in AdRow
        /\ row.status = FirstStatus(task.row.paid, task.row.start)
        /\ row.paid = task.row.paid
        /\ row.start = task.row.start /\ row.end = task.row.end
        /\ row.reminded = task.row.reminded
    BY <1>1, <1>2, <2>1, <2>2 DEF AdRow
  <2> QED BY <1>2, <1>3, <1>4, <2>2, <2>3, <2>4 DEF task, row
<1>5. CASE task.op = "markPaid"
  <2>1. row = [old EXCEPT !.status = "PAID_MANUAL", !.paid = TRUE]
    BY <1>5 DEF Written
  <2> HIDE DEF task, row, old
  <2>2. /\ row \in AdRow /\ row.status = "PAID_MANUAL" /\ row.paid = TRUE
        /\ row.start = old.start /\ row.end = old.end
        /\ row.reminded = old.reminded
    BY <1>1, <2>1 DEF AdRow, AdStatus
  <2> QED BY <1>5, <2>2 DEF task, row, old, NoAd
<1>6. CASE task.op = "approve"
  <2>1. row = [old EXCEPT !.status = FirstStatus(TRUE, old.start)]
    BY <1>6 DEF Written
  <2>2. old.paid /\ old.start \in AdDate
    BY <1>1, <1>6 DEF TaskAt, AdRow
  <2> HIDE DEF task, row, old
  <2>3. /\ row \in AdRow /\ row.status = FirstStatus(TRUE, old.start)
        /\ row.paid = old.paid
        /\ row.start = old.start /\ row.end = old.end
        /\ row.reminded = old.reminded
    BY <1>1, <1>2, <2>1, <2>2 DEF AdRow
  <2> QED BY <1>2, <1>3, <1>6, <2>2, <2>3 DEF task, row, old
<1>7. CASE task.op = "cancel"
  <2>1. row = [old EXCEPT !.status = "CANCELLED"]
    BY <1>7 DEF Written
  <2> HIDE DEF task, row, old
  <2>2. /\ row \in AdRow /\ row.status = "CANCELLED" /\ row.paid = old.paid
        /\ row.start = old.start /\ row.end = old.end
        /\ row.reminded = old.reminded
    BY <1>1, <2>1 DEF AdRow, AdStatus
  <2> QED BY <1>7, <2>2 DEF task, row, old, NoAd, PaidStatus, ShownStatus
<1>8. CASE task.op = "extend"
  <2>1. row = [old EXCEPT !.end = task.end, !.reminded = {}]
    BY <1>8 DEF Written, Extended
  <2>2. old.status # NoAd
    BY <1>1, <1>8 DEF TaskAt
  <2> HIDE DEF task, row, old
  <2>3. /\ row \in AdRow /\ row.status = old.status /\ row.paid = old.paid
        /\ row.start = old.start /\ row.end = task.end /\ row.reminded = {}
    BY <1>1, <2>1 DEF AdRow
  <2> QED BY <1>1, <1>8, <2>2, <2>3 DEF task, row, old
<1> QED BY <1>1, <1>4, <1>5, <1>6, <1>7, <1>8 DEF AdOp

\* The write of a request keeps the invariant.
LEMMA AdWriteKeeps ==
    ASSUME AdsInv, NEW t \in AdRequest, AdWrite(t)
    PROVE  AdsInv'
<1> DEFINE task == adTask[t]
           a == task.ad
           old == ads[a]
           row == Written(task)
<1>1. /\ task.pc = "read" /\ UNCHANGED <<noticed, adSweep, today, adRaced>>
      /\ ads' = [ads EXCEPT ![a] = row]
      /\ adTask' = [adTask EXCEPT ![t] = IdleTask]
  BY DEF AdWrite
<1>2. AdvertisingTypeOK /\ task \in AdTask /\ a \in Ad /\ task.op \in AdOp
  BY DEF AdsInv, AdvertisingTypeOK, AdTask
<1>3. /\ row \in AdRow /\ row.status # NoAd
      /\ row.status \in PaidStatus => row.paid
      /\ old.status # NoAd /\ old.paid => row.paid
      /\ task.op = "create" =>
            /\ row.start = task.row.start /\ row.end = task.row.end
            /\ row.reminded = {}
      /\ task.op = "extend" =>
            /\ row.start = old.start /\ row.end = task.end
            /\ row.reminded = {}
      /\ task.op \notin {"create", "extend"} =>
            /\ row.start = old.start /\ row.end = old.end
            /\ row.reminded = old.reminded
      /\ task.op = "cancel" => row.status = "CANCELLED"
  BY <1>1, WrittenRow
<1> HIDE DEF row
<1>4. adTask' \in [AdRequest -> AdTask]
      /\ adTask'[t].pc = "idle"
      /\ \A u \in AdRequest \ {t} : adTask'[u] = adTask[u]
  BY <1>1, <1>2, AdTypes DEF AdvertisingTypeOK, IdleTask
<1>5. \A u \in AdRequest : adTask'[u].pc = "read" =>
         /\ adTask'[u] = adTask[u]
         /\ ~(adTask[u].op = "create" /\ adTask[u].ad = a)
  <2> SUFFICES ASSUME NEW u \in AdRequest, adTask'[u].pc = "read",
                      adTask[u].op = "create", adTask[u].ad = a
               PROVE  FALSE
    BY <1>4
  <2>1. u # t /\ adTask[u].pc = "read" /\ adTask[u] = adTask'[u]
    BY <1>4
  <2>2. TaskAt(adTask[u]) /\ TaskAt(task) /\ CreatesApart
    BY DEF AdsInv
  <2>3. task.op = "create"
    BY <1>1, <2>1, <2>2 DEF TaskAt
  <2> QED BY <1>1, <2>1, <2>2, <2>3 DEF CreatesApart
<1>6. ASSUME ~adRaced PROVE AdsSerial'
  <2>1. AdsSerial
    BY <1>6 DEF AdsInv
  <2>2. adSweep = IdleSweep /\ \A u \in AdRequest \ {t} : adTask[u].pc = "idle"
    BY <1>1, <2>1 DEF AdsSerial, OneActor
  <2>3. \A u \in AdRequest : adTask'[u].pc = "idle"
    BY <1>4, <2>2
  <2>4. adSweep'.activate = {} /\ adSweep'.remind = {}
    BY <1>1, <2>2 DEF IdleSweep
  <2>5. PeriodsApart'
    <3>1. SUFFICES ASSUME row.status \notin EndedAd \cup {NoAd}
                   PROVE  ~OverlapsOther(a, row.start, row.end)
      BY <1>1, <1>2, <1>3, <2>1, PeriodsOfRows DEF AdsSerial
    <3>2. TaskAlone(task) /\ PeriodsApart
      BY <2>1 DEF AdsSerial
    <3>3. CASE task.op \in {"create", "extend"}
      BY <1>1, <1>3, <3>2, <3>3 DEF TaskAlone
    <3>4. CASE task.op \notin {"create", "extend"}
      BY <1>1, <1>2, <1>3, <3>2, <3>4 DEF TaskAlone, PeriodsApart
    <3> QED BY <3>3, <3>4
  <2>6. RemindersSent'
    <3>1. RemindersSent
      BY <2>1 DEF AdsSerial
    <3>2. \A b \in Ad : ads'[b] = IF b = a THEN row ELSE ads[b]
      BY <1>1, <1>2 DEF AdvertisingTypeOK
    <3>3. \/ row.reminded = {}
          \/ row.reminded = old.reminded /\ row.end = old.end
      BY <1>3
    <3> QED BY <1>1, <3>1, <3>2, <3>3 DEF RemindersSent
  <2> QED BY <1>1, <2>2, <2>3, <2>4, <2>5, <2>6
          DEF AdsSerial, OneActor, TaskAlone
<1>7. adSweep' \in AdSweep /\ noticed' \subseteq Reminder
  BY <1>1, <1>2 DEF AdvertisingTypeOK
<1>8. \A u \in AdRequest : adTask'[u].pc = "read" =>
         /\ adTask'[u] = adTask[u]
         /\ adTask[u].op = "create" /\ adTask[u].ad = a => row.status = NoAd
  BY <1>5
<1> HIDE DEF a
<1> QED BY <1>1, <1>2, <1>3, <1>4, <1>6, <1>7, <1>8, RowChangeKeeps DEF a
\* A request that has read its row keeps the invariant.
LEMMA BeginKeeps ==
    ASSUME AdsInv, NEW t \in AdRequest, NEW op \in AdOp, NEW a \in Ad,
           NEW row \in AdRow, NEW end \in AdDate, Begin(t, op, a, row, end),
           op = "create" =>
               /\ ads[a].status = NoAd /\ row.reminded = {}
               /\ \A u \in AdRequest : adTask[u].pc = "read" => adTask[u].ad # a
               /\ ~OverlapsOther(a, row.start, row.end),
           op # "create" => ads[a].status # NoAd,
           op = "approve" => ads[a].paid,
           op = "extend" => ~OverlapsOther(a, ads[a].start, end),
           op # "create" => AdOpen(a)
    PROVE  AdsInv'
<1> DEFINE task == [pc |-> "read", op |-> op, ad |-> a, row |-> row,
                    end |-> end]
<1>1. /\ adTask' = [adTask EXCEPT ![t] = task]
      /\ adTask[t].pc = "idle" /\ adRaced' = (adRaced \/ AdBusy)
      /\ UNCHANGED <<ads, noticed, adSweep, today>>
  BY DEF Begin
<1>2. task \in AdTask
  BY DEF AdTask
<1>3. AdvertisingTypeOK'
  BY <1>1, <1>2 DEF AdsInv, AdvertisingTypeOK, AdBusy
<1>4. /\ adTask'[t] = task
      /\ \A u \in AdRequest \ {t} : adTask'[u] = adTask[u]
  BY <1>1 DEF AdsInv, AdvertisingTypeOK
<1>5. TaskAt(task) /\ TaskAlone(task)
  BY DEF TaskAt, TaskAlone
<1>6. \A u \in AdRequest : TaskAt(adTask[u])'
  <2>1. \A u \in AdRequest : TaskAt(adTask'[u])
    BY <1>4, <1>5 DEF AdsInv
  <2> QED BY <1>1, <2>1 DEF TaskAt
<1>7. CreatesApart'
  <2>1. \A u \in AdRequest \ {t} : op = "create" /\ adTask[u].pc = "read" =>
           adTask[u].ad # a
    OBVIOUS
  <2> QED BY <1>4, <2>1 DEF AdsInv, CreatesApart
<1>8. ASSUME ~adRaced' PROVE AdsSerial'
  <2>1. AdsSerial /\ ~AdBusy
    BY <1>1, <1>8 DEF AdsInv, AdvertisingTypeOK
  <2>2. /\ adSweep = IdleSweep
        /\ \A u \in AdRequest : adTask[u].pc = "idle"
    BY <2>1 DEF AdBusy
  <2>3. OneActor'
    BY <1>1, <1>4, <2>2 DEF OneActor
  <2>4. PeriodsApart' /\ RemindersSent'
    BY <1>1, <2>1
       DEF AdsSerial, PeriodsApart, RemindersSent, OverlapsOther, AdOpen
  <2>5. \A u \in AdRequest : TaskAlone(adTask'[u])
    BY <1>4, <1>5, <2>1 DEF AdsSerial
  <2>6. \A u \in AdRequest : TaskAlone(adTask[u])'
    BY <1>1, <2>5 DEF TaskAlone, OverlapsOther, AdOpen
  <2>7. adSweep'.activate = {} /\ adSweep'.remind = {}
    BY <1>1, <2>2 DEF IdleSweep
  <2> QED BY <2>3, <2>4, <2>6, <2>7 DEF AdsSerial
<1> QED BY <1>1, <1>3, <1>6, <1>7, <1>8 DEF AdsInv

\* So do the operations that start with such a read.
LEMMA AdRequestKeeps ==
    ASSUME AdsInv, NEW t \in AdRequest, NEW a \in Ad,
           CreatePromotion(t, a) \/ ChangeStatus(t, a) \/ Extend(t, a)
    PROVE  AdsInv'
<1>1. ads[a] \in AdRow /\ ads[a].end \in AdDate
      /\ (ads[a].status \in PaidStatus => ads[a].paid)
  BY DEF AdsInv, AdvertisingTypeOK, AdRow
<1>2. CASE CreatePromotion(t, a)
  <2>1. PICK p \in AdPeriod, paidNow \in BOOLEAN :
           /\ ~OverlapsOther(a, p.start, p.end)
           /\ Begin(t, "create", a,
                    [status |-> NoAd, start |-> p.start, end |-> p.end,
                     paid |-> paidNow, reminded |-> {}], p.end)
    BY <1>2 DEF CreatePromotion
  <2> DEFINE row == [status |-> NoAd, start |-> p.start, end |-> p.end,
                     paid |-> paidNow, reminded |-> {}]
  <2>2. p.start \in AdDate /\ p.end \in AdDate
    BY AdvertisingAssumption
  <2>3. row \in AdRow /\ row.reminded = {}
        /\ row.start = p.start /\ row.end = p.end
    BY <2>2 DEF AdRow
  <2>4. Begin(t, "create", a, row, p.end)
    BY <2>1
  <2> HIDE DEF row
  <2> QED BY <1>2, <2>1, <2>2, <2>3, <2>4, BeginKeeps
          DEF CreatePromotion, AdOp
<1>3. CASE ChangeStatus(t, a)
  <2>1. PICK op \in DOMAIN StartsFrom :
           /\ ads[a].status \in StartsFrom[op]
           /\ Begin(t, op, a, ads[a], ads[a].end)
    BY <1>3 DEF ChangeStatus
  <2>2. /\ op \in {"markPaid", "approve", "cancel"}
        /\ op = "approve" => ads[a].status = "PAID_MANUAL"
        /\ ads[a].status \in AdStatus \ EndedAd
    BY <2>1 DEF StartsFrom, AdStatus, EndedAd
  <2>3. AdOpen(a) /\ ads[a].status # NoAd
    BY <2>2 DEF AdOpen, AdStatus, NoAd
  <2> QED BY <1>1, <2>1, <2>2, <2>3, BeginKeeps DEF AdOp, PaidStatus
<1>4. CASE Extend(t, a)
  <2>1. PICK end \in AdDate :
           /\ ~OverlapsOther(a, ads[a].start, end)
           /\ Begin(t, "extend", a, ads[a], end)
    BY <1>4 DEF Extend
  <2>2. AdOpen(a) /\ ads[a].status # NoAd
    BY <1>4 DEF Extend, AdOpen
  <2> QED BY <1>1, <2>1, <2>2, BeginKeeps DEF AdOp
<1> QED BY <1>2, <1>3, <1>4

\* The sweep reads the rows that are due.
LEMMA SweepReadKeeps ==
    ASSUME AdsInv, AdSweepRead
    PROVE  AdsInv'
<1>1. /\ adSweep'.activate = {a \in Ad : DueForActivation(a)}
      /\ adSweep'.expire = {a \in Ad : DueForExpiry(a)}
      /\ adSweep'.remind = {<<n[1], n[2], ads[n[1]].end>> : n \in
                              {n \in Ad \X ReminderDay :
                                  DueForReminder(n[1], n[2])}}
      /\ adSweep'.publish = {} /\ adSweep = IdleSweep
      /\ adRaced' = (adRaced \/ AdBusy)
      /\ UNCHANGED <<ads, noticed, adTask, today>>
  BY DEF AdSweepRead
<1>2. AdvertisingTypeOK
  BY DEF AdsInv
<1>3. adSweep' \in AdSweep
  <2>1. adSweep'.remind \subseteq Reminder
    BY <1>1, <1>2 DEF AdvertisingTypeOK, AdRow, Reminder
  <2>2. /\ adSweep'.activate \subseteq Ad /\ adSweep'.expire \subseteq Ad
        /\ adSweep'.publish \subseteq Reminder
    BY <1>1
  <2>3. adSweep' = [activate |-> adSweep'.activate,
                    expire |-> adSweep'.expire, remind |-> adSweep'.remind,
                    publish |-> adSweep'.publish]
    BY DEF AdSweepRead
  <2> QED BY <2>1, <2>2, <2>3 DEF AdSweep
<1>4. AdvertisingTypeOK'
  BY <1>1, <1>2, <1>3 DEF AdvertisingTypeOK, AdBusy
<1>5. /\ \A t \in AdRequest : TaskAt(adTask[t])'
      /\ CreatesApart'
      /\ \A a \in Ad : ads'[a].status \in PaidStatus => ads'[a].paid
  BY <1>1 DEF AdsInv, TaskAt, CreatesApart
<1>6. /\ \A a \in adSweep'.activate :
            a \in Ad /\ ads[a].status \in PaidStatus /\ ads[a].status # NoAd
            /\ AdOpen(a)
      /\ \A a \in adSweep'.expire : ads[a].status # NoAd
  BY <1>1 DEF DueForActivation, DueForExpiry, PaidStatus, ShownStatus, NoAd,
              AdOpen, EndedAd
<1>7. \A n \in adSweep'.remind : n[3] = ads[n[1]].end
  BY <1>1
<1>8. ASSUME ~adRaced' PROVE AdsSerial'
  <2>1. AdsSerial /\ ~AdBusy
    BY <1>1, <1>2, <1>8 DEF AdsInv, AdvertisingTypeOK
  <2>2. \A u \in AdRequest : adTask[u].pc = "idle"
    BY <2>1 DEF AdBusy
  <2>3. OneActor' /\ \A u \in AdRequest : TaskAlone(adTask[u])'
    BY <1>1, <2>2 DEF OneActor, TaskAlone
  <2>4. PeriodsApart'
    BY <1>1, <2>1 DEF AdsSerial, PeriodsApart, OverlapsOther, AdOpen
  <2>5. RemindersSent'
    BY <1>1, <2>1 DEF AdsSerial, RemindersSent, IdleSweep
  <2> QED BY <1>1, <1>6, <1>7, <2>3, <2>4, <2>5 DEF AdsSerial, AdOpen
<1> QED BY <1>1, <1>4, <1>5, <1>6, <1>8 DEF AdsInv

\* Each write of the sweep, and what it publishes, keeps the invariant.
LEMMA SweepWriteKeeps ==
    ASSUME AdsInv, AdSweepWrite
    PROVE  AdsInv'
<1>1. UNCHANGED <<adTask, today, adRaced>>
  BY DEF AdSweepWrite
<1>2. /\ AdvertisingTypeOK /\ adSweep \in AdSweep /\ noticed \subseteq Reminder
      /\ \A a \in Ad : ads[a] \in AdRow
      /\ adSweep.activate \subseteq Ad /\ adSweep.expire \subseteq Ad
      /\ adSweep.remind \subseteq Reminder /\ adSweep.publish \subseteq Reminder
      /\ adTask \in [AdRequest -> AdTask]
      /\ \A t \in AdRequest : TaskAt(adTask[t])
  BY DEF AdsInv, AdvertisingTypeOK, AdSweep
<1>3. \A t \in AdRequest : adTask'[t].pc = "read" =>
         adTask'[t] = adTask[t]
         /\ (adTask[t].op = "create" => ads[adTask[t].ad].status = NoAd)
  BY <1>1, <1>2 DEF TaskAt
<1>4. ASSUME ~adRaced, adSweep # IdleSweep, ads' \in [Ad -> AdRow]
      PROVE  /\ AdsSerial /\ OneActor'
             /\ \A u \in AdRequest : TaskAlone(adTask[u])'
  <2>1. AdsSerial
    BY <1>4 DEF AdsInv
  <2>2. \A u \in AdRequest : adTask[u].pc = "idle"
    BY <1>4, <2>1 DEF AdsSerial, OneActor
  <2> QED BY <1>1, <2>1, <2>2 DEF OneActor, TaskAlone
<1>5. ASSUME NEW a \in Ad, SweepActivates(a) PROVE AdsInv'
  <2> DEFINE row == [ads[a] EXCEPT !.status = "ACTIVE"]
             left == [adSweep EXCEPT !.activate = @ \ {a}]
  <2>1. /\ a \in adSweep.activate /\ UNCHANGED noticed
        /\ ads' = [ads EXCEPT ![a] = row] /\ adSweep' = left
    BY <1>5 DEF SweepActivates
  <2>2. /\ row \in AdRow /\ row.status = "ACTIVE" /\ row.paid = ads[a].paid
        /\ row.start = ads[a].start /\ row.end = ads[a].end
        /\ row.reminded = ads[a].reminded
    BY <1>2 DEF AdRow, AdStatus
  <2>3. /\ left \in AdSweep /\ left.activate = adSweep.activate \ {a}
        /\ left.expire = adSweep.expire /\ left.remind = adSweep.remind
        /\ left.publish = adSweep.publish
    BY <1>2 DEF AdSweep
  <2>4. ads[a].status # NoAd /\ ads[a].paid /\ adSweep # IdleSweep
    BY <2>1 DEF AdsInv, IdleSweep
  <2> HIDE DEF row, left
  <2>5. /\ ads' \in [Ad -> AdRow] /\ ads'[a] = row
        /\ \A b \in Ad \ {a} : ads'[b] = ads[b]
    BY <1>2, <2>1, <2>2 DEF AdvertisingTypeOK
  <2>6. ASSUME ~adRaced PROVE AdsSerial'
    <3>1. /\ AdsSerial /\ OneActor'
          /\ \A u \in AdRequest : TaskAlone(adTask[u])'
      BY <1>4, <2>4, <2>5, <2>6
    <3>2. AdOpen(a) /\ ~OverlapsOther(a, ads[a].start, ads[a].end)
      BY <2>1, <3>1 DEF AdsSerial, PeriodsApart
    <3>3. PeriodsApart'
      BY <1>2, <2>1, <2>2, <3>1, <3>2, PeriodsOfRows DEF AdsSerial
    <3>4. RemindersSent'
      BY <2>1, <2>2, <2>3, <2>5, <3>1 DEF AdsSerial, RemindersSent
    <3>5. \A b \in adSweep'.activate : AdOpen(b)'
      BY <1>2, <2>1, <2>3, <2>5, <3>1 DEF AdsSerial, AdOpen
    <3>6. \A n \in adSweep'.remind : n[3] = ads'[n[1]].end
      BY <1>2, <2>1, <2>2, <2>3, <2>5, <3>1 DEF AdsSerial, Reminder
    <3> QED BY <3>1, <3>3, <3>4, <3>5, <3>6 DEF AdsSerial
  <2>7. \A t \in AdRequest : adTask'[t].pc = "read" =>
           /\ adTask'[t] = adTask[t]
           /\ adTask[t].op = "create" /\ adTask[t].ad = a => row.status = NoAd
    BY <1>3, <2>4
  <2>8. row.status # NoAd
    BY <2>2 DEF NoAd
  <2> QED BY <1>1, <1>2, <2>1, <2>2, <2>3, <2>4, <2>6, <2>7, <2>8,
             RowChangeKeeps
<1>6. ASSUME NEW a \in Ad, SweepExpires(a) PROVE AdsInv'
  <2> DEFINE row == [ads[a] EXCEPT !.status = "EXPIRED"]
             left == [adSweep EXCEPT !.expire = @ \ {a}]
  <2>1. /\ a \in adSweep.expire /\ adSweep.activate = {} /\ UNCHANGED noticed
        /\ ads' = [ads EXCEPT ![a] = row] /\ adSweep' = left
    BY <1>6 DEF SweepExpires
  <2>2. /\ row \in AdRow /\ row.status = "EXPIRED" /\ row.paid = ads[a].paid
        /\ row.start = ads[a].start /\ row.end = ads[a].end
        /\ row.reminded = ads[a].reminded
    BY <1>2 DEF AdRow, AdStatus
  <2>3. /\ left \in AdSweep /\ left.activate = {}
        /\ left.expire = adSweep.expire \ {a} /\ left.remind = adSweep.remind
        /\ left.publish = adSweep.publish
    BY <1>2, <2>1 DEF AdSweep
  <2>4. ads[a].status # NoAd /\ adSweep # IdleSweep
    BY <2>1 DEF AdsInv, IdleSweep
  <2> HIDE DEF row, left
  <2>5. /\ ads' \in [Ad -> AdRow] /\ ads'[a] = row
        /\ \A b \in Ad \ {a} : ads'[b] = ads[b]
    BY <1>2, <2>1, <2>2 DEF AdvertisingTypeOK
  <2>6. ASSUME ~adRaced PROVE AdsSerial'
    <3>1. /\ AdsSerial /\ OneActor'
          /\ \A u \in AdRequest : TaskAlone(adTask[u])'
      BY <1>4, <2>4, <2>5, <2>6
    <3>2. PeriodsApart'
      BY <1>2, <2>1, <2>2, <3>1, PeriodsOfRows DEF AdsSerial, EndedAd
    <3>3. RemindersSent'
      BY <2>1, <2>2, <2>3, <2>5, <3>1 DEF AdsSerial, RemindersSent
    <3>4. \A b \in adSweep'.activate : AdOpen(b)'
      BY <2>1, <2>3
    <3>5. \A n \in adSweep'.remind : n[3] = ads'[n[1]].end
      BY <1>2, <2>1, <2>2, <2>3, <2>5, <3>1 DEF AdsSerial, Reminder
    <3> QED BY <3>1, <3>2, <3>3, <3>4, <3>5 DEF AdsSerial
  <2>7. \A t \in AdRequest : adTask'[t].pc = "read" =>
           /\ adTask'[t] = adTask[t]
           /\ adTask[t].op = "create" /\ adTask[t].ad = a => row.status = NoAd
    BY <1>3, <2>4
  <2>8. row.status # NoAd /\ row.status \notin PaidStatus
    BY <2>2 DEF NoAd, PaidStatus, ShownStatus
  <2>9. adSweep'.activate \subseteq adSweep.activate
    BY <2>1, <2>3
  <2>10. /\ row.status \in PaidStatus => row.paid
         /\ ads[a].status # NoAd => row.status # NoAd
         /\ ads[a].status # NoAd /\ ads[a].paid => row.paid
         /\ adTask' \in [AdRequest -> AdTask] /\ adSweep' \in AdSweep
         /\ noticed' \subseteq Reminder
         /\ adSweep'.expire \subseteq adSweep.expire
    BY <1>1, <1>2, <2>1, <2>2, <2>3, <2>8
  <2> QED BY <1>1, <2>1, <2>2, <2>6, <2>7, <2>9, <2>10, RowChangeKeeps
<1>7. ASSUME NEW n \in Reminder, SweepReminds(n) PROVE AdsInv'
  <2> DEFINE a == n[1]
             row == [ads[a] EXCEPT !.reminded = @ \cup {n[2]}]
             left == [adSweep EXCEPT !.remind = @ \ {n}, !.publish = @ \cup {n}]
  <2>1. /\ n \in adSweep.remind /\ adSweep.activate = {} /\ UNCHANGED noticed
        /\ ads' = [ads EXCEPT ![a] = row] /\ adSweep' = left
    BY <1>7 DEF SweepReminds, ReminderMarked
  <2>2. a \in Ad /\ n[2] \in ReminderDay /\ n = <<a, n[2], n[3]>>
    BY DEF Reminder
  <2>3. /\ row \in AdRow /\ row.status = ads[a].status
        /\ row.paid = ads[a].paid
        /\ row.start = ads[a].start /\ row.end = ads[a].end
        /\ row.reminded = ads[a].reminded \cup {n[2]}
    BY <1>2, <2>2 DEF AdRow
  <2>4. /\ left \in AdSweep /\ left.activate = {}
        /\ left.expire = adSweep.expire /\ left.remind = adSweep.remind \ {n}
        /\ left.publish = adSweep.publish \cup {n}
    BY <1>2, <2>1 DEF AdSweep
  <2>5. adSweep # IdleSweep
    BY <2>1 DEF IdleSweep
  <2> HIDE DEF a, row, left
  <2>6. /\ ads' \in [Ad -> AdRow] /\ ads'[a] = row
        /\ \A b \in Ad \ {a} : ads'[b] = ads[b]
    BY <1>2, <2>1, <2>2, <2>3 DEF AdvertisingTypeOK
  <2>7. ASSUME ~adRaced PROVE AdsSerial'
    <3>1. /\ AdsSerial /\ OneActor'
          /\ \A u \in AdRequest : TaskAlone(adTask[u])'
      BY <1>4, <2>5, <2>6, <2>7
    <3>2. PeriodsApart'
      <4>1. PeriodsApart
        BY <3>1 DEF AdsSerial
      <4>2. row.status \notin EndedAd \cup {NoAd} =>
               ~OverlapsOther(a, row.start, row.end)
        BY <2>2, <2>3, <4>1 DEF PeriodsApart, AdOpen
      <4> QED BY <1>2, <2>1, <2>2, <2>3, <4>1, <4>2, PeriodsOfRows
    <3>3. RemindersSent'
      <4>1. n = <<a, n[2], ads[a].end>>
        BY <2>1, <2>2, <3>1 DEF AdsSerial, a
      <4>2. RemindersSent
        BY <3>1 DEF AdsSerial
      <4>3. SUFFICES ASSUME NEW b \in Ad, NEW days \in ReminderDay,
                            days \in ads'[b].reminded
                     PROVE  <<b, days, ads'[b].end>> \in
                               noticed' \cup adSweep'.publish
        BY DEF RemindersSent
      <4>4. CASE b = a /\ days = n[2]
        <5>1. n \in adSweep'.publish
          BY <2>1, <2>4
        <5> QED BY <2>3, <2>6, <4>1, <4>4, <5>1
      <4>5. CASE ~(b = a /\ days = n[2])
        <5>1. days \in ads[b].reminded /\ ads'[b].end = ads[b].end
          BY <2>3, <2>6, <4>3, <4>5
        <5>2. <<b, days, ads[b].end>> \in noticed \cup adSweep.publish
          BY <4>2, <5>1 DEF RemindersSent
        <5> QED BY <2>1, <2>4, <5>1, <5>2
      <4> QED BY <4>4, <4>5
    <3>4. \A b \in adSweep'.activate : AdOpen(b)'
      BY <2>1, <2>4
    <3>5. \A m \in adSweep'.remind : m[3] = ads'[m[1]].end
      BY <1>2, <2>1, <2>3, <2>4, <2>6, <3>1 DEF AdsSerial, Reminder
    <3> QED BY <3>1, <3>2, <3>3, <3>4, <3>5 DEF AdsSerial
  <2>8. \A t \in AdRequest : adTask'[t].pc = "read" =>
           /\ adTask'[t] = adTask[t]
           /\ adTask[t].op = "create" /\ adTask[t].ad = a => row.status = NoAd
    BY <1>3, <2>3
  <2>9. ads[a].status \in PaidStatus => ads[a].paid
    BY <2>2 DEF AdsInv
  <2>10. adSweep'.activate \subseteq adSweep.activate
    BY <2>1, <2>4
  <2>11. /\ row.status \in PaidStatus => row.paid
         /\ ads[a].status # NoAd => row.status # NoAd
         /\ ads[a].status # NoAd /\ ads[a].paid => row.paid
         /\ adTask' \in [AdRequest -> AdTask] /\ adSweep' \in AdSweep
         /\ noticed' \subseteq Reminder
         /\ adSweep'.expire \subseteq adSweep.expire
    BY <1>1, <1>2, <2>1, <2>3, <2>4, <2>9
  <2> QED BY <1>1, <2>1, <2>2, <2>3, <2>7, <2>8, <2>10, <2>11,
             RowChangeKeeps
<1>8. ASSUME NEW n \in Reminder, SweepPublishes(n) PROVE AdsInv'
  <2> DEFINE left == [adSweep EXCEPT !.publish = @ \ {n}]
  <2>1. /\ n \in adSweep.publish /\ UNCHANGED ads
        /\ noticed' = noticed \cup {n} /\ adSweep' = left
    BY <1>8 DEF SweepPublishes
  <2>2. /\ left \in AdSweep /\ left.activate = adSweep.activate
        /\ left.expire = adSweep.expire /\ left.remind = adSweep.remind
        /\ left.publish = adSweep.publish \ {n}
    BY <1>2 DEF AdSweep
  <2>3. adSweep # IdleSweep /\ ads' \in [Ad -> AdRow]
    BY <1>2, <2>1 DEF IdleSweep, AdvertisingTypeOK
  <2> HIDE DEF left
  <2>4. ASSUME ~adRaced PROVE AdsSerial'
    <3>1. /\ AdsSerial /\ OneActor'
          /\ \A u \in AdRequest : TaskAlone(adTask[u])'
      BY <1>4, <2>3, <2>4
    <3>2. PeriodsApart'
      BY <2>1, <3>1 DEF AdsSerial, PeriodsApart, OverlapsOther, AdOpen
    <3>3. RemindersSent'
      <4>1. noticed \cup adSweep.publish
               \subseteq noticed' \cup adSweep'.publish
        BY <2>1, <2>2
      <4> QED BY <2>1, <3>1, <4>1 DEF AdsSerial, RemindersSent
    <3>4. \A b \in adSweep'.activate : AdOpen(b)'
      BY <2>1, <2>2, <3>1 DEF AdsSerial, AdOpen
    <3> QED BY <2>1, <2>2, <3>1, <3>2, <3>3, <3>4 DEF AdsSerial
  <2>5. AdvertisingTypeOK'
    BY <1>1, <1>2, <2>1, <2>2 DEF AdvertisingTypeOK
  <2> QED BY <1>1, <2>1, <2>2, <2>4, <2>5 DEF AdsInv, TaskAt, CreatesApart
<1> QED BY <1>5, <1>6, <1>7, <1>8 DEF AdSweepWrite

\* Every step keeps the invariant.
LEMMA AdsStepKeeps == AdsInv /\ [AdvertisingNext]_adVars => AdsInv'
<1> SUFFICES ASSUME AdsInv, [AdvertisingNext]_adVars
             PROVE  AdsInv'
  OBVIOUS
<1> USE DEF AdsInv, AdsSerial, AdvertisingTypeOK, TaskAt, CreatesApart,
            OneActor, PeriodsApart, RemindersSent, TaskAlone, OverlapsOther,
            AdOpen
<1>1. CASE AdSweepDies
  <2>1. /\ adSweep # IdleSweep /\ adSweep' = IdleSweep
        /\ adRaced' = (adRaced \/ adSweep.publish # {})
        /\ UNCHANGED <<ads, noticed, adTask, today>>
    BY <1>1 DEF AdSweepDies
  <2>2. /\ adSweep'.activate = {} /\ adSweep'.expire = {}
        /\ adSweep'.remind = {} /\ adSweep'.publish = {}
    BY <2>1 DEF IdleSweep
  <2> QED BY <2>1, <2>2, AdTypes
<1>2. CASE NextDay
  <2>1. /\ today' = today + 1 /\ today < LastDate
        /\ UNCHANGED <<ads, noticed, adTask, adSweep, adRaced>>
    BY <1>2 DEF NextDay
  <2>2. today' \in AdDate
    BY <2>1, AdvertisingAssumption DEF AdDate
  <2> QED BY <2>1, <2>2
<1>3. CASE UNCHANGED adVars
  BY <1>3 DEF adVars
<1>4. CASE \/ AdSweepRead \/ AdSweepWrite
           \/ \E t \in AdRequest : AdWrite(t) \/ \E a \in Ad :
                 CreatePromotion(t, a) \/ ChangeStatus(t, a) \/ Extend(t, a)
  BY <1>4, SweepReadKeeps, SweepWriteKeeps, AdWriteKeeps, AdRequestKeeps
<1> QED BY <1>1, <1>2, <1>3, <1>4 DEF AdvertisingNext

\* The invariant holds in every state.
THEOREM AdsInvariant == AdvertisingSpec => []AdsInv
BY AdsInitially, AdsStepKeeps, PTL DEF AdvertisingSpec

\* A promotion that is shown has been paid for, whatever races
\* (changeStatus, the sweep's activation).
THEOREM ShownArePaid == AdvertisingSpec => []ShownIsPaid
<1>1. AdsInv => ShownIsPaid
  BY DEF AdsInv, ShownIsPaid, PubliclyShown, PaidStatus
<1> QED BY <1>1, AdsInvariant, PTL

\* As long as no two requests, and no request and the sweep, overlap, the
\* periods of a listing's open promotions are disjoint (createPromotion,
\* extend).
THEOREM PeriodsAreApart == AdvertisingSpec => []SerialPeriodsDisjoint
<1>1. AdsInv => SerialPeriodsDisjoint
  BY DEF AdsInv, AdsSerial, PeriodsApart, SerialPeriodsDisjoint,
         OverlapsOther, Overlap
<1> QED BY <1>1, AdsInvariant, PTL

\* Under the same condition every reminder that a row is marked with has been
\* sent, or is among those the sweep is publishing (the sweep's reminders).
THEOREM RemindersAreSent == AdvertisingSpec => []ReminderWasSent
<1>1. AdsInv => ReminderWasSent
  BY DEF AdsInv, AdsSerial, RemindersSent, ReminderWasSent
<1> QED BY <1>1, AdsInvariant, PTL

-----------------------------------------------------------------------------
(* The import of a feed *)

SyncTx == [room: [CalendarSlot -> Nat], rows: [Uid -> ImportedRow],
           conflicts: SUBSET Uid]

\* A place that is given back or taken is of its own date.
LEMMA RoomMoves ==
    ASSUME NEW rooms \in [CalendarSlot -> Nat], NEW slot
    PROVE  /\ Restored(rooms, slot) \in [CalendarSlot -> Nat]
           /\ \A s \in CalendarSlot : Restored(rooms, slot)[s] =
                 rooms[s] + (IF s = slot THEN 1 ELSE 0)
           /\ slot \in CalendarSlot /\ rooms[slot] # 0 =>
                 /\ Consumed(rooms, slot) \in [CalendarSlot -> Nat]
                 /\ \A s \in CalendarSlot : Consumed(rooms, slot)[s] =
                       rooms[s] - (IF s = slot THEN 1 ELSE 0)
<1>1. \A s \in CalendarSlot : rooms[s] \in Nat
  OBVIOUS
<1>2. DOMAIN Restored(rooms, slot) = CalendarSlot
      /\ DOMAIN Consumed(rooms, slot) = CalendarSlot
  BY DEF Restored, Consumed
<1>3. ASSUME NEW s \in CalendarSlot
      PROVE  Restored(rooms, slot)[s] = rooms[s] + (IF s = slot THEN 1 ELSE 0)
             /\ Restored(rooms, slot)[s] \in Nat
  <2>1. CASE s = slot
    BY <1>1, <2>1 DEF Restored
  <2>2. CASE s # slot
    BY <1>1, <2>2 DEF Restored
  <2> QED BY <2>1, <2>2
<1>4. Restored(rooms, slot) =
         [s \in CalendarSlot |-> Restored(rooms, slot)[s]]
  BY DEF Restored
<1>5. Restored(rooms, slot) \in [CalendarSlot -> Nat]
  BY <1>3, <1>4
<1>6. ASSUME slot \in CalendarSlot, rooms[slot] # 0, NEW s \in CalendarSlot
      PROVE  Consumed(rooms, slot)[s] = rooms[s] - (IF s = slot THEN 1 ELSE 0)
             /\ Consumed(rooms, slot)[s] \in Nat
  <2>1. CASE s = slot
    BY <1>1, <1>6, <2>1 DEF Consumed
  <2>2. CASE s # slot
    BY <1>1, <1>6, <2>2 DEF Consumed
  <2> QED BY <2>1, <2>2
<1>7. Consumed(rooms, slot) =
         [s \in CalendarSlot |-> Consumed(rooms, slot)[s]]
  BY DEF Consumed
<1>8. slot \in CalendarSlot /\ rooms[slot] # 0 =>
         Consumed(rooms, slot) \in [CalendarSlot -> Nat]
  BY <1>6, <1>7
<1> QED BY <1>3, <1>5, <1>6, <1>8

\* The calendar and the rows stay what they are, whatever a run has read.
LEMMA AppliedTyped ==
    ASSUME ConnectionsTypeOK, NEW r \in SyncRun, NEW fresh \in SUBSET Uid,
           NEW tx \in SyncTx, NEW u \in Uid
    PROVE  /\ EventApplied(r, fresh, tx, u) \in SyncTx
           /\ RemovalApplied(r, fresh, tx, u) \in SyncTx
<1>1. /\ sync[r].view \in [Uid -> ImportedRow]
      /\ sync[r].seen \in [Uid -> FeedEvent]
      /\ imported \in [Uid -> ImportedRow]
  BY DEF ConnectionsTypeOK, Run
<1>2. /\ tx.room \in [CalendarSlot -> Nat] /\ tx.rows \in [Uid -> ImportedRow]
      /\ tx.conflicts \in SUBSET Uid
  BY DEF SyncTx
<1>3. ASSUME NEW row \in ImportedRow PROVE CancelEvent(tx, u, row) \in SyncTx
  <2>1. Restored(tx.room, row.slot) \in [CalendarSlot -> Nat]
    BY <1>2, RoomMoves
  <2>2. [tx.rows[u] EXCEPT !.cancelled = TRUE] \in ImportedRow
    BY <1>2 DEF ImportedRow
  <2>3. [tx.rows EXCEPT ![u].cancelled = TRUE] \in [Uid -> ImportedRow]
    BY <1>2, <2>2
  <2> QED BY <2>1, <2>3 DEF CancelEvent, SyncTx
<1>4. Pooled(r, fresh, u) \in ImportedRow
  BY <1>1 DEF Pooled
<1>5. ASSUME sync[r].seen[u] \in CalendarSlot
      PROVE  ApplyEvent(tx, u, sync[r].view[u], sync[r].seen[u]) \in SyncTx
  <2> DEFINE known == sync[r].view[u]
             slot == sync[r].seen[u]
             rooms == IF known = NoRow THEN tx.room
                      ELSE Restored(tx.room, known.slot)
  <2>1. rooms \in [CalendarSlot -> Nat]
    BY <1>2, RoomMoves
  <2>2. Refused(tx, u) \in SyncTx
    BY <1>2 DEF Refused, SyncTx
  <2> HIDE DEF rooms
  <2>3. rooms[slot] # 0 => Consumed(rooms, slot) \in [CalendarSlot -> Nat]
    BY <1>5, <2>1, RoomMoves
  <2>4. [tx.rows[u] EXCEPT !.slot = slot] \in ImportedRow
    BY <1>2, <1>5 DEF ImportedRow
  <2>5. [tx.rows EXCEPT ![u].slot = slot] \in [Uid -> ImportedRow]
    BY <1>2, <2>4
  <2>6. rooms[slot] # 0 =>
           [tx EXCEPT !.room = Consumed(rooms, slot), !.rows[u].slot = slot]
              \in SyncTx
    BY <2>3, <2>5 DEF SyncTx
  <2> QED BY <2>2, <2>6 DEF ApplyEvent, rooms
<1>6. EventApplied(r, fresh, tx, u) \in SyncTx
  BY <1>1, <1>3, <1>4, <1>5 DEF EventApplied, FeedEvent
<1>7. RemovalApplied(r, fresh, tx, u) \in SyncTx
  BY <1>3, <1>4 DEF RemovalApplied
<1> QED BY <1>6, <1>7

\* The events are applied one after another, from the first of the feed to the
\* last, ...
LEMMA EventsInOrder ==
    ASSUME ConnectionsTypeOK, NEW r \in SyncRun, NEW fresh \in SUBSET Uid,
           NEW tx \in SyncTx
    PROVE  \E T \in [0 .. Len(Uids) -> SyncTx] :
              /\ T[0] = tx
              /\ \A k \in 1 .. Len(Uids) :
                    T[k] = EventApplied(r, fresh, T[k - 1], Uids[k])
              /\ EventsApplied(r, fresh, tx) = T[Len(Uids)]
<1> DEFINE n == Len(Uids)
           P == SUBSET (1 .. n)
           A(h) == [s \in P |-> IF s = {} THEN tx
                      ELSE EventApplied(r, fresh, h[s \ {Max(s)}],
                                        Uids[Max(s)])]
           g == CHOOSE h : h = A(h)
           G == [p \in SyncTx \X (1 .. n) |->
                   EventApplied(r, fresh, p[1], Uids[p[2]])]
<1>1. n \in Nat /\ DOMAIN Uids = 1 .. n /\ \A i \in 1 .. n : Uids[i] \in Uid
  BY FeedAssumption
<1>2. EventsApplied(r, fresh, tx) = g[1 .. n]
  BY <1>1 DEF EventsApplied, FoldLeft, MapThenFoldSet
<1>3. G \in [SyncTx \X (1 .. n) -> SyncTx]
  BY <1>1, AppliedTyped
<1>4. PICK f \in [P -> SyncTx] : IsFold(f, G, tx, n)
  BY <1>1, <1>3, FoldExists
<1>5. f = A(f)
  <2>1. ASSUME NEW s \in P, s # {}
        PROVE  G[<<f[s \ {Max(s)}], Max(s)>>] =
                  EventApplied(r, fresh, f[s \ {Max(s)}], Uids[Max(s)])
    <3>1. Max(s) \in 1 .. n /\ s \ {Max(s)} \in P
      BY <1>1, <2>1, LastOfPositions
    <3> QED BY <3>1
  <2> HIDE DEF G
  <2>2. f = [s \in P |-> IF s = {} THEN tx
                         ELSE G[<<f[s \ {Max(s)}], Max(s)>>]]
    BY <1>4 DEF IsFold
  <2>3. \A s \in P : f[s] = IF s = {} THEN tx
                            ELSE G[<<f[s \ {Max(s)}], Max(s)>>]
    BY <2>2
  <2>4. \A s \in P : f[s] = A(f)[s]
    BY <2>1, <2>3
  <2> HIDE DEF P
  <2> QED BY <2>4
<1> HIDE DEF A
<1>6. g = A(g)
  BY <1>5
<1> HIDE DEF g
<1>7. g[{}] = tx
  BY <1>6 DEF A
<1>8. ASSUME NEW k \in 1 .. n
      PROVE  g[1 .. k] = EventApplied(r, fresh, g[1 .. (k - 1)], Uids[k])
  <2>1. /\ 1 .. k \in P /\ 1 .. k # {} /\ Max(1 .. k) = k
        /\ (1 .. k) \ {Max(1 .. k)} = 1 .. (k - 1)
    BY <1>1, LastOfFirst
  <2> HIDE DEF n, P
  <2>2. g[1 .. k] = A(g)[1 .. k]
    BY <1>6
  <2> QED BY <2>1, <2>2 DEF A
<1> DEFINE T == [k \in 0 .. n |-> g[1 .. k]]
<1>9. T[0] = tx
  <2>1. 1 .. 0 = {} /\ 0 \in 0 .. n
    BY <1>1
  <2> QED BY <1>7, <2>1
<1>10. \A k \in 1 .. n : T[k] = EventApplied(r, fresh, T[k - 1], Uids[k])
  <2> TAKE k \in 1 .. n
  <2>1. k \in 0 .. n /\ k - 1 \in 0 .. n
    BY <1>1
  <2> QED BY <1>8, <2>1
<1>11. T[n] = g[1 .. n]
  BY <1>1
<1> HIDE DEF T
<1>12. \A k \in 0 .. n : T[k] \in SyncTx
  <2> DEFINE Bad == {k \in 0 .. n : T[k] \notin SyncTx}
  <2> SUFFICES ASSUME Bad # {} PROVE FALSE
    OBVIOUS
  <2>1. Bad \in SUBSET Nat
    BY <1>1
  <2> HIDE DEF Bad
  <2>2. PICK k \in Bad : \A m \in Bad : k <= m
    BY <2>1, SmallestNumber
  <2> USE DEF Bad
  <2>3. k \in 1 .. n /\ k - 1 \in 0 .. n /\ ~(k <= k - 1)
    BY <1>1, <1>9, <2>2
  <2>4. T[k - 1] \in SyncTx
    BY <2>2, <2>3
  <2>5. T[k] \in SyncTx
    BY <1>1, <1>10, <2>3, <2>4, AppliedTyped
  <2> QED BY <2>2, <2>5
<1>13. T \in [0 .. n -> SyncTx]
  BY <1>12 DEF T
<1> QED BY <1>2, <1>9, <1>10, <1>11, <1>13

\* ... and the removals after them.
LEMMA RemovalsInOrder ==
    ASSUME ConnectionsTypeOK, NEW r \in SyncRun, NEW fresh \in SUBSET Uid,
           NEW tx \in SyncTx
    PROVE  \E T \in [0 .. Len(Uids) -> SyncTx] :
              /\ T[0] = tx
              /\ \A k \in 1 .. Len(Uids) :
                    T[k] = RemovalApplied(r, fresh, T[k - 1], Uids[k])
              /\ RemovalsApplied(r, fresh, tx) = T[Len(Uids)]
<1> DEFINE n == Len(Uids)
           P == SUBSET (1 .. n)
           A(h) == [s \in P |-> IF s = {} THEN tx
                      ELSE RemovalApplied(r, fresh, h[s \ {Max(s)}],
                                        Uids[Max(s)])]
           g == CHOOSE h : h = A(h)
           G == [p \in SyncTx \X (1 .. n) |->
                   RemovalApplied(r, fresh, p[1], Uids[p[2]])]
<1>1. n \in Nat /\ DOMAIN Uids = 1 .. n /\ \A i \in 1 .. n : Uids[i] \in Uid
  BY FeedAssumption
<1>2. RemovalsApplied(r, fresh, tx) = g[1 .. n]
  BY <1>1 DEF RemovalsApplied, FoldLeft, MapThenFoldSet
<1>3. G \in [SyncTx \X (1 .. n) -> SyncTx]
  BY <1>1, AppliedTyped
<1>4. PICK f \in [P -> SyncTx] : IsFold(f, G, tx, n)
  BY <1>1, <1>3, FoldExists
<1>5. f = A(f)
  <2>1. ASSUME NEW s \in P, s # {}
        PROVE  G[<<f[s \ {Max(s)}], Max(s)>>] =
                  RemovalApplied(r, fresh, f[s \ {Max(s)}], Uids[Max(s)])
    <3>1. Max(s) \in 1 .. n /\ s \ {Max(s)} \in P
      BY <1>1, <2>1, LastOfPositions
    <3> QED BY <3>1
  <2> HIDE DEF G
  <2>2. f = [s \in P |-> IF s = {} THEN tx
                         ELSE G[<<f[s \ {Max(s)}], Max(s)>>]]
    BY <1>4 DEF IsFold
  <2>3. \A s \in P : f[s] = IF s = {} THEN tx
                            ELSE G[<<f[s \ {Max(s)}], Max(s)>>]
    BY <2>2
  <2>4. \A s \in P : f[s] = A(f)[s]
    BY <2>1, <2>3
  <2> HIDE DEF P
  <2> QED BY <2>4
<1> HIDE DEF A
<1>6. g = A(g)
  BY <1>5
<1> HIDE DEF g
<1>7. g[{}] = tx
  BY <1>6 DEF A
<1>8. ASSUME NEW k \in 1 .. n
      PROVE  g[1 .. k] = RemovalApplied(r, fresh, g[1 .. (k - 1)], Uids[k])
  <2>1. /\ 1 .. k \in P /\ 1 .. k # {} /\ Max(1 .. k) = k
        /\ (1 .. k) \ {Max(1 .. k)} = 1 .. (k - 1)
    BY <1>1, LastOfFirst
  <2> HIDE DEF n, P
  <2>2. g[1 .. k] = A(g)[1 .. k]
    BY <1>6
  <2> QED BY <2>1, <2>2 DEF A
<1> DEFINE T == [k \in 0 .. n |-> g[1 .. k]]
<1>9. T[0] = tx
  <2>1. 1 .. 0 = {} /\ 0 \in 0 .. n
    BY <1>1
  <2> QED BY <1>7, <2>1
<1>10. \A k \in 1 .. n : T[k] = RemovalApplied(r, fresh, T[k - 1], Uids[k])
  <2> TAKE k \in 1 .. n
  <2>1. k \in 0 .. n /\ k - 1 \in 0 .. n
    BY <1>1
  <2> QED BY <1>8, <2>1
<1>11. T[n] = g[1 .. n]
  BY <1>1
<1> HIDE DEF T
<1>12. \A k \in 0 .. n : T[k] \in SyncTx
  <2> DEFINE Bad == {k \in 0 .. n : T[k] \notin SyncTx}
  <2> SUFFICES ASSUME Bad # {} PROVE FALSE
    OBVIOUS
  <2>1. Bad \in SUBSET Nat
    BY <1>1
  <2> HIDE DEF Bad
  <2>2. PICK k \in Bad : \A m \in Bad : k <= m
    BY <2>1, SmallestNumber
  <2> USE DEF Bad
  <2>3. k \in 1 .. n /\ k - 1 \in 0 .. n /\ ~(k <= k - 1)
    BY <1>1, <1>9, <2>2
  <2>4. T[k - 1] \in SyncTx
    BY <2>2, <2>3
  <2>5. T[k] \in SyncTx
    BY <1>1, <1>10, <2>3, <2>4, AppliedTyped
  <2> QED BY <2>2, <2>5
<1>13. T \in [0 .. n -> SyncTx]
  BY <1>12 DEF T
<1> QED BY <1>2, <1>9, <1>10, <1>11, <1>13

\* An imported row takes a place of the date it is on unless it is cancelled.
Takes(row, s) == IF row.slot = s /\ ~row.cancelled THEN 1 ELSE 0
Taking(rows, s) == {u \in Uid : IsActive(rows, u) /\ rows[u].slot = s}
Accounts(rooms, rows) ==
    \A s \in CalendarSlot :
        rooms[s] + ownStays[s] + Cardinality(Taking(rows, s)) = SlotCapacity

\* A row has a date, or there is none.
RowsOK(rows) == \A u \in Uid : rows[u].slot = NoSlot => rows[u] = NoRow

\* There are finitely many events.
LEMMA UidsFinite == IsFiniteSet(Uid)
<1> DEFINE D == 1 .. Len(Uids)
           F == [i \in D |-> Uids[i]]
<1>1. DOMAIN Uids = D /\ Len(Uids) \in Nat
  BY FeedAssumption
<1>2. Uid = {Uids[i] : i \in D}
  BY <1>1 DEF Uid, ToSet
<1>3. IsFiniteSet(D)
  <2>1. 1 \in Int /\ Len(Uids) \in Int
    BY <1>1
  <2> QED BY <2>1, FS_Interval
<1>4. Uid = {F[i] : i \in D} /\ F \in Surjection(D, Uid)
  <2> HIDE DEF D
  <2>1. Uid = {F[i] : i \in D}
    BY <1>2
  <2> QED BY <2>1 DEF Surjection
<1> HIDE DEF D, F
<1> QED BY <1>3, <1>4, FS_Surjection

\* A row takes one place of a date or none.
LEMMA TakesOneOrNone ==
    ASSUME NEW row, NEW s
    PROVE  Takes(row, s) = 0 \/ Takes(row, s) = 1
  BY DEF Takes

\* The places add up when a row changes and its dates are paid or paid back.
LEMMA RowMoves ==
    ASSUME NEW rooms \in [CalendarSlot -> Nat],
           NEW after \in [CalendarSlot -> Nat],
           NEW rows \in [Uid -> ImportedRow], NEW u \in Uid,
           NEW row \in ImportedRow, ownStays \in [CalendarSlot -> Nat],
           Accounts(rooms, rows),
           \A s \in CalendarSlot :
              after[s] + Takes(row, s) = rooms[s] + Takes(rows[u], s)
    PROVE  Accounts(after, [rows EXCEPT ![u] = row])
<1> SUFFICES ASSUME NEW s \in CalendarSlot
             PROVE  after[s] + ownStays[s]
                       + Cardinality(Taking([rows EXCEPT ![u] = row], s))
                       = SlotCapacity
  BY DEF Accounts
<1> DEFINE rest == Taking(rows, s) \ {u}
           new == Taking([rows EXCEPT ![u] = row], s)
<1>1. s # NoSlot
  BY FeedAssumption DEF NoSlot
<1>2. /\ u \in Taking(rows, s) <=> Takes(rows[u], s) = 1
      /\ u \in new <=> Takes(row, s) = 1
      /\ new \ {u} = rest
  BY <1>1 DEF Taking, Takes, IsActive
<1>3. IsFiniteSet(Taking(rows, s)) /\ IsFiniteSet(new) /\ IsFiniteSet(rest)
  <2>1. Taking(rows, s) \in SUBSET Uid /\ new \in SUBSET Uid
        /\ rest \in SUBSET Uid
    BY DEF Taking
  <2> HIDE DEF new, rest
  <2> QED BY <2>1, UidsFinite, FS_Subset
<1> HIDE DEF new
<1>4. Cardinality(Taking(rows, s)) = Cardinality(rest) + Takes(rows[u], s)
  <2>1. CASE u \in Taking(rows, s)
    <3>1. Cardinality(rest) = Cardinality(Taking(rows, s)) - 1
      BY <1>3, <2>1, FS_RemoveElement
    <3>2. Cardinality(rest) \in Nat /\ Cardinality(Taking(rows, s)) \in Nat
      BY <1>3, FS_CardinalityType
    <3> QED BY <1>2, <2>1, <3>1, <3>2
  <2>2. CASE u \notin Taking(rows, s)
    <3>1. Cardinality(rest) = Cardinality(Taking(rows, s))
      <4>1. rest = Taking(rows, s)
        BY <2>2
      <4> QED BY <4>1
    <3>2. Takes(rows[u], s) = 0
      BY <1>2, <2>2, TakesOneOrNone
    <3>3. Cardinality(rest) \in Nat
      BY <1>3, FS_CardinalityType
    <3> HIDE DEF rest
    <3> QED BY <3>1, <3>2, <3>3
  <2> QED BY <2>1, <2>2
<1>5. Cardinality(new) = Cardinality(rest) + Takes(row, s)
  <2>1. CASE u \in new
    <3>1. Cardinality(new \ {u}) = Cardinality(new) - 1
      BY <1>3, <2>1, FS_RemoveElement
    <3>2. Cardinality(rest) \in Nat /\ Cardinality(new) \in Nat
      BY <1>3, FS_CardinalityType
    <3>3. Takes(row, s) = 1 /\ Cardinality(rest) = Cardinality(new) - 1
      BY <1>2, <2>1, <3>1
    <3> HIDE DEF rest
    <3> QED BY <3>2, <3>3
  <2>2. CASE u \notin new
    <3>1. Cardinality(rest) = Cardinality(new)
      <4>1. rest = new
        BY <1>2, <2>2
      <4> QED BY <4>1
    <3>2. Takes(row, s) = 0
      BY <1>2, <2>2, TakesOneOrNone
    <3>3. Cardinality(rest) \in Nat
      BY <1>3, FS_CardinalityType
    <3> HIDE DEF rest
    <3> QED BY <3>1, <3>2, <3>3
  <2> QED BY <2>1, <2>2
<1> HIDE DEF rest
<1>6. /\ Cardinality(rest) \in Nat /\ Takes(row, s) \in Nat
      /\ Takes(rows[u], s) \in Nat
      /\ after[s] \in Nat /\ rooms[s] \in Nat /\ ownStays[s] \in Nat
  BY <1>3, FS_CardinalityType DEF Takes
<1>7. /\ after[s] + Takes(row, s) = rooms[s] + Takes(rows[u], s)
      /\ rooms[s] + ownStays[s] + Cardinality(Taking(rows, s)) = SlotCapacity
  BY DEF Accounts
<1>8. after[s] + ownStays[s] + Cardinality(new) = SlotCapacity
  BY <1>4, <1>5, <1>6, <1>7
<1> QED BY <1>8 DEF new

\* What one event or removal does to the transaction: it settles its row.
Settles(tx, tx2, u, row) ==
    /\ row \in ImportedRow
    /\ tx2.rows = [tx.rows EXCEPT ![u] = row]
    /\ row.slot = NoSlot => row = NoRow
    /\ \A s \in CalendarSlot :
          tx2.room[s] + Takes(row, s) = tx.room[s] + Takes(tx.rows[u], s)
    /\ tx.conflicts \subseteq tx2.conflicts

\* A row that is cancelled gives its place back, once.
LEMMA CancelSettles ==
    ASSUME NEW tx \in SyncTx, NEW u \in Uid, RowsOK(tx.rows)
    PROVE  \E row : /\ Settles(tx, CancelEvent(tx, u, tx.rows[u]), u, row)
                    /\ row = NoRow \/ row.cancelled
<1>1. /\ tx.room \in [CalendarSlot -> Nat] /\ tx.rows \in [Uid -> ImportedRow]
      /\ tx.rows[u] \in ImportedRow
  BY DEF SyncTx
<1> DEFINE old == tx.rows[u]
           tx2 == CancelEvent(tx, u, old)
<1>2. CASE old = NoRow \/ old.cancelled
  <2>1. tx2 = tx
    BY <1>2 DEF CancelEvent
  <2>2. tx.rows = [tx.rows EXCEPT ![u] = old]
    BY <1>1
  <2>3. Settles(tx, tx2, u, old)
    BY <1>1, <2>1, <2>2 DEF Settles, RowsOK
  <2> QED BY <1>2, <2>3
<1>3. CASE ~(old = NoRow \/ old.cancelled)
  <2> DEFINE row == [old EXCEPT !.cancelled = TRUE]
             rooms == Restored(tx.room, old.slot)
  <2>1. /\ row \in ImportedRow /\ row.cancelled /\ row.slot = old.slot
        /\ old.slot # NoSlot
    BY <1>1, <1>3 DEF ImportedRow, RowsOK
  <2>2. /\ tx2.room = rooms /\ tx2.conflicts = tx.conflicts
        /\ tx2.rows = [tx.rows EXCEPT ![u] = row]
    BY <1>1, <1>3 DEF CancelEvent, SyncTx
  <2>3. ASSUME NEW s \in CalendarSlot
        PROVE  rooms[s] + Takes(row, s) = tx.room[s] + Takes(old, s)
    <3>1. rooms[s] = tx.room[s] + (IF s = old.slot THEN 1 ELSE 0)
      BY <1>1, RoomMoves
    <3>2. Takes(row, s) = 0 /\ tx.room[s] \in Nat
          /\ Takes(old, s) = (IF s = old.slot THEN 1 ELSE 0)
      BY <1>1, <1>3, <2>1 DEF Takes
    <3> QED BY <3>1, <3>2
  <2> HIDE DEF row, rooms, tx2
  <2>4. Settles(tx, tx2, u, row)
    BY <2>1, <2>2, <2>3 DEF Settles
  <2> QED BY <2>1, <2>4 DEF tx2
<1> QED BY <1>2, <1>3

\* An event with dates is put on them, left where it is or reported.
LEMMA ApplySettles ==
    ASSUME NEW tx \in SyncTx, NEW u \in Uid, RowsOK(tx.rows),
           ~tx.rows[u].cancelled, NEW slot \in CalendarSlot
    PROVE  \E row :
              LET tx2 == ApplyEvent(tx, u, tx.rows[u], slot)
              IN  /\ Settles(tx, tx2, u, row)
                  /\ u \notin tx2.conflicts =>
                        row.slot = slot /\ ~row.cancelled
<1>1. /\ tx.room \in [CalendarSlot -> Nat] /\ tx.rows \in [Uid -> ImportedRow]
      /\ tx.rows[u] \in ImportedRow
  BY DEF SyncTx
<1> DEFINE old == tx.rows[u]
           tx2 == ApplyEvent(tx, u, old, slot)
           rooms == IF old = NoRow THEN tx.room ELSE Restored(tx.room, old.slot)
<1>2. slot # NoSlot
  BY FeedAssumption DEF NoSlot
<1>3. tx.rows = [tx.rows EXCEPT ![u] = old]
  BY <1>1
<1>4. CASE old.slot = slot
  <2>1. tx2 = tx
    BY <1>4 DEF ApplyEvent
  <2>2. Settles(tx, tx2, u, old)
    BY <1>1, <1>2, <1>3, <1>4, <2>1 DEF Settles
  <2> QED BY <1>4, <2>2
<1>5. CASE old.slot # slot /\ rooms[slot] = 0
  <2>1. tx2 = [tx EXCEPT !.conflicts = @ \cup {u}]
    BY <1>5 DEF ApplyEvent, Refused
  <2>2. /\ tx2.room = tx.room /\ tx2.rows = tx.rows
        /\ tx2.conflicts = tx.conflicts \cup {u}
    BY <2>1 DEF SyncTx
  <2>3. Settles(tx, tx2, u, old)
    BY <1>1, <1>3, <2>2 DEF Settles, RowsOK
  <2> QED BY <2>2, <2>3
<1>6. CASE old.slot # slot /\ rooms[slot] # 0
  <2> DEFINE row == [old EXCEPT !.slot = slot]
             after == Consumed(rooms, slot)
  <2>1. row \in ImportedRow /\ row.slot = slot /\ ~row.cancelled
    BY <1>1 DEF ImportedRow
  <2>2. tx2 = [tx EXCEPT !.room = after, !.rows[u].slot = slot]
    BY <1>6 DEF ApplyEvent
  <2>3. /\ tx2.room = after /\ tx2.conflicts = tx.conflicts
        /\ tx2.rows = [tx.rows EXCEPT ![u] = row]
    BY <1>1, <2>2 DEF SyncTx
  <2>4. ASSUME NEW s \in CalendarSlot
        PROVE  after[s] + Takes(row, s) = tx.room[s] + Takes(old, s)
    <3>1. rooms \in [CalendarSlot -> Nat]
          /\ rooms[s] = tx.room[s] + Takes(old, s)
      <4>1. CASE old = NoRow
        <5>1. Takes(old, s) = 0 /\ tx.room[s] \in Nat
          BY <1>1, <4>1, FeedAssumption DEF Takes, NoRow, NoSlot
        <5> QED BY <1>1, <4>1, <5>1
      <4>2. CASE old # NoRow
        <5>1. Takes(old, s) = (IF s = old.slot THEN 1 ELSE 0)
          BY DEF Takes
        <5> QED BY <1>1, <4>2, <5>1, RoomMoves
      <4> QED BY <4>1, <4>2
    <3> HIDE DEF rooms
    <3>2. after[s] = rooms[s] - (IF s = slot THEN 1 ELSE 0)
      BY <1>6, <3>1, RoomMoves
    <3>3. /\ Takes(row, s) = (IF s = slot THEN 1 ELSE 0)
          /\ Takes(old, s) \in Nat /\ tx.room[s] \in Nat
      BY <1>1, <2>1 DEF Takes
    <3> QED BY <3>1, <3>2, <3>3
  <2> HIDE DEF row, after, rooms, tx2
  <2>5. Settles(tx, tx2, u, row)
    BY <1>2, <2>1, <2>3, <2>4 DEF Settles
  <2> QED BY <2>1, <2>5 DEF tx2
<1> QED BY <1>4, <1>5, <1>6

\* A row is as the feed has its event.
Mirrors(row, event) ==
    IF event \in CalendarSlot THEN row.slot = event /\ ~row.cancelled
                              ELSE row = NoRow \/ row.cancelled

\* The transaction after the events in D: they are as in the feed or reported,
\* the others are as they were, and every place is accounted for.
ImportedSoFar(r, tx, D) ==
    /\ RowsOK(tx.rows)
    /\ Accounts(tx.room, tx.rows)
    /\ \A u \in Uid \cap D :
          u \in tx.conflicts \/ Mirrors(tx.rows[u], sync[r].seen[u])
    /\ \A u \in Uid \ D : tx.rows[u] = imported[u]

\* What a run has read still holds, and none of its events was cancelled before.
Undisturbed(r) ==
    /\ sync[r].view = imported
    /\ sync[r].before = {u \in Uid : IsActive(imported, u)}
    /\ \A u \in Uid : sync[r].seen[u] \in CalendarSlot => ~imported[u].cancelled

\* A row that is settled joins those that are as in the feed or reported.
LEMMA SettledRow ==
    ASSUME ConnectionsTypeOK, NEW r \in SyncRun, NEW tx \in SyncTx,
           NEW tx2 \in SyncTx, NEW u \in Uid, NEW D, NEW row,
           ImportedSoFar(r, tx, D), Settles(tx, tx2, u, row),
           u \in tx2.conflicts \/ Mirrors(row, sync[r].seen[u])
    PROVE  ImportedSoFar(r, tx2, D \cup {u})
<1>1. /\ tx.room \in [CalendarSlot -> Nat] /\ tx.rows \in [Uid -> ImportedRow]
      /\ tx2.room \in [CalendarSlot -> Nat]
      /\ ownStays \in [CalendarSlot -> Nat]
  BY DEF SyncTx, ConnectionsTypeOK
<1>2. /\ row \in ImportedRow
      /\ tx2.rows = [tx.rows EXCEPT ![u] = row]
      /\ row.slot = NoSlot => row = NoRow
      /\ tx.conflicts \subseteq tx2.conflicts
  BY DEF Settles
<1>3. Accounts(tx2.room, tx2.rows)
  <2>1. \A s \in CalendarSlot :
           tx2.room[s] + Takes(row, s) = tx.room[s] + Takes(tx.rows[u], s)
    BY DEF Settles
  <2>2. Accounts(tx.room, tx.rows)
    BY DEF ImportedSoFar
  <2>3. Accounts(tx2.room, [tx.rows EXCEPT ![u] = row])
    BY <1>1, <1>2, <2>1, <2>2, RowMoves
  <2> QED BY <1>2, <2>3
<1>4. RowsOK(tx2.rows)
  BY <1>1, <1>2 DEF RowsOK, ImportedSoFar
<1>5. ASSUME NEW v \in Uid \cap (D \cup {u})
      PROVE  v \in tx2.conflicts \/ Mirrors(tx2.rows[v], sync[r].seen[v])
  <2>1. CASE v = u
    BY <1>1, <1>2, <2>1
  <2>2. CASE v # u
    <3>1. v \in tx.conflicts \/ Mirrors(tx.rows[v], sync[r].seen[v])
      BY <1>5, <2>2 DEF ImportedSoFar
    <3>2. tx2.rows[v] = tx.rows[v]
      BY <1>1, <1>2, <2>2
    <3> QED BY <1>2, <3>1, <3>2
  <2> QED BY <2>1, <2>2
<1>6. ASSUME NEW v \in Uid \ (D \cup {u})
      PROVE  tx2.rows[v] = imported[v]
  BY <1>1, <1>2 DEF ImportedSoFar
<1> QED BY <1>3, <1>4, <1>5, <1>6 DEF ImportedSoFar

\* One event of a run that is undisturbed, ...
LEMMA EventSettles ==
    ASSUME ConnectionsTypeOK, NEW r \in SyncRun, NEW fresh \in SUBSET Uid,
           Undisturbed(r), NEW tx \in SyncTx, NEW u \in Uid, NEW D, u \notin D,
           ImportedSoFar(r, tx, D), sync[r].seen[u] # "absent"
    PROVE  ImportedSoFar(r, EventApplied(r, fresh, tx, u), D \cup {u})
<1>1. /\ sync[r].seen \in [Uid -> FeedEvent]
      /\ imported \in [Uid -> ImportedRow]
      /\ sync[r].view = imported
      /\ tx.rows[u] = imported[u] /\ RowsOK(tx.rows)
  BY DEF ConnectionsTypeOK, Run, Undisturbed, ImportedSoFar
<1>2. EventApplied(r, fresh, tx, u) \in SyncTx
  BY AppliedTyped
<1>3. Pooled(r, fresh, u) = tx.rows[u]
  BY <1>1 DEF Pooled
<1>4. CASE sync[r].seen[u] = "CANCELLED"
  <2>1. EventApplied(r, fresh, tx, u) = CancelEvent(tx, u, tx.rows[u])
    BY <1>3, <1>4 DEF EventApplied
  <2>2. PICK row : /\ Settles(tx, CancelEvent(tx, u, tx.rows[u]), u, row)
                   /\ row = NoRow \/ row.cancelled
    BY <1>1, CancelSettles
  <2>3. Mirrors(row, sync[r].seen[u])
    BY <1>4, <2>2, FeedAssumption DEF Mirrors
  <2> QED BY <1>2, <2>1, <2>2, <2>3, SettledRow
<1>5. CASE sync[r].seen[u] # "CANCELLED"
  <2>1. sync[r].seen[u] \in CalendarSlot
    BY <1>1, <1>5 DEF FeedEvent
  <2> DEFINE tx2 == ApplyEvent(tx, u, tx.rows[u], sync[r].seen[u])
  <2>2. EventApplied(r, fresh, tx, u) = tx2
    BY <1>1, <1>5 DEF EventApplied
  <2>3. ~tx.rows[u].cancelled
    BY <1>1, <2>1 DEF Undisturbed
  <2>4. PICK row : /\ Settles(tx, tx2, u, row)
                   /\ u \notin tx2.conflicts =>
                         row.slot = sync[r].seen[u] /\ ~row.cancelled
    BY <1>1, <2>1, <2>3, ApplySettles
  <2>5. u \in tx2.conflicts \/ Mirrors(row, sync[r].seen[u])
    BY <2>1, <2>4 DEF Mirrors
  <2> HIDE DEF tx2
  <2> QED BY <1>2, <2>2, <2>4, <2>5, SettledRow
<1> QED BY <1>4, <1>5

\* ... and one removal.
LEMMA RemovalSettles ==
    ASSUME ConnectionsTypeOK, NEW r \in SyncRun, NEW fresh \in SUBSET Uid,
           Undisturbed(r), NEW tx \in SyncTx, NEW u \in Uid, NEW D, u \notin D,
           ImportedSoFar(r, tx, D), sync[r].seen[u] = "absent"
    PROVE  ImportedSoFar(r, RemovalApplied(r, fresh, tx, u), D \cup {u})
<1>1. /\ imported \in [Uid -> ImportedRow] /\ sync[r].view = imported
      /\ tx.rows[u] = imported[u] /\ RowsOK(tx.rows)
  BY DEF ConnectionsTypeOK, Undisturbed, ImportedSoFar
<1>2. Pooled(r, fresh, u) = tx.rows[u]
  BY <1>1 DEF Pooled
<1>3. "absent" \notin CalendarSlot
  BY FeedAssumption
<1>4. CASE u \in RemovedUids(r)
  <2>1. RemovalApplied(r, fresh, tx, u) = CancelEvent(tx, u, tx.rows[u])
    BY <1>2, <1>4 DEF RemovalApplied
  <2>2. PICK row : /\ Settles(tx, CancelEvent(tx, u, tx.rows[u]), u, row)
                   /\ row = NoRow \/ row.cancelled
    BY <1>1, CancelSettles
  <2>3. Mirrors(row, sync[r].seen[u])
    BY <1>3, <2>2 DEF Mirrors
  <2>4. CancelEvent(tx, u, tx.rows[u]) \in SyncTx
    BY <2>1, AppliedTyped
  <2>5. ImportedSoFar(r, CancelEvent(tx, u, tx.rows[u]), D \cup {u})
    BY <2>2, <2>3, <2>4, SettledRow
  <2> QED BY <2>1, <2>5
<1>5. CASE u \notin RemovedUids(r)
  <2>1. RemovalApplied(r, fresh, tx, u) = tx
    BY <1>5 DEF RemovalApplied
  <2>2. ~IsActive(imported, u)
    BY <1>5 DEF RemovedUids, Undisturbed
  <2>3. tx.rows[u] = NoRow \/ tx.rows[u].cancelled
    BY <1>1, <2>2 DEF IsActive, RowsOK
  <2>4. Mirrors(tx.rows[u], sync[r].seen[u])
    BY <1>3, <2>3 DEF Mirrors
  <2> QED BY <2>1, <2>4 DEF ImportedSoFar
<1> QED BY <1>4, <1>5

\* The whole of an import.
LEMMA ImportTyped ==
    ASSUME ConnectionsTypeOK, NEW r \in SyncRun, NEW fresh \in SUBSET Uid
    PROVE  Import(r, fresh) \in SyncTx
<1> DEFINE start == [room |-> room, rows |-> imported, conflicts |-> {}]
           after == EventsApplied(r, fresh, start)
<1>1. start \in SyncTx
  BY DEF SyncTx, ConnectionsTypeOK
<1>2. Len(Uids) \in 0 .. Len(Uids)
  BY FeedAssumption
<1> HIDE DEF start
<1>3. after \in SyncTx
  <2>1. PICK T \in [0 .. Len(Uids) -> SyncTx] : after = T[Len(Uids)]
    BY <1>1, EventsInOrder
  <2> QED BY <1>2, <2>1
<1> HIDE DEF after
<1>4. RemovalsApplied(r, fresh, after) \in SyncTx
  <2>1. PICK T \in [0 .. Len(Uids) -> SyncTx] :
           RemovalsApplied(r, fresh, after) = T[Len(Uids)]
    BY <1>3, RemovalsInOrder
  <2> QED BY <1>2, <2>1
<1> QED BY <1>4 DEF Import, start, after

\* When nothing disturbs the run, every event is settled at its end.
LEMMA ImportSettles ==
    ASSUME ConnectionsTypeOK, NEW r \in SyncRun, NEW fresh \in SUBSET Uid,
           Undisturbed(r), RowsOK(imported), Accounts(room, imported)
    PROVE  ImportedSoFar(r, Import(r, fresh), Uid)
<1> DEFINE n == Len(Uids)
           start == [room |-> room, rows |-> imported, conflicts |-> {}]
           after == EventsApplied(r, fresh, start)
           done == RemovalsApplied(r, fresh, after)
           InFeed == {u \in Uid : sync[r].seen[u] # "absent"}
           First(k) == {Uids[i] : i \in 1 .. k}
<1>1. /\ n \in Nat /\ \A i \in 1 .. n : Uids[i] \in Uid
      /\ \A u \in Uid : \E i \in 1 .. n : u = Uids[i]
  BY FeedAssumption DEF Uid, ToSet
<1>2. \A k \in 1 .. n : /\ First(k) = First(k - 1) \cup {Uids[k]}
                        /\ Uids[k] \notin First(k - 1)
  <2> TAKE k \in 1 .. n
  <2>1. 1 .. k = (1 .. (k - 1)) \cup {k} /\ k \notin 1 .. (k - 1)
        /\ 1 .. (k - 1) \subseteq 1 .. n
    BY <1>1
  <2> QED BY <2>1, FeedAssumption
<1>3. First(0) = {} /\ First(n) = Uid
  BY <1>1
<1>4. start \in SyncTx /\ ImportedSoFar(r, start, {})
  BY DEF SyncTx, ConnectionsTypeOK, ImportedSoFar
<1> HIDE DEF start, First, n
<1>5. after \in SyncTx /\ ImportedSoFar(r, after, InFeed)
  <2>1. PICK T \in [0 .. n -> SyncTx] :
           /\ T[0] = start
           /\ \A k \in 1 .. n : T[k] = EventApplied(r, fresh, T[k - 1], Uids[k])
           /\ after = T[n]
    BY <1>4, EventsInOrder DEF n
  <2> DEFINE Fine(k) == ImportedSoFar(r, T[k], InFeed \cap First(k))
             Bad == {k \in 0 .. n : ~Fine(k)}
  <2>2. Bad = {}
    <3> SUFFICES ASSUME Bad # {} PROVE FALSE
      OBVIOUS
    <3> HIDE DEF Fine
    <3>1. Bad \in SUBSET Nat
      BY <1>1
    <3> HIDE DEF Bad
    <3>2. PICK k \in Bad : \A m \in Bad : k <= m
      BY <3>1, SmallestNumber
    <3> USE DEF Bad
    <3>3. Fine(0)
      <4>1. InFeed \cap First(0) = {}
        BY <1>3
      <4> QED BY <1>4, <2>1, <4>1 DEF Fine
    <3>4. k \in 1 .. n /\ k - 1 \in 0 .. n /\ ~(k <= k - 1)
      BY <1>1, <3>2, <3>3
    <3>5. Fine(k - 1)
      BY <3>2, <3>4
    <3>6. T[k - 1] \in SyncTx /\ Uids[k] \in Uid
      BY <1>1, <2>1, <3>4
    <3>7. CASE Uids[k] \in InFeed
      <4> DEFINE D == InFeed \cap First(k - 1)
      <4>1. Uids[k] \notin D /\ D \cup {Uids[k]} = InFeed \cap First(k)
        BY <1>2, <3>4, <3>7
      <4>2. ImportedSoFar(r, T[k - 1], D) /\ sync[r].seen[Uids[k]] # "absent"
        BY <3>5, <3>7 DEF Fine
      <4> HIDE DEF D
      <4>3. ImportedSoFar(r, EventApplied(r, fresh, T[k - 1], Uids[k]),
                          D \cup {Uids[k]})
        BY <3>6, <4>1, <4>2, EventSettles
      <4> QED BY <2>1, <3>2, <3>4, <4>1, <4>3 DEF Fine
    <3>8. CASE Uids[k] \notin InFeed
      <4>1. InFeed \cap First(k) = InFeed \cap First(k - 1)
        BY <1>2, <3>4, <3>8
      <4>2. T[k] = T[k - 1]
        BY <2>1, <3>4, <3>6, <3>8 DEF EventApplied
      <4> QED BY <3>2, <3>5, <4>1, <4>2 DEF Fine
    <3> QED BY <3>7, <3>8
  <2>3. n \in 0 .. n /\ InFeed \cap First(n) = InFeed
    BY <1>1, <1>3
  <2>4. Fine(n)
    <3> HIDE DEF Fine
    <3> QED BY <2>2, <2>3
  <2> QED BY <2>1, <2>3, <2>4
<1> HIDE DEF after
<1>6. ImportedSoFar(r, done, Uid)
  <2>1. PICK T \in [0 .. n -> SyncTx] :
           /\ T[0] = after
           /\ \A k \in 1 .. n :
                 T[k] = RemovalApplied(r, fresh, T[k - 1], Uids[k])
           /\ done = T[n]
    BY <1>5, RemovalsInOrder DEF n
  <2> DEFINE Fine(k) == ImportedSoFar(r, T[k], InFeed \cup First(k))
             Bad == {k \in 0 .. n : ~Fine(k)}
  <2>2. Bad = {}
    <3> SUFFICES ASSUME Bad # {} PROVE FALSE
      OBVIOUS
    <3> HIDE DEF Fine
    <3>1. Bad \in SUBSET Nat
      BY <1>1
    <3> HIDE DEF Bad
    <3>2. PICK k \in Bad : \A m \in Bad : k <= m
      BY <3>1, SmallestNumber
    <3> USE DEF Bad
    <3>3. Fine(0)
      <4>1. InFeed \cup First(0) = InFeed
        BY <1>3
      <4> QED BY <1>5, <2>1, <4>1 DEF Fine
    <3>4. k \in 1 .. n /\ k - 1 \in 0 .. n /\ ~(k <= k - 1)
      BY <1>1, <3>2, <3>3
    <3>5. Fine(k - 1)
      BY <3>2, <3>4
    <3>6. T[k - 1] \in SyncTx /\ Uids[k] \in Uid
      BY <1>1, <2>1, <3>4
    <3>7. CASE Uids[k] \notin InFeed
      <4> DEFINE D == InFeed \cup First(k - 1)
      <4>1. Uids[k] \notin D /\ D \cup {Uids[k]} = InFeed \cup First(k)
        BY <1>2, <3>4, <3>7
      <4>2. ImportedSoFar(r, T[k - 1], D) /\ sync[r].seen[Uids[k]] = "absent"
        BY <3>5, <3>6, <3>7 DEF Fine
      <4> HIDE DEF D
      <4>3. ImportedSoFar(r, RemovalApplied(r, fresh, T[k - 1], Uids[k]),
                          D \cup {Uids[k]})
        BY <3>6, <4>1, <4>2, RemovalSettles
      <4> QED BY <2>1, <3>2, <3>4, <4>1, <4>3 DEF Fine
    <3>8. CASE Uids[k] \in InFeed
      <4>1. InFeed \cup First(k) = InFeed \cup First(k - 1)
        BY <1>2, <3>4, <3>8
      <4>2. T[k] = T[k - 1]
        BY <2>1, <3>4, <3>8 DEF RemovalApplied, RemovedUids
      <4> QED BY <3>2, <3>5, <4>1, <4>2 DEF Fine
    <3> QED BY <3>7, <3>8
  <2>3. n \in 0 .. n /\ InFeed \cup First(n) = Uid
    BY <1>1, <1>3
  <2>4. Fine(n)
    <3> HIDE DEF Fine
    <3> QED BY <2>2, <2>3
  <2> QED BY <2>1, <2>3, <2>4
<1> QED BY <1>6 DEF Import, done, after, start

-----------------------------------------------------------------------------
(* The invariants *)

OneRunAtATime ==
    \A q, r \in SyncRun : sync[q].pc # "idle" /\ sync[r].pc # "idle" => q = r

\* A run that has loaded an error knows the last word, and beside a run that
\* has loaded none, whatever is written over the status is no error.
LoadedIsKnown ==
    \A r \in SyncRun : sync[r].pc # "idle" =>
        /\ connection.status # "NONE"
        /\ IF sync[r].loaded.status = "ERROR" THEN told = sync[r].loaded.error
           ELSE connection.status # "ERROR"

WordIsGiven ==
    /\ connection.status = "ERROR" => told = connection.error
    /\ (told \in SyncError /\ connection.status # "ERROR") =>
          (unsaid \/ connection.deleted)

RunsAreFresh ==
    \A r \in SyncRun :
        /\ sync[r].pc \in {"started", "read"} =>
              sync[r].before = {u \in Uid : IsActive(imported, u)}
        /\ sync[r].pc = "read" => Undisturbed(r)

RunsHaveMirrored ==
    \A r \in SyncRun : sync[r].pc = "imported" /\ sync[r].unit =>
        \A u \in Uid \ sync[r].conflicts :
            Mirrors(imported[u], sync[r].seen[u])

\* The word the partner has, and the connection the run keeps.
WordInv == OneRunAtATime /\ LoadedIsKnown /\ WordIsGiven

\* The rows and the calendar, as long as no cancelled event has come back.
RowsInv ==
    /\ RowsOK(imported) /\ Accounts(room, imported)
    /\ RunsAreFresh /\ RunsHaveMirrored

ConnectionsInv ==
    /\ ConnectionsTypeOK
    /\ ~overlapped => WordInv
    /\ ~overlapped /\ reused = {} => RowsInv

\* It holds of a connection that is not there yet.
LEMMA ConnectionsStart == InitConnections => ConnectionsInv
<1> SUFFICES ASSUME InitConnections PROVE ConnectionsInv
  OBVIOUS
<1> USE DEF InitConnections
<1>1. IdleRun \in Run
  BY DEF IdleRun, Run, Connection, ConnectionStatus, FeedEvent, ImportedRow,
         NoRow, NoSlot
<1>2. NoRow \in ImportedRow
  BY DEF NoRow, ImportedRow
<1>3. ConnectionsTypeOK
  <2>1. feed \in [Uid -> FeedEvent] /\ imported \in [Uid -> ImportedRow]
    BY <1>2 DEF FeedEvent
  <2>2. /\ room \in [CalendarSlot -> Nat] /\ ownStays \in [CalendarSlot -> Nat]
        /\ feedChanges \in 0 .. FeedLimit /\ syncFaults \in 0 .. SyncFaultLimit
    BY ConnectionAssumption
  <2>3. connection \in Connection
    BY DEF Connection, ConnectionStatus
  <2> QED BY <1>1, <2>1, <2>2, <2>3 DEF ConnectionsTypeOK
<1>4. \A r \in SyncRun : sync[r].pc = "idle"
  BY DEF IdleRun
<1>5. OneRunAtATime /\ LoadedIsKnown /\ RunsAreFresh /\ RunsHaveMirrored
  BY <1>4 DEF OneRunAtATime, LoadedIsKnown, RunsAreFresh, RunsHaveMirrored
<1>6. WordIsGiven
  BY DEF WordIsGiven, SyncError
<1>7. RowsOK(imported)
  BY DEF RowsOK
<1>8. Accounts(room, imported)
  <2> SUFFICES ASSUME NEW s \in CalendarSlot
               PROVE  room[s] + ownStays[s] + Cardinality(Taking(imported, s))
                         = SlotCapacity
    BY DEF Accounts
  <2>1. Taking(imported, s) = {}
    BY DEF Taking, IsActive, NoRow
  <2>2. Cardinality(Taking(imported, s)) = 0
    BY <2>1, FS_EmptySet
  <2> QED BY <2>2, ConnectionAssumption
<1> QED BY <1>3, <1>5, <1>6, <1>7, <1>8 DEF ConnectionsInv, WordInv, RowsInv

\* The types are kept by the world, ...
LEMMA WorldTyped ==
    ASSUME ConnectionsTypeOK, World, UNCHANGED syncFaults
    PROVE  ConnectionsTypeOK'
<1> USE DEF ConnectionsTypeOK, World
<1>1. feedChanges' \in 0 .. FeedLimit
  BY ConnectionAssumption
<1>2. CASE FeedChanges
  BY <1>1, <1>2 DEF FeedChanges
<1>3. CASE OwnStay
  <2>1. room' \in [CalendarSlot -> Nat] /\ ownStays' \in [CalendarSlot -> Nat]
    <3>1. PICK s \in CalendarSlot :
             \/ /\ room[s] > 0
                /\ room' = [room EXCEPT ![s] = @ - 1]
                /\ ownStays' = [ownStays EXCEPT ![s] = @ + 1]
             \/ /\ ownStays[s] > 0
                /\ room' = [room EXCEPT ![s] = @ + 1]
                /\ ownStays' = [ownStays EXCEPT ![s] = @ - 1]
      BY <1>3 DEF OwnStay
    <3>2. room[s] \in Nat /\ ownStays[s] \in Nat
      OBVIOUS
    <3> QED BY <3>1, <3>2
  <2> QED BY <1>1, <1>3, <2>1 DEF OwnStay
<1>4. CASE SetMapping
  BY <1>1, <1>4 DEF SetMapping
<1> QED BY <1>2, <1>3, <1>4

\* ... by the steps of a run, ...
LEMMA SyncTyped ==
    ASSUME ConnectionsTypeOK, NEW r \in SyncRun,
           SyncStep(r) /\ UNCHANGED syncFaults
    PROVE  ConnectionsTypeOK'
<1> USE DEF ConnectionsTypeOK
<1>1. IdleRun \in Run
  BY DEF IdleRun, Run, Connection, ConnectionStatus, FeedEvent, ImportedRow,
         NoRow, NoSlot
<1>2. sync[r] \in Run
  OBVIOUS
<1>3. CASE SyncLoad(r)
  <2>1. [IdleRun EXCEPT !.pc = "loaded", !.loaded = connection] \in Run
    BY <1>1 DEF Run
  <2> QED BY <1>3, <2>1 DEF SyncLoad
<1>4. CASE SyncStart(r)
  <2> DEFINE run == [sync[r] EXCEPT
                 !.pc = "started", !.unit = mapped,
                 !.before = {u \in Uid : IsActive(imported, u)}]
  <2>1. run \in Run
    BY <1>2 DEF Run
  <2>2. sync' = [sync EXCEPT ![r] = run]
    BY <1>4 DEF SyncStart
  <2> HIDE DEF run
  <2> QED BY <1>4, <2>1, <2>2 DEF SyncStart
<1>5. CASE SyncRead(r)
  <2> DEFINE run == [sync[r] EXCEPT
                 !.pc = "read", !.seen = feed, !.view = imported]
  <2>1. run \in Run
    BY <1>2 DEF Run
  <2>2. sync' = [sync EXCEPT ![r] = run]
    BY <1>5 DEF SyncRead
  <2> HIDE DEF run
  <2> QED BY <1>5, <2>1, <2>2 DEF SyncRead
<1>6. CASE SyncImport(r)
  <2>1. CASE ~sync[r].unit
    <3> DEFINE run == [sync[r] EXCEPT !.pc = "imported"]
    <3>1. run \in Run
      BY <1>2 DEF Run
    <3>2. sync' = [sync EXCEPT ![r] = run]
      BY <1>6, <2>1 DEF SyncImport
    <3> HIDE DEF run
    <3> QED BY <1>6, <2>1, <3>1, <3>2 DEF SyncImport
  <2>2. CASE sync[r].unit
    <3>1. PICK fresh \in SUBSET Uid :
             /\ room' = Import(r, fresh).room
             /\ imported' = Import(r, fresh).rows
             /\ sync' = [sync EXCEPT
                   ![r].pc = "imported",
                   ![r].conflicts = Import(r, fresh).conflicts]
      BY <1>6, <2>2 DEF SyncImport
    <3>2. /\ Import(r, fresh).room \in [CalendarSlot -> Nat]
          /\ Import(r, fresh).rows \in [Uid -> ImportedRow]
          /\ Import(r, fresh).conflicts \in SUBSET Uid
      BY ImportTyped DEF SyncTx
    <3> DEFINE run == [sync[r] EXCEPT
                   !.pc = "imported",
                   !.conflicts = Import(r, fresh).conflicts]
    <3>3. run \in Run
      BY <1>2, <3>2 DEF Run
    <3>4. sync' = [sync EXCEPT ![r] = run]
      BY <3>1
    <3> HIDE DEF run
    <3> QED BY <1>6, <3>1, <3>2, <3>3, <3>4 DEF SyncImport
  <2> QED BY <2>1, <2>2
<1>7. CASE SyncFinish(r)
  <2>1. [connection EXCEPT !.status = "ACTIVE", !.error = NoError]
           \in Connection
    BY DEF Connection, ConnectionStatus
  <2> QED BY <1>1, <1>7, <2>1 DEF SyncFinish
<1> QED BY <1>3, <1>4, <1>5, <1>6, <1>7 DEF SyncStep

\* ... and by its failure or death.
LEMMA FaultTyped ==
    ASSUME ConnectionsTypeOK, SyncFault
    PROVE  ConnectionsTypeOK'
<1> USE DEF ConnectionsTypeOK
<1>1. IdleRun \in Run
  BY DEF IdleRun, Run, Connection, ConnectionStatus, FeedEvent, ImportedRow,
         NoRow, NoSlot
<1>2. syncFaults' \in 0 .. SyncFaultLimit
  BY ConnectionAssumption DEF SyncFault
<1>3. PICK r \in SyncRun : SyncFails(r) \/ SyncDies(r)
  BY DEF SyncFault
<1>4. CASE SyncFails(r)
  <2>1. PICK error \in SyncError :
           /\ connection' = [connection EXCEPT
                              !.status = "ERROR", !.error = error]
           /\ told' = IF IsNewFailure(sync[r].loaded, error) THEN error
                      ELSE told
    BY <1>4 DEF SyncFails
  <2>2. [connection EXCEPT !.status = "ERROR", !.error = error] \in Connection
    BY DEF Connection, ConnectionStatus
  <2> QED BY <1>1, <1>2, <1>4, <2>1, <2>2 DEF SyncFails
<1>5. CASE SyncDies(r)
  BY <1>1, <1>2, <1>5 DEF SyncDies
<1> QED BY <1>3, <1>4, <1>5

\* So every step keeps them.
LEMMA ConnectionsTyped ==
    ASSUME ConnectionsTypeOK, [ConnectionsNext]_connectionVars
    PROVE  ConnectionsTypeOK'
<1>1. CASE World /\ UNCHANGED syncFaults
  BY <1>1, WorldTyped
<1>2. CASE CreateConnection /\ UNCHANGED syncFaults
  <2>1. [connection EXCEPT !.status = "ACTIVE"] \in Connection
    BY DEF Connection, ConnectionStatus, ConnectionsTypeOK
  <2> QED BY <1>2, <2>1 DEF CreateConnection, ConnectionsTypeOK
<1>3. CASE Disconnect /\ UNCHANGED syncFaults
  <2>1. [connection EXCEPT !.status = "DISCONNECTED", !.deleted = TRUE]
           \in Connection
    BY DEF Connection, ConnectionStatus, ConnectionsTypeOK
  <2> QED BY <1>3, <2>1 DEF Disconnect, ConnectionsTypeOK
<1>4. ASSUME NEW r \in SyncRun, SyncStep(r) /\ UNCHANGED syncFaults
      PROVE  ConnectionsTypeOK'
  BY <1>4, SyncTyped
<1>5. CASE SyncFault
  BY <1>5, FaultTyped
<1>6. CASE UNCHANGED connectionVars
  BY <1>6 DEF connectionVars, ConnectionsTypeOK
<1>7. CASE PatchReads /\ UNCHANGED syncFaults
  <2>1. feedChanges' \in 0 .. FeedLimit
    BY <1>7, ConnectionAssumption DEF PatchReads, ConnectionsTypeOK
  <2> QED BY <1>7, <2>1 DEF PatchReads, ConnectionsTypeOK
<1>8. CASE PatchWrites /\ UNCHANGED syncFaults
  <2>1. [connection EXCEPT !.status = patch] \in Connection
    BY <1>8 DEF PatchWrites, PatchStatus, Connection, ConnectionStatus,
                ConnectionsTypeOK
  <2> QED BY <1>8, <2>1 DEF PatchWrites, ConnectionsTypeOK
<1> QED BY <1>1, <1>2, <1>3, <1>4, <1>5, <1>6, <1>7, <1>8 DEF ConnectionsNext

\* While a run goes on, there is no other.
LEMMA OtherRunsWait ==
    ASSUME OneRunAtATime, NEW r \in SyncRun, NEW q \in SyncRun,
           sync[r].pc # "idle", sync[q].pc # "idle"
    PROVE  q = r
  BY DEF OneRunAtATime

\* Only a run that starts can overlap another, and only one that reads the
\* feed can find a cancelled event in it.
LEMMA MarksMove ==
    ASSUME [ConnectionsNext]_connectionVars
    PROVE  /\ UNCHANGED overlapped \/ \E r \in SyncRun : SyncLoad(r)
           /\ UNCHANGED reused \/ \E r \in SyncRun : SyncRead(r)
<1>1. CASE \/ World \/ CreateConnection \/ Disconnect
           \/ PatchReads \/ PatchWrites \/ UNCHANGED connectionVars
  BY <1>1 DEF World, CreateConnection, Disconnect, PatchReads, PatchWrites,
              connectionVars
<1>2. ASSUME NEW r \in SyncRun, SyncLoad(r) \/ SyncRead(r)
      PROVE  /\ UNCHANGED overlapped \/ SyncLoad(r)
             /\ UNCHANGED reused \/ SyncRead(r)
  BY <1>2 DEF SyncLoad, SyncRead
<1>3. ASSUME NEW r \in SyncRun,
             \/ SyncStart(r) \/ SyncImport(r) \/ SyncFinish(r)
             \/ SyncFails(r) \/ SyncDies(r)
      PROVE  UNCHANGED <<overlapped, reused>>
  BY <1>3 DEF SyncStart, SyncImport, SyncFinish, SyncFails, SyncDies
<1> QED BY <1>1, <1>2, <1>3 DEF ConnectionsNext, SyncStep, SyncFault

\* Every step leaves the partner told of the state the connection is in.
LEMMA WordKept ==
    ASSUME ConnectionsTypeOK, [ConnectionsNext]_connectionVars,
           ~overlapped', ~overlapped => WordInv
    PROVE  WordInv'
<1> USE DEF ConnectionsTypeOK
<1>1. ~overlapped
  BY MarksMove DEF SyncLoad
<1>2. OneRunAtATime /\ LoadedIsKnown /\ WordIsGiven
  BY <1>1 DEF WordInv
<1>3. CASE World \/ PatchReads \/ UNCHANGED connectionVars
  <2>1. UNCHANGED <<connection, sync, told, unsaid>>
    BY <1>3 DEF World, PatchReads, connectionVars
  <2> QED BY <1>2, <2>1 DEF WordInv, OneRunAtATime, LoadedIsKnown,
                            WordIsGiven
<1>4. CASE CreateConnection
  <2>1. \A r \in SyncRun : sync[r].pc = "idle"
    BY <1>2, <1>4 DEF CreateConnection, LoadedIsKnown
  <2>2. UNCHANGED <<sync, told, unsaid>> /\ connection.status = "NONE"
        /\ connection' = [connection EXCEPT !.status = "ACTIVE"]
    BY <1>4 DEF CreateConnection
  <2>3. WordIsGiven'
    BY <1>2, <2>2 DEF WordIsGiven, Connection
  <2> QED BY <2>1, <2>2, <2>3 DEF WordInv, OneRunAtATime, LoadedIsKnown
<1>5. CASE Disconnect
  <2>1. UNCHANGED <<sync, told>>
        /\ connection'.status = "DISCONNECTED" /\ connection'.deleted
    BY <1>5 DEF Disconnect, Connection
  <2> QED BY <1>2, <2>1 DEF WordInv, OneRunAtATime, LoadedIsKnown,
                            WordIsGiven
<1>6. CASE PatchWrites
  <2>1. /\ UNCHANGED <<sync, told>>
        /\ unsaid' = (unsaid \/ connection.status = "ERROR")
        /\ connection'.status \in PatchStatus
        /\ connection'.deleted = connection.deleted
    BY <1>6 DEF PatchWrites, Connection
  <2>2. connection'.status \notin {"NONE", "ERROR"}
    BY <2>1 DEF PatchStatus
  <2>3. LoadedIsKnown'
    BY <1>2, <2>1, <2>2 DEF LoadedIsKnown
  <2>4. WordIsGiven'
    BY <1>2, <2>1, <2>2 DEF WordIsGiven
  <2> QED BY <1>2, <2>1, <2>3, <2>4 DEF WordInv, OneRunAtATime
<1>7. ASSUME NEW r \in SyncRun, SyncLoad(r)
      PROVE  WordInv'
  <2>1. \A q \in SyncRun : sync[q].pc = "idle"
    BY <1>7 DEF SyncLoad
  <2>2. /\ \A q \in SyncRun : q # r => sync'[q] = sync[q]
        /\ sync'[r].loaded = connection
        /\ UNCHANGED <<connection, told, unsaid>>
        /\ connection.status # "NONE"
    BY <1>7 DEF SyncLoad, IdleRun
  <2>3. OneRunAtATime' /\ LoadedIsKnown'
    BY <1>2, <2>1, <2>2 DEF OneRunAtATime, LoadedIsKnown, WordIsGiven
  <2> QED BY <1>2, <2>2, <2>3 DEF WordInv, WordIsGiven
<1>8. ASSUME NEW r \in SyncRun, SyncStart(r) \/ SyncRead(r) \/ SyncImport(r)
      PROVE  WordInv'
  <2>1. /\ \A q \in SyncRun : q # r => sync'[q] = sync[q]
        /\ sync'[r].loaded = sync[r].loaded /\ sync[r].pc # "idle"
        /\ UNCHANGED <<connection, told, unsaid>>
    BY <1>8 DEF SyncStart, SyncRead, SyncImport, Run
  <2>2. OneRunAtATime' /\ LoadedIsKnown'
    BY <1>2, <2>1 DEF OneRunAtATime, LoadedIsKnown
  <2> QED BY <1>2, <2>1, <2>2 DEF WordInv, WordIsGiven
<1>9. ASSUME NEW r \in SyncRun, SyncFinish(r) \/ SyncFails(r) \/ SyncDies(r)
      PROVE  WordInv'
  <2>1. /\ sync[r].pc # "idle" /\ sync'[r].pc = "idle"
        /\ \A q \in SyncRun : q # r => sync'[q] = sync[q]
    <3>1. IdleRun.pc = "idle"
      BY DEF IdleRun
    <3>2. sync[r].pc # "idle" /\ sync' = [sync EXCEPT ![r] = IdleRun]
      BY <1>9 DEF SyncFinish, SyncFails, SyncDies
    <3> QED BY <3>1, <3>2
  <2>2. \A q \in SyncRun : sync'[q].pc = "idle"
    BY <1>2, <2>1, OtherRunsWait
  <2>3. OneRunAtATime' /\ LoadedIsKnown'
    BY <2>2 DEF OneRunAtATime, LoadedIsKnown
  <2>4. IF sync[r].loaded.status = "ERROR" THEN told = sync[r].loaded.error
        ELSE connection.status # "ERROR"
    BY <1>2, <2>1 DEF LoadedIsKnown
  <2>5. WordIsGiven'
    <3>1. CASE SyncFinish(r)
      <4>1. /\ connection' = [connection EXCEPT !.status = "ACTIVE",
                                                !.error = NoError]
            /\ told' = IF sync[r].loaded.status = "ERROR" THEN "recovered"
                       ELSE told
            /\ unsaid' = (unsaid /\ sync[r].loaded.status # "ERROR")
        BY <3>1 DEF SyncFinish
      <4>2. /\ connection'.status = "ACTIVE"
            /\ connection'.deleted = connection.deleted
        BY <4>1 DEF Connection
      <4> QED BY <1>2, <2>4, <4>1, <4>2 DEF WordIsGiven, SyncError
    <3>2. CASE SyncFails(r)
      <4>1. PICK error \in SyncError :
               /\ connection' = [connection EXCEPT
                                  !.status = "ERROR", !.error = error]
               /\ told' = IF IsNewFailure(sync[r].loaded, error) THEN error
                          ELSE told
        BY <3>2 DEF SyncFails
      <4>2. connection'.status = "ERROR" /\ connection'.error = error
        BY <4>1 DEF Connection
      <4> QED BY <2>4, <4>1, <4>2 DEF WordIsGiven, IsNewFailure
    <3>3. CASE SyncDies(r)
      BY <1>2, <3>3 DEF SyncDies, WordIsGiven
    <3> QED BY <1>9, <3>1, <3>2, <3>3
  <2> QED BY <2>3, <2>5 DEF WordInv
<1> QED BY <1>3, <1>4, <1>5, <1>6, <1>7, <1>8, <1>9
        DEF ConnectionsNext, SyncStep, SyncFault

\* Every step leaves the places accounted for, and the runs undisturbed.
LEMMA RowsKept ==
    ASSUME ConnectionsTypeOK, [ConnectionsNext]_connectionVars,
           ~overlapped' /\ reused' = {},
           ~overlapped => OneRunAtATime,
           ~overlapped /\ reused = {} => RowsInv
    PROVE  RowsInv'
<1> USE DEF ConnectionsTypeOK
<1>1. ~overlapped /\ reused = {}
  <2>1. ~overlapped
    BY MarksMove DEF SyncLoad
  <2>2. ASSUME NEW r \in SyncRun, SyncRead(r) PROVE reused \subseteq reused'
    BY <2>2 DEF SyncRead
  <2> QED BY <2>1, <2>2, MarksMove
<1>2. /\ OneRunAtATime /\ RowsOK(imported) /\ Accounts(room, imported)
      /\ RunsAreFresh /\ RunsHaveMirrored
  BY <1>1 DEF RowsInv
<1>3. ASSUME UNCHANGED <<imported, sync>>
      PROVE  RunsAreFresh' /\ RunsHaveMirrored' /\ RowsOK(imported)'
  BY <1>2, <1>3 DEF RunsAreFresh, RunsHaveMirrored, Undisturbed, RowsOK,
                    IsActive, Mirrors
<1>4. ASSUME UNCHANGED <<imported, room, ownStays>>
      PROVE  RowsOK(imported)' /\ Accounts(room, imported)'
  BY <1>2, <1>4 DEF Accounts, RowsOK, Taking, IsActive
<1>5. CASE World
  <2>1. CASE FeedChanges \/ SetMapping
    <3>1. UNCHANGED <<imported, sync, room, ownStays>>
      BY <1>5, <2>1 DEF World, FeedChanges, SetMapping
    <3> QED BY <1>3, <1>4, <3>1 DEF RowsInv
  <2>2. CASE OwnStay
    <3>1. UNCHANGED <<imported, sync>>
      BY <1>5 DEF World
    <3>2. \A s \in CalendarSlot :
             room'[s] + ownStays'[s] = room[s] + ownStays[s]
      BY <2>2 DEF OwnStay
    <3>3. \A s \in CalendarSlot : Taking(imported, s)' = Taking(imported, s)
      BY <3>1 DEF Taking, IsActive
    <3>4. Accounts(room, imported)'
      BY <1>2, <3>2, <3>3 DEF Accounts
    <3> QED BY <1>3, <3>1, <3>4 DEF RowsInv
  <2> QED BY <1>5, <2>1, <2>2 DEF World
<1>6. CASE \/ CreateConnection \/ Disconnect \/ PatchReads \/ PatchWrites
           \/ UNCHANGED connectionVars
  <2>1. UNCHANGED <<imported, sync, room, ownStays>>
    BY <1>6 DEF CreateConnection, Disconnect, PatchReads, PatchWrites,
                connectionVars
  <2> QED BY <1>3, <1>4, <2>1 DEF RowsInv
<1>7. ASSUME NEW r \in SyncRun,
             SyncLoad(r) \/ SyncStart(r) \/ SyncRead(r) \/ SyncFinish(r)
                \/ SyncFails(r) \/ SyncDies(r)
      PROVE  RowsInv'
  <2>1. /\ UNCHANGED <<imported, room, ownStays>>
        /\ \A q \in SyncRun : q # r => sync'[q] = sync[q]
    BY <1>7 DEF SyncLoad, SyncStart, SyncRead, SyncFinish, SyncFails, SyncDies
  <2>2. ASSUME NEW q \in SyncRun, sync'[q] = sync[q]
        PROVE  /\ sync[q].pc \in {"started", "read"} =>
                     sync'[q].before = {u \in Uid : IsActive(imported, u)}'
               /\ sync[q].pc = "read" => Undisturbed(q)'
               /\ sync[q].pc = "imported" /\ sync[q].unit =>
                     \A u \in Uid \ sync'[q].conflicts :
                        Mirrors(imported[u], sync[q].seen[u])'
    BY <1>2, <2>1, <2>2 DEF RunsAreFresh, RunsHaveMirrored, Undisturbed,
                            IsActive, Mirrors
  <2>3. /\ sync'[r].pc \in {"started", "read"} =>
              sync'[r].before = {u \in Uid : IsActive(imported, u)}'
        /\ sync'[r].pc = "read" => Undisturbed(r)'
        /\ sync'[r].pc # "imported"
    <3>1. CASE SyncLoad(r) \/ SyncFinish(r) \/ SyncFails(r) \/ SyncDies(r)
      <4>1. sync'[r].pc \in {"idle", "loaded"}
        <5>1. /\ IdleRun.pc = "idle"
              /\ [IdleRun EXCEPT !.pc = "loaded", !.loaded = connection].pc
                    = "loaded"
          BY DEF IdleRun
        <5>2. \/ sync' = [sync EXCEPT ![r] = IdleRun]
              \/ sync' = [sync EXCEPT ![r] = [IdleRun EXCEPT
                                               !.pc = "loaded",
                                               !.loaded = connection]]
          BY <3>1 DEF SyncLoad, SyncFinish, SyncFails, SyncDies
        <5> QED BY <5>1, <5>2
      <4> QED BY <4>1
    <3>2. CASE SyncStart(r)
      <4>1. /\ sync'[r].pc = "started"
            /\ sync'[r].before = {u \in Uid : IsActive(imported, u)}
        BY <3>2 DEF SyncStart, Run
      <4> QED BY <2>1, <4>1 DEF IsActive
    <3>3. CASE SyncRead(r)
      <4>1. /\ sync'[r].pc = "read" /\ sync'[r].seen = feed
            /\ sync'[r].view = imported /\ sync'[r].before = sync[r].before
            /\ sync[r].pc = "started"
        BY <3>3 DEF SyncRead, Run
      <4>2. sync[r].before = {u \in Uid : IsActive(imported, u)}
        BY <1>2, <4>1 DEF RunsAreFresh
      <4>3. \A u \in Uid : ~(imported[u].cancelled /\ feed[u] \in CalendarSlot)
        BY <3>3 DEF SyncRead
      <4> QED BY <2>1, <4>1, <4>2, <4>3 DEF Undisturbed, IsActive
    <3> QED BY <1>7, <3>1, <3>2, <3>3
  <2>4. RunsAreFresh'
    BY <2>1, <2>2, <2>3 DEF RunsAreFresh
  <2>5. RunsHaveMirrored'
    BY <2>1, <2>2, <2>3 DEF RunsHaveMirrored
  <2> QED BY <1>4, <2>1, <2>4, <2>5 DEF RowsInv
<1>8. ASSUME NEW r \in SyncRun, SyncImport(r)
      PROVE  RowsInv'
  <2>1. /\ sync[r].pc = "read" /\ sync'[r].pc = "imported"
        /\ sync'[r].unit = sync[r].unit /\ sync'[r].seen = sync[r].seen
        /\ UNCHANGED ownStays
        /\ \A q \in SyncRun : q # r => sync'[q] = sync[q]
    BY <1>8 DEF SyncImport, Run
  <2>2. Undisturbed(r)
    BY <1>2, <2>1 DEF RunsAreFresh
  <2>3. \A q \in SyncRun : q # r => sync'[q].pc = "idle"
    BY <1>2, <2>1, OtherRunsWait
  <2>4. RunsAreFresh'
    BY <2>1, <2>3 DEF RunsAreFresh
  <2>5. CASE ~sync[r].unit
    <3>1. UNCHANGED <<imported, room, ownStays>>
      BY <1>8, <2>5 DEF SyncImport
    <3>2. RunsHaveMirrored'
      BY <2>1, <2>3, <2>5 DEF RunsHaveMirrored
    <3> QED BY <1>4, <2>4, <3>1, <3>2 DEF RowsInv
  <2>6. CASE sync[r].unit
    <3>1. PICK fresh \in SUBSET Uid :
             /\ room' = Import(r, fresh).room
             /\ imported' = Import(r, fresh).rows
             /\ sync' = [sync EXCEPT
                   ![r].pc = "imported",
                   ![r].conflicts = Import(r, fresh).conflicts]
      BY <1>8, <2>6 DEF SyncImport
    <3>2. sync'[r].conflicts = Import(r, fresh).conflicts
      BY <3>1 DEF Run
    <3>3. ImportedSoFar(r, Import(r, fresh), Uid)
      BY <1>2, <2>2, ImportSettles
    <3>4. /\ RowsOK(imported') /\ Accounts(room', imported')
          /\ \A u \in Uid \ sync'[r].conflicts :
                Mirrors(imported'[u], sync[r].seen[u])
      BY <3>1, <3>2, <3>3 DEF ImportedSoFar
    <3>5. RowsOK(imported)'
      BY <3>4 DEF RowsOK
    <3>6. Accounts(room, imported)'
      BY <2>1, <3>4 DEF Accounts, Taking, IsActive
    <3>7. RunsHaveMirrored'
      BY <2>1, <2>3, <3>4 DEF RunsHaveMirrored, Mirrors
    <3> QED BY <2>4, <3>5, <3>6, <3>7 DEF RowsInv
  <2> QED BY <2>5, <2>6
<1> QED BY <1>5, <1>6, <1>7, <1>8 DEF ConnectionsNext, SyncStep, SyncFault

\* The invariant is inductive.
LEMMA ConnectionsStep ==
    ASSUME ConnectionsInv, [ConnectionsNext]_connectionVars
    PROVE  ConnectionsInv'
<1>1. ConnectionsTypeOK'
  BY ConnectionsTyped DEF ConnectionsInv
<1>2. ~overlapped' => WordInv'
  BY WordKept DEF ConnectionsInv, WordInv
<1>3. ~overlapped' /\ reused' = {} => RowsInv'
  BY RowsKept DEF ConnectionsInv, WordInv
<1> QED BY <1>1, <1>2, <1>3 DEF ConnectionsInv, WordInv, RowsInv

\* So it always holds.
LEMMA ConnectionsInductive == ConnectionsSpec => []ConnectionsInv
<1>1. InitConnections => ConnectionsInv
  BY ConnectionsStart
<1>2. ConnectionsInv /\ [ConnectionsNext]_connectionVars => ConnectionsInv'
  BY ConnectionsStep
<1> QED BY <1>1, <1>2, PTL DEF ConnectionsSpec

\* While runs do not overlap and no cancelled event comes back, every place of
\* a date is free, sold here, or taken by an imported event, whatever the feed,
\* its changes, the failures and the crashes (applySystemExternalReservation,
\* cancelSystemExternalReservation, importAvailability).
THEOREM RoomIsAccounted == ConnectionsSpec => []ImportedRoomAccounted
<1>1. ConnectionsInv => ImportedRoomAccounted
  BY DEF ConnectionsInv, RowsInv, ImportedRoomAccounted, Accounts, Taking
<1> QED BY <1>1, ConnectionsInductive, PTL

\* Under the same conditions, a run leaves every event it did not report as the
\* feed it has read has it (importAvailability, icalConnector.js).
THEOREM FeedIsMirrored == ConnectionsSpec => []FeedMirrored
<1>1. ConnectionsInv => FeedMirrored
  <2> SUFFICES ASSUME ConnectionsInv, NEW r \in SyncRun,
                      sync[r].pc = "imported", sync[r].unit,
                      ~overlapped, reused = {},
                      NEW u \in Uid \ sync[r].conflicts
               PROVE  IF sync[r].seen[u] \in CalendarSlot
                      THEN IsActive(imported, u)
                           /\ imported[u].slot = sync[r].seen[u]
                      ELSE ~IsActive(imported, u)
    BY DEF FeedMirrored
  <2>1. Mirrors(imported[u], sync[r].seen[u])
    BY DEF ConnectionsInv, RowsInv, RunsHaveMirrored
  <2>2. NoSlot \notin CalendarSlot
    BY FeedAssumption DEF NoSlot
  <2> QED BY <2>1, <2>2 DEF Mirrors, IsActive, NoRow
<1> QED BY <1>1, ConnectionsInductive, PTL

\* While runs do not overlap, the partner has been told the error the connection
\* is in, and only a PATCH or a disconnection takes it out of that error without
\* a word, whatever the PATCHes beside a run write over (#executeSync,
\* updateConnection).
THEOREM PartnerKnows == ConnectionsSpec => []PartnerWasTold
<1>1. ConnectionsInv => PartnerWasTold
  BY DEF ConnectionsInv, WordInv, PartnerWasTold, WordIsGiven
<1> QED BY <1>1, ConnectionsInductive, PTL

\* The connection, its reservations and its runs are of their types.
THEOREM ConnectionsTypes == ConnectionsSpec => []ConnectionsTypeOK
<1>1. ConnectionsInv => ConnectionsTypeOK
  BY DEF ConnectionsInv
<1> QED BY <1>1, ConnectionsInductive, PTL
=============================================================================
