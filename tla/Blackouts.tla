----------------------------- MODULE Blackouts -----------------------------
(***************************************************************************)
(* The ranges of blackout_dates of one listing:                            *)
(* apps/api/src/modules/availability/services/blackoutService.js with its  *)
(* repository, and the veto that reserveCapacity reads from them.          *)
(*                                                                         *)
(* Nothing here is in a transaction: an edit reads the row, asks whether   *)
(* the range it wants overlaps another, and writes, each a statement of    *)
(* its own.  Module Availability has the rest of a hold request, and takes *)
(* from here only the set of days that are blacked out.                    *)
(***************************************************************************)
EXTENDS Naturals, FiniteSets

CONSTANTS
    BlackoutRow,     \* blackout_dates rows that may be created
    Editor,          \* owners and administrators who edit
    Guest,           \* hold requests
    LastBlackoutDay  \* bound: the last day of the calendar

ASSUME BlackoutAssumption == LastBlackoutDay \in Nat /\ BlackoutRow # {}

VARIABLES
    ranges,          \* the rows
    rangeEdit,       \* the edit each editor has under way
    guest,           \* the hold requests
    editsOverlapped  \* two edits have been under way at once

blackoutVars == <<ranges, rangeEdit, guest, editsOverlapped>>

BlackoutDate == 1..LastBlackoutDay
DateRange == [from: BlackoutDate, to: BlackoutDate]
Keep == 0           \* a field the request leaves out
NoRange == [from |-> 0, to |-> 0]

\* from, to: the fields of the request; read: the row as updateRange found it.
RangeEdit == [pc: {"idle", "read", "checked"}, row: BlackoutRow,
              from: BlackoutDate \cup {Keep}, to: BlackoutDate \cup {Keep},
              read: DateRange \cup {NoRange}]
NoEdit == [pc |-> "idle", row |-> CHOOSE r \in BlackoutRow : TRUE,
           from |-> Keep, to |-> Keep, read |-> NoRange]

DaysOf(range) == range.from .. range.to
Vetoed == UNION {DaysOf(ranges[r]) : r \in {r \in BlackoutRow :
                                              ranges[r] # NoRange}}

\* always: the days of the stay that have been vetoed since the request began.
GuestState == [pc: {"idle", "asking", "cleared", "granted"},
               stay: SUBSET BlackoutDate, always: SUBSET BlackoutDate]
NoStay == [pc |-> "idle", stay |-> {}, always |-> {}]

InitBlackouts ==
    /\ ranges = [r \in BlackoutRow |-> NoRange]
    /\ rangeEdit = [e \in Editor |-> NoEdit]
    /\ guest = [g \in Guest |-> NoStay]
    /\ editsOverlapped = FALSE

-----------------------------------------------------------------------------
(* createRange, updateRange, deleteRange *)

\* hasOverlap
HasOverlap(row, range) ==
    \E r \in BlackoutRow \ {row} :
        /\ ranges[r] # NoRange
        /\ ranges[r].from <= range.to /\ range.from <= ranges[r].to

EditBegins(e, edit) ==
    /\ rangeEdit[e] = NoEdit
    /\ rangeEdit' = [rangeEdit EXCEPT ![e] = edit]
    /\ editsOverlapped' =
          (editsOverlapped \/ \E f \in Editor : rangeEdit[f] # NoEdit)
    /\ UNCHANGED <<ranges, guest>>

\* The id is the row's auto-increment, so nobody else has it.
CreateRange(e) ==
    \E row \in BlackoutRow, range \in DateRange :
        /\ range.from <= range.to /\ ranges[row] = NoRange
        /\ \A f \in Editor : rangeEdit[f] # NoEdit => rangeEdit[f].row # row
        /\ ~HasOverlap(row, range)
        /\ EditBegins(e, [pc |-> "checked", row |-> row, from |-> range.from,
                          to |-> range.to, read |-> NoRange])

UpdateRange(e) ==
    \E row \in BlackoutRow, from, to \in BlackoutDate \cup {Keep} :
        /\ ranges[row] # NoRange /\ {from, to} # {Keep}
        /\ EditBegins(e, [pc |-> "read", row |-> row, from |-> from, to |-> to,
                          read |-> ranges[row]])

\* The range the update is checked for: absent fields as they were read.
NextRange(edit) ==
    [from |-> IF edit.from = Keep THEN edit.read.from ELSE edit.from,
     to |-> IF edit.to = Keep THEN edit.read.to ELSE edit.to]

UpdateChecks(e) ==
    LET edit == rangeEdit[e]
        next == NextRange(edit)
    IN  /\ edit.pc = "read"
        /\ rangeEdit' = [rangeEdit EXCEPT ![e] =
              IF next.to < next.from \/ HasOverlap(edit.row, next)
              THEN NoEdit ELSE [edit EXCEPT !.pc = "checked"]]
        /\ UNCHANGED <<ranges, guest, editsOverlapped>>

\* Only the given columns are assigned.
Assigned(edit, row) ==
    [from |-> IF edit.from = Keep THEN row.from ELSE edit.from,
     to |-> IF edit.to = Keep THEN row.to ELSE edit.to]

\* The days of a stay that go on being vetoed after a write.
Watched(g) == [guest[g] EXCEPT !.always = @ \cap Vetoed']

\* INSERT, or an UPDATE that finds no row if another editor has deleted it.
EditWrites(e) ==
    LET edit == rangeEdit[e]
        row == ranges[edit.row]
    IN  /\ edit.pc = "checked"
        /\ ranges' = [ranges EXCEPT ![edit.row] =
              IF row = NoRange /\ edit.read # NoRange THEN NoRange
              ELSE Assigned(edit, row)]
        /\ rangeEdit' = [rangeEdit EXCEPT ![e] = NoEdit]
        /\ guest' = [g \in Guest |-> Watched(g)]
        /\ UNCHANGED editsOverlapped

\* An editor's request dies between two statements.
EditDies(e) ==
    /\ rangeEdit[e] # NoEdit
    /\ rangeEdit' = [rangeEdit EXCEPT ![e] = NoEdit]
    /\ UNCHANGED <<ranges, guest, editsOverlapped>>

DeleteRange(e) ==
    /\ rangeEdit[e] = NoEdit
    /\ \E row \in BlackoutRow :
          /\ ranges[row] # NoRange
          /\ ranges' = [ranges EXCEPT ![row] = NoRange]
    /\ guest' = [g \in Guest |-> Watched(g)]
    /\ editsOverlapped' =
          (editsOverlapped \/ \E f \in Editor : rangeEdit[f] # NoEdit)
    /\ UNCHANGED rangeEdit

-----------------------------------------------------------------------------
(* reserveCapacity *)

GuestAsks(g) ==
    /\ guest[g].pc = "idle"
    /\ \E range \in DateRange :
          /\ range.from <= range.to
          /\ guest' = [guest EXCEPT ![g] =
                [pc |-> "asking", stay |-> DaysOf(range),
                 always |-> DaysOf(range) \cap Vetoed]]
    /\ UNCHANGED <<ranges, rangeEdit, editsOverlapped>>

\* MUTANT: only the range that begins with the stay or after it is asked for.
VetoesStart(stay) ==
    \E r \in BlackoutRow :
        /\ ranges[r] # NoRange
        /\ ranges[r].from \in stay

\* getActiveRangesForListing and isVetoedByBlackout
VetoApplies(stay) ==
    \E r \in BlackoutRow :
        ranges[r] # NoRange /\ DaysOf(ranges[r]) \cap stay # {}

GuestVetoed(g) ==
    /\ guest[g].pc = "asking"
    /\ guest' = [guest EXCEPT ![g] =
          IF VetoApplies(@.stay) THEN NoStay ELSE [@ EXCEPT !.pc = "cleared"]]
    /\ UNCHANGED <<ranges, rangeEdit, editsOverlapped>>

\* The rows are locked and written, and the hold is committed: the ranges are
\* not read again.
GuestGranted(g) ==
    /\ guest[g].pc = "cleared"
    /\ guest' = [guest EXCEPT ![g].pc = "granted"]
    /\ UNCHANGED <<ranges, rangeEdit, editsOverlapped>>

BlackoutsNext ==
    \/ \E e \in Editor :
          \/ CreateRange(e) \/ UpdateRange(e) \/ UpdateChecks(e)
          \/ EditWrites(e) \/ EditDies(e) \/ DeleteRange(e)
    \/ \E g \in Guest : GuestAsks(g) \/ GuestVetoed(g) \/ GuestGranted(g)

BlackoutsSpec == InitBlackouts /\ [][BlackoutsNext]_blackoutVars

-----------------------------------------------------------------------------
(* Properties *)

BlackoutsTypeOK ==
    /\ ranges \in [BlackoutRow -> DateRange \cup {NoRange}]
    /\ rangeEdit \in [Editor -> RangeEdit]
    /\ guest \in [Guest -> GuestState]
    /\ editsOverlapped \in BOOLEAN

\* Edits that do not overlap keep the ranges of a listing in order and apart
\* (createRange, updateRange), whichever fields they give; and, whatever the
\* edits do, no hold is granted over a day that has been blacked out since
\* before the request: only a blackout made after the veto was read is missed.
BlackoutsHold ==
    /\ ~editsOverlapped =>
          \A r \in BlackoutRow : ranges[r] # NoRange =>
             /\ ranges[r].from <= ranges[r].to
             /\ \A s \in BlackoutRow \ {r} :
                    DaysOf(ranges[r]) \cap DaysOf(ranges[s]) = {}
    /\ \A g \in Guest : guest[g].pc \in {"cleared", "granted"} =>
          guest[g].always = {}
=============================================================================
