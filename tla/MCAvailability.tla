-------------------------- MODULE MCAvailability --------------------------
(* Small instances of Availability for TLC. *)
EXTENDS AvailabilityRefinement

Of(unit, from, to, quantity) ==
    [unit |-> unit, from |-> from, to |-> to, quantity |-> quantity]

NoRequests == {}
CapacityOne == [unit \in Unit |-> 1]
CapacityTwo == [unit \in Unit |-> 2]

\* Lodging from day 1 to day 3 is the nights 1 and 2.
BothNights == {Of(unit, 1, 3, 1) : unit \in Unit}
SecondNight == {Of(unit, 2, 3, 1) : unit \in Unit}
BothNightsTwice == {Of(unit, 1, 3, 2) : unit \in Unit}
\* One item list per stay, and one list over every unit.
Alone(stays) == {{stay} : stay \in stays}
HoldBoth == Alone(BothNights)
HoldSecond == Alone(SecondNight)
HoldEither == Alone(BothNights \cup SecondNight)
HoldTwoAtOnce == Alone(BothNightsTwice \cup SecondNight)

\* Calendar edits: a total below the capacity, and one at or above it.
EditTotals == {Of(unit, 1, 2, 0) : unit \in Unit}
              \cup {Of(unit, 1, 1, 2) : unit \in Unit}

WorkerSymmetry == Permutations(Worker)
=============================================================================
