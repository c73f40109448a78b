----------------------------- MODULE Inventory -----------------------------
(***************************************************************************)
(* What the capacity engine promises to those who read the calendar.       *)
(* Claims (a hold, an item of a booking, a block, an external reservation) *)
(* take a quantity of every slot they cover.  Each step grants a set of    *)
(* claims whole, returns a set of claims whole, or replaces claims by      *)
(* others of the same demand; nothing else ever moves what is free, and    *)
(* nothing is granted that is not free.                                    *)
(***************************************************************************)
EXTENDS Integers, FiniteSetsExt

CONSTANTS
    Slots,   \* a unit on a day
    Total    \* the capacity of each slot

VARIABLES
    free,    \* what can still be claimed of each slot
    claims   \* [id, slots, quantity]

Demand(some, slot) ==
    MapThenSumSet(LAMBDA c : c.quantity, {c \in some : slot \in c.slots})

Init == free = Total /\ claims = {}

Grant ==
    /\ claims \subseteq claims'
    /\ \A s \in Slots : Demand(claims' \ claims, s) <= free[s]
    /\ free' = [s \in Slots |-> free[s] - Demand(claims' \ claims, s)]

Return ==
    /\ claims' \subseteq claims
    /\ free' = [s \in Slots |-> free[s] + Demand(claims \ claims', s)]

Convert ==
    /\ \A s \in Slots :
          Demand(claims' \ claims, s) = Demand(claims \ claims', s)
    /\ UNCHANGED free

\* Claims are finitely many, and each takes a number of units.
Wellformed(some) == IsFiniteSet(some) /\ \A c \in some : c.quantity \in Nat

Next == Wellformed(claims') /\ (Grant \/ Return \/ Convert)

Spec == Init /\ [][Next]_<<free, claims>>

-----------------------------------------------------------------------------
\* The balance that every step keeps: what is free of a slot and what is claimed
\* of it make up what there is, and never is more claimed than there is.
Balanced ==
    \A s \in Slots :
        /\ free[s] \in Nat
        /\ free[s] + Demand(claims, s) = Total[s]
=============================================================================
