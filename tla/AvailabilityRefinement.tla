----------------------- MODULE AvailabilityRefinement -----------------------
(***************************************************************************)
(* Availability implements Inventory: although a stay is written day by    *)
(* day, with other transactions in between, a reader of the committed      *)
(* tables sees whole requests granted and whole rows returned.             *)
(***************************************************************************)
EXTENDS Availability

SlotsOf(stay) == {slot \in Slot : Consumes(stay, slot)}
Claim(id, stay, quantity) ==
    [id |-> id, slots |-> SlotsOf(stay), quantity |-> quantity]

Claims ==
    {Claim(<<"hold", h.id>>, h, 1) : h \in holds}
    \cup (UNION {{Claim(<<"booking", b.id, stay>>, stay, stay.quantity)
                    : stay \in b.items} : b \in {b \in bookings : b.open}})
    \cup {Claim(<<"record", r.id>>, r.stay, r.stay.quantity)
            : r \in {r \in records : r.active}}

Promise == INSTANCE Inventory WITH
    Slots  <- Slot,
    Total  <- [slot \in Slot |-> Capacity[slot[1]]],
    free   <- [slot \in Slot |-> calendar[slot].quantity],
    claims <- Claims

\* The committed tables move only as Inventory allows: what a request takes or
\* gives back becomes visible at once, for all its days, or not at all.
ImplementsInventory == Promise!Spec
=============================================================================
