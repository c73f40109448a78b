------------------------------- MODULE Escrow -------------------------------
(***************************************************************************)
(* What the refunds of one captured payment promise: money is set aside    *)
(* for a refund, and is then either paid out or put back, once; what is    *)
(* set aside and paid out together never exceeds what was captured.        *)
(***************************************************************************)
EXTENDS Naturals, FiniteSetsExt

CONSTANTS Call, Captured

VARIABLES aside, paid   \* amounts per refund

escrowVars == <<aside, paid>>

Total == MapThenSumSet(LAMBDA c : aside[c] + paid[c], Call)

EscrowInit == aside = [c \in Call |-> 0] /\ paid = [c \in Call |-> 0]

SetAside(c, amount) ==
    /\ aside[c] = 0 /\ paid[c] = 0
    /\ Total + amount <= Captured
    /\ aside' = [aside EXCEPT ![c] = amount]
    /\ UNCHANGED paid

PayOut(c) ==
    /\ aside[c] > 0
    /\ paid' = [paid EXCEPT ![c] = aside[c]]
    /\ aside' = [aside EXCEPT ![c] = 0]

PutBack(c) ==
    /\ aside[c] > 0
    /\ aside' = [aside EXCEPT ![c] = 0]
    /\ UNCHANGED paid

EscrowNext ==
    \E c \in Call :
        \/ PayOut(c) \/ PutBack(c)
        \/ \E amount \in 1..Captured : SetAside(c, amount)

EscrowSpec == EscrowInit /\ [][EscrowNext]_escrowVars
=============================================================================
