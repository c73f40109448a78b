-------------------------- MODULE Promises_proofs ---------------------------
(***************************************************************************)
(* What the two abstract specifications are worth.  Whoever implements     *)
(* Inventory never claims more of a slot than there is, and accounts for   *)
(* every unit of it; whoever implements Escrow never sets aside and pays   *)
(* out more than was captured, and pays once.  They hold for any slots,    *)
(* capacities, claims, refunds and amounts; Conservation_proofs and        *)
(* Payments_proofs show that the code implements them.                     *)
(***************************************************************************)
EXTENDS Sums_proofs

CONSTANTS Slots, Total, Call, Captured

VARIABLES free, claims, aside, paid

Stock == INSTANCE Inventory
Purse == INSTANCE Escrow

-----------------------------------------------------------------------------
(* Inventory *)

\* The quantities of claims, as a function that can be summed.
QuantityIn(C) == [c \in C |-> c.quantity]
Wanting(C, s) == {c \in C : s \in c.slots}

\* Well-formed claims that want a slot are finitely many and want a number.
LEMMA WantingIsFinite ==
    ASSUME NEW C, Stock!Wellformed(C), NEW s
    PROVE  /\ IsFiniteSet(C) /\ IsFiniteSet(Wanting(C, s))
           /\ \A c \in C : QuantityIn(C)[c] \in Nat
<1>1. IsFiniteSet(C)
  BY DEF Stock!Wellformed, Stock!IsFiniteSet, IsFiniteSet
<1>2. IsFiniteSet(Wanting(C, s))
  BY <1>1, FS_Subset DEF Wanting
<1>3. \A c \in C : QuantityIn(C)[c] \in Nat
  BY DEF Stock!Wellformed, QuantityIn
<1> QED BY <1>1, <1>2, <1>3

\* The demand of claims is a sum of their quantities, whichever claims the
\* quantities are looked up in.
LEMMA DemandIsSum ==
    ASSUME NEW C, Stock!Wellformed(C), NEW D \in SUBSET C, NEW s
    PROVE  Stock!Demand(D, s) = SumOver(QuantityIn(C), Wanting(D, s))
<1> DEFINE S == Wanting(D, s)
           f == QuantityIn(C)
           A(h) == [u \in SUBSET S |->
                      IF u = {} THEN 0
                      ELSE (CHOOSE c \in u : TRUE).quantity
                           + h[u \ {CHOOSE c \in u : TRUE}]]
           g == CHOOSE h : h = A(h)
<1>1. S \in SUBSET C /\ IsFiniteSet(S)
  BY WantingIsFinite, FS_Subset DEF Wanting
<1>2. \A c \in S : f[c] \in Nat /\ f[c] = c.quantity
  BY <1>1, WantingIsFinite DEF QuantityIn
<1>3. Stock!Demand(D, s) = g[S]
  BY DEF Stock!Demand, Stock!MapThenSumSet, Stock!MapThenFoldSet, Wanting
<1> HIDE DEF S, f
<1>4. ASSUME NEW h PROVE (h = A(h)) <=> IsSum(h, f, S)
  <2>1. ASSUME NEW u \in SUBSET S, u # {}
        PROVE  f[Picked(u)] = (CHOOSE c \in u : TRUE).quantity
    BY <1>2, <2>1 DEF Picked
  <2>2. ASSUME NEW u \in SUBSET S
        PROVE  (IF u = {} THEN 0
                ELSE (CHOOSE c \in u : TRUE).quantity
                     + h[u \ {CHOOSE c \in u : TRUE}])
               = IF u = {} THEN 0 ELSE f[Picked(u)] + h[u \ {Picked(u)}]
    BY <2>1 DEF Picked
  <2>3. A(h) = [u \in SUBSET S |->
            IF u = {} THEN 0 ELSE f[Picked(u)] + h[u \ {Picked(u)}]]
    BY <2>2
  <2> HIDE DEF A
  <2> QED BY <2>3 DEF IsSum
<1> HIDE DEF A
<1>5. g = A(g)
  BY <1>1, <1>2, <1>4, SumExists
<1>6. IsSum(g, f, S)
  BY <1>4, <1>5
<1> HIDE DEF g
<1>7. g[S] = SumOver(f, S)
  BY <1>1, <1>2, <1>6, SumUnique, SumIsCount
<1> QED BY <1>3, <1>7 DEF S, f

\* What two sets of claims demand is what both and what each alone demands.
LEMMA DemandSplits ==
    ASSUME NEW C, Stock!Wellformed(C), NEW D, Stock!Wellformed(D), NEW s
    PROVE  /\ Stock!Demand(C, s) =
                 Stock!Demand(C \cap D, s) + Stock!Demand(C \ D, s)
           /\ Stock!Demand(C \cap D, s) \in Nat
           /\ Stock!Demand(C \ D, s) \in Nat
<1> DEFINE f == QuantityIn(C)
           both == Wanting(C \cap D, s)
           alone == Wanting(C \ D, s)
<1>1. /\ Stock!Demand(C, s) = SumOver(f, Wanting(C, s))
      /\ Stock!Demand(C \cap D, s) = SumOver(f, both)
      /\ Stock!Demand(C \ D, s) = SumOver(f, alone)
  BY DemandIsSum
<1>2. /\ Wanting(C, s) = both \cup alone /\ both \cap alone = {}
      /\ both \in SUBSET Wanting(C, s) /\ alone \in SUBSET Wanting(C, s)
  BY DEF Wanting
<1>3. IsFiniteSet(both) /\ IsFiniteSet(alone)
  BY <1>2, WantingIsFinite, FS_Subset
<1>4. \A c \in both \cup alone : f[c] \in Nat
  BY WantingIsFinite DEF Wanting
<1> HIDE DEF f, both, alone
<1>5. SumOver(f, both \cup alone) = SumOver(f, both) + SumOver(f, alone)
  BY <1>2, <1>3, <1>4, SumUnion
<1>6. SumOver(f, both) \in Nat /\ SumOver(f, alone) \in Nat
  BY <1>3, <1>4, SumType
<1> QED BY <1>1, <1>2, <1>5, <1>6

\* Nothing is demanded by nobody.
LEMMA NoDemand == ASSUME NEW s PROVE Stock!Demand({}, s) = 0
<1>1. Stock!Wellformed({})
  BY FS_EmptySet DEF Stock!Wellformed, Stock!IsFiniteSet, IsFiniteSet
<1>2. Wanting({}, s) = {}
  BY DEF Wanting
<1> QED BY <1>1, <1>2, DemandIsSum, SumEmpty

\* The balance needs claims that can be counted.
StockInv == Stock!Wellformed(claims) /\ Stock!Balanced

\* Every step keeps the balance.
LEMMA StockStepKeeps ==
    ASSUME StockInv, [Stock!Next]_<<free, claims>>
    PROVE  StockInv'
<1>1. CASE UNCHANGED <<free, claims>>
  <2>1. claims' = claims /\ free' = free
    BY <1>1
  <2>2. Stock!Wellformed(claims') /\ \A s \in Slots :
           /\ free'[s] \in Nat
           /\ free'[s] + Stock!Demand(claims', s) = Total[s]
    BY <2>1 DEF StockInv, Stock!Balanced
  <2> QED BY <2>2 DEF StockInv, Stock!Balanced
<1>2. CASE Stock!Next
  <2>1. Stock!Wellformed(claims) /\ Stock!Wellformed(claims')
    BY <1>2 DEF StockInv, Stock!Next
  <2>2. ASSUME NEW s \in Slots
        PROVE  /\ free'[s] \in Nat
               /\ free'[s] + Stock!Demand(claims', s) = Total[s]
    <3> DEFINE both == Stock!Demand(claims \cap claims', s)
               gone == Stock!Demand(claims \ claims', s)
               came == Stock!Demand(claims' \ claims, s)
    <3>1. claims' \cap claims = claims \cap claims'
      OBVIOUS
    <3>2. /\ Stock!Demand(claims, s) = both + gone
          /\ Stock!Demand(claims', s) = both + came
          /\ both \in Nat /\ gone \in Nat /\ came \in Nat
      <4>1. /\ Stock!Demand(claims, s) = both + gone
            /\ both \in Nat /\ gone \in Nat
        BY <2>1, DemandSplits
      <4>2. /\ Stock!Demand(claims', s) =
                  Stock!Demand(claims' \cap claims, s) + came
            /\ came \in Nat
        BY <2>1, DemandSplits
      <4> QED BY <3>1, <4>1, <4>2
    <3>3. free[s] \in Nat /\ free[s] + both + gone = Total[s]
      BY <2>2, <3>2 DEF StockInv, Stock!Balanced
    <3>4. free'[s] \in Nat /\ free'[s] + came = free[s] + gone
      <4>1. CASE Stock!Grant
        <5>1. came <= free[s] /\ free'[s] = free[s] - came
          BY <2>2, <4>1 DEF Stock!Grant
        <5>2. claims \ claims' = {}
          BY <4>1 DEF Stock!Grant
        <5>3. gone = 0
          BY <5>2, NoDemand
        <5> HIDE DEF came, gone, both
        <5> QED BY <3>2, <3>3, <5>1, <5>3
      <4>2. CASE Stock!Return
        <5>1. free'[s] = free[s] + gone
          BY <2>2, <4>2 DEF Stock!Return
        <5>2. claims' \ claims = {}
          BY <4>2 DEF Stock!Return
        <5>3. came = 0
          BY <5>2, NoDemand
        <5> HIDE DEF came, gone, both
        <5> QED BY <3>2, <3>3, <5>1, <5>3
      <4>3. CASE Stock!Convert
        <5>1. free' = free /\ came = gone
          BY <2>2, <4>3 DEF Stock!Convert
        <5> QED BY <3>2, <3>3, <5>1
      <4> QED BY <1>2, <4>1, <4>2, <4>3 DEF Stock!Next
    <3> HIDE DEF came, gone, both
    <3> QED BY <3>2, <3>3, <3>4
  <2> QED BY <2>1, <2>2 DEF StockInv, Stock!Balanced
<1> QED BY <1>1, <1>2

\* Free and claimed units of a slot always make up what there is: capacity is
\* neither lost nor promised twice by whoever implements Inventory.
THEOREM StockIsBalanced ==
    ASSUME Total \in [Slots -> Nat]
    PROVE  Stock!Spec => []Stock!Balanced
<1>1. Stock!Init => StockInv
  <2> SUFFICES ASSUME Stock!Init PROVE StockInv
    OBVIOUS
  <2>1. free = Total /\ claims = {}
    BY DEF Stock!Init
  <2>2. Stock!Wellformed(claims)
    BY <2>1, FS_EmptySet DEF Stock!Wellformed, Stock!IsFiniteSet, IsFiniteSet
  <2>3. \A s \in Slots : Stock!Demand(claims, s) = 0
    BY <2>1, NoDemand
  <2> QED BY <2>1, <2>2, <2>3 DEF StockInv, Stock!Balanced
<1>2. StockInv /\ [Stock!Next]_<<free, claims>> => StockInv'
  BY StockStepKeeps
<1>3. StockInv => Stock!Balanced
  BY DEF StockInv
<1> QED BY <1>1, <1>2, <1>3, PTL DEF Stock!Spec

-----------------------------------------------------------------------------
(* Escrow *)

\* One value replaces another in a sum.
LEMMA SumReplace ==
    ASSUME NEW S, IsFiniteSet(S), NEW f, NEW g,
           \A y \in S : f[y] \in Nat /\ g[y] \in Nat,
           NEW x \in S, \A y \in S \ {x} : g[y] = f[y]
    PROVE  SumOver(g, S) = SumOver(f, S) - f[x] + g[x]
<1> DEFINE rest == S \ {x}
<1>1. /\ SumOver(f, S) = SumOver(f, rest) + f[x]
      /\ SumOver(g, S) = SumOver(g, rest) + g[x]
  BY SumRemove
<1>2. SumOver(g, rest) = SumOver(f, rest) /\ SumOver(f, rest) \in Nat
  BY FS_Subset, SumSame, SumType
<1> QED BY <1>1, <1>2

PurseTypes == aside \in [Call -> Nat] /\ paid \in [Call -> Nat]

\* What is set aside or paid of a refund is either of the two, and what is set
\* aside and what is paid of all of them is covered by what was captured.
PurseInv ==
    /\ PurseTypes
    /\ \A c \in Call : aside[c] = 0 \/ paid[c] = 0
    /\ SumOver(aside, Call) + SumOver(paid, Call) <= Captured

\* The total is the sum of the two.
LEMMA PurseTotal ==
    ASSUME IsFiniteSet(Call), PurseTypes
    PROVE  Purse!Total = SumOver(aside, Call) + SumOver(paid, Call)
<1>1. Purse!Total = MapThenSumSet(LAMBDA c : aside[c] + paid[c], Call)
  BY DEF Purse!Total, MapThenSumSet, MapThenFoldSet, Purse!MapThenSumSet,
         Purse!MapThenFoldSet
<1>2. \A c \in Call : aside[c] \in Nat /\ paid[c] \in Nat
  BY DEF PurseTypes
<1>3. MapThenSumSet(LAMBDA c : aside[c] + paid[c], Call) =
         SumOver(aside, Call) + SumOver(paid, Call)
  BY <1>2, SumOfTwo
<1> QED BY <1>1, <1>3

\* Every step keeps the purse covered.
LEMMA PurseStepKeeps ==
    ASSUME IsFiniteSet(Call), Captured \in Nat, PurseInv,
           [Purse!EscrowNext]_(Purse!escrowVars)
    PROVE  PurseInv'
<1> USE DEF PurseInv, PurseTypes
<1>1. CASE UNCHANGED Purse!escrowVars
  <2>1. aside' = aside /\ paid' = paid
    BY <1>1 DEF Purse!escrowVars
  <2> QED BY <2>1
<1>2. ASSUME NEW c \in Call, Purse!PayOut(c)
      PROVE  PurseInv'
  <2>1. /\ aside' = [aside EXCEPT ![c] = 0]
        /\ paid' = [paid EXCEPT ![c] = aside[c]]
        /\ aside[c] \in Nat /\ aside[c] > 0 /\ paid[c] = 0
    BY <1>2 DEF Purse!PayOut
  <2>2. /\ aside'[c] = 0 /\ paid'[c] = aside[c] /\ PurseTypes'
        /\ \A d \in Call \ {c} : aside'[d] = aside[d] /\ paid'[d] = paid[d]
    BY <2>1
  <2>3. SumOver(aside', Call) + SumOver(paid', Call) <= Captured
    <3>1. /\ SumOver(aside', Call) = SumOver(aside, Call) - aside[c] + aside'[c]
          /\ SumOver(paid', Call) = SumOver(paid, Call) - paid[c] + paid'[c]
      BY <2>2, SumReplace
    <3>2. /\ SumOver(aside, Call) \in Nat /\ SumOver(paid, Call) \in Nat
          /\ aside[c] \in Nat /\ paid[c] = 0
      BY <2>1, SumType
    <3> QED BY <2>2, <3>1, <3>2
  <2> QED BY <2>1, <2>2, <2>3
<1>3. ASSUME NEW c \in Call, Purse!PutBack(c)
      PROVE  PurseInv'
  <2>1. /\ aside' = [aside EXCEPT ![c] = 0] /\ paid' = paid
    BY <1>3 DEF Purse!PutBack
  <2>2. /\ aside'[c] = 0 /\ PurseTypes'
        /\ \A d \in Call \ {c} : aside'[d] = aside[d]
    BY <2>1
  <2>3. SumOver(aside', Call) + SumOver(paid', Call) <= Captured
    <3>1. SumOver(aside', Call) = SumOver(aside, Call) - aside[c] + aside'[c]
      BY <2>2, SumReplace
    <3>2. /\ SumOver(aside, Call) \in Nat /\ SumOver(paid, Call) \in Nat
          /\ aside[c] \in Nat /\ paid' = paid
      BY <2>1, SumType
    <3> QED BY <2>2, <3>1, <3>2
  <2> QED BY <2>1, <2>2, <2>3
<1>4. ASSUME NEW c \in Call, NEW amount \in 1 .. Captured,
             Purse!SetAside(c, amount)
      PROVE  PurseInv'
  <2>1. /\ aside' = [aside EXCEPT ![c] = amount] /\ paid' = paid
        /\ aside[c] = 0 /\ paid[c] = 0 /\ amount \in Nat
        /\ Purse!Total + amount <= Captured
    BY <1>4 DEF Purse!SetAside
  <2>2. /\ aside'[c] = amount /\ PurseTypes'
        /\ \A d \in Call \ {c} : aside'[d] = aside[d]
    BY <2>1
  <2>3. SumOver(aside', Call) + SumOver(paid', Call) <= Captured
    <3>1. SumOver(aside', Call) = SumOver(aside, Call) - aside[c] + aside'[c]
      BY <2>2, SumReplace
    <3>2. /\ SumOver(aside, Call) \in Nat /\ SumOver(paid, Call) \in Nat
          /\ aside[c] = 0 /\ paid' = paid
      BY <2>1, SumType
    <3>3. Purse!Total = SumOver(aside, Call) + SumOver(paid, Call)
      BY PurseTotal
    <3> QED BY <2>1, <2>2, <3>1, <3>2, <3>3
  <2> QED BY <2>1, <2>2, <2>3
<1> QED BY <1>1, <1>2, <1>3, <1>4 DEF Purse!EscrowNext

\* The invariant holds while nothing has been asked for.
LEMMA PurseInitially ==
    ASSUME IsFiniteSet(Call), Captured \in Nat, Purse!EscrowInit
    PROVE  PurseInv
<1>1. /\ aside = [c \in Call |-> 0] /\ paid = [c \in Call |-> 0]
      /\ \A c \in Call : aside[c] = 0 /\ paid[c] = 0
  BY DEF Purse!EscrowInit
<1>2. SumOver(aside, Call) = 0 /\ SumOver(paid, Call) = 0
  <2>1. \A c \in {} : aside[c] \in Nat /\ paid[c] \in Nat
    OBVIOUS
  <2>2. SumOver(aside, {}) = 0 /\ SumOver(paid, {}) = 0
    BY SumEmpty
  <2>3. /\ SumOver(aside, Call) = SumOver(aside, {})
        /\ SumOver(paid, Call) = SumOver(paid, {})
    BY <1>1, <2>1, SumOutside
  <2> QED BY <2>2, <2>3
<1> QED BY <1>1, <1>2 DEF PurseInv, PurseTypes

\* What is set aside and what has been paid out never exceed what was captured.
THEOREM PurseIsCovered ==
    ASSUME IsFiniteSet(Call), Captured \in Nat
    PROVE  Purse!EscrowSpec => [](Purse!Total <= Captured)
<1>1. Purse!EscrowInit => PurseInv
  BY PurseInitially
<1>2. PurseInv /\ [Purse!EscrowNext]_(Purse!escrowVars) => PurseInv'
  BY PurseStepKeeps
<1>3. PurseInv => Purse!Total <= Captured
  BY PurseTotal DEF PurseInv
<1> QED BY <1>1, <1>2, <1>3, PTL DEF Purse!EscrowSpec

\* A refund that has been paid stays paid, at its amount: it is neither paid
\* again nor set aside again.
THEOREM PaidStaysPaid ==
    ASSUME IsFiniteSet(Call), Captured \in Nat
    PROVE  Purse!EscrowSpec =>
              [][\A c \in Call : paid[c] # 0 =>
                    paid'[c] = paid[c] /\ aside'[c] = 0]_(Purse!escrowVars)
<1>1. Purse!EscrowInit => PurseInv
  BY PurseInitially
<1>2. PurseInv /\ [Purse!EscrowNext]_(Purse!escrowVars) => PurseInv'
  BY PurseStepKeeps
<1>3. PurseInv /\ [Purse!EscrowNext]_(Purse!escrowVars) =>
         [\A c \in Call : paid[c] # 0 =>
              paid'[c] = paid[c] /\ aside'[c] = 0]_(Purse!escrowVars)
  <2> SUFFICES ASSUME PurseInv, Purse!EscrowNext, NEW c \in Call, paid[c] # 0
               PROVE  paid'[c] = paid[c] /\ aside'[c] = 0
    OBVIOUS
  <2>1. aside[c] = 0 /\ aside \in [Call -> Nat] /\ paid \in [Call -> Nat]
    BY DEF PurseInv, PurseTypes
  <2>2. ASSUME NEW d \in Call,
               \/ Purse!PayOut(d) \/ Purse!PutBack(d)
               \/ \E amount \in 1 .. Captured : Purse!SetAside(d, amount)
        PROVE  paid'[c] = paid[c] /\ aside'[c] = 0
    BY <2>1, <2>2 DEF Purse!PayOut, Purse!PutBack, Purse!SetAside
  <2> QED BY <2>2 DEF Purse!EscrowNext
<1> QED BY <1>1, <1>2, <1>3, PTL DEF Purse!EscrowSpec
=============================================================================
