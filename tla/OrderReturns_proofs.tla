------------------------- MODULE OrderReturns_proofs -------------------------
(***************************************************************************)
(* Proofs about OrderReturns for any items, any finite set of returns and  *)
(* any number of clerks: types, that the quantities of the order items are *)
(* those of the returns, that every unit that comes back goes to exactly   *)
(* one place, and that returns give out an order line as Allowance says.   *)
(***************************************************************************)
EXTENDS OrderReturns, FiniteSetTheorems, TLAPS

ClerkRow == [step: {"IDLE", "RECEIVE"}, return: Return \cup {NoReturn},
             returned: [Item -> Nat], onHand: [Item -> Nat]]

Alone == UNCHANGED <<returnRows, onHand, moved>>

\* What a receive does to the rows when it succeeds.
ReceivesBack(r, back) ==
    /\ return[r] = "REQUESTED"
    /\ return' = [return EXCEPT ![r] = "RECEIVED"]
    /\ \A i \in ItemsOf(r) : returned[i] <= Sold[i] - Wanted[r][i]
    /\ returned' = [i \in Item |-> returned[i] + Wanted[r][i]]
    /\ onHand' = [i \in Item |-> IF i \in back THEN onHand[i] + Wanted[r][i] ELSE onHand[i]]
    /\ credits' = credits \cup CreditsFor(r, back)
    /\ disposition' = [ri \in ReturnItem |->
          IF ri[1] # r THEN disposition[ri]
          ELSE IF ri[2] \in back THEN "RESTOCK" ELSE "SUPPLIER"]
    /\ UNCHANGED <<allocated, moved>>

LEMMA ReceiveSucceeds ==
    ASSUME ReturnsTypeOK, NEW k \in Clerk, Receive(k)
    PROVE  \E r \in Return : \E back \in SUBSET ItemsOf(r) : ReceivesBack(r, back)
<1> DEFINE r == clerk[k].return
<1>1. r \in Return
  BY DEF Receive, ReturnsTypeOK
<1>2. PICK back \in SUBSET ItemsOf(r) :
          /\ Restocks(k, back)
          /\ credits' = credits \cup CreditsFor(r, back)
          /\ disposition' = [ri \in ReturnItem |->
                IF ri[1] # r THEN disposition[ri]
                ELSE IF ri[2] \in back THEN "RESTOCK" ELSE "SUPPLIER"]
  BY DEF Receive
<1>3. onHand' = [i \in Item |-> IF i \in back THEN onHand[i] + Wanted[r][i] ELSE onHand[i]]
  BY <1>2 DEF Restocks, ItemsOf
<1>4. ReceivesBack(r, back)
  BY <1>2, <1>3 DEF Receive, ReceiveClaims, ReceivesBack
<1>5. QED  BY <1>1, <1>4

LEMMA ReturnSteps ==
    ASSUME ReturnsTypeOK, [ReturnsNext]_returnVars
    PROVE  \/ Alone
           \/ \E i \in Item, n \in {-1, 1} : StockMoves(i, n)
           \/ \E r \in Return : CreateReturn(r) \/ CancelReturn(r)
           \/ \E r \in Return : \E back \in SUBSET ItemsOf(r) : ReceivesBack(r, back)
<1>1. ASSUME NEW k \in Clerk, \E r \in Return : ReceiveReads(k, r) PROVE Alone
  BY <1>1 DEF ReceiveReads, Alone
<1>2. ASSUME NEW k \in Clerk, ReceiveEnds(k) PROVE Alone
  BY <1>2 DEF ReceiveEnds, Alone
<1>3. CASE UNCHANGED returnVars
  BY <1>3 DEF returnVars, Alone
<1>4. QED  BY <1>1, <1>2, <1>3, ReceiveSucceeds DEF ReturnsNext

-----------------------------------------------------------------------------
(* Types                                                                   *)

LEMMA InitReturnsTyped == ReturnsInit => ReturnsTypeOK
BY ReturnsAssumption DEF ReturnsInit, ReturnsTypeOK, IdleClerk

\* A clerk who reads or ends keeps its type.
LEMMA ClerkTyped ==
    ASSUME ReturnsTypeOK, [ReturnsNext]_returnVars
    PROVE  /\ clerk' \in [Clerk -> ClerkRow]
           /\ \A k \in Clerk : clerk'[k].step # "IDLE" => clerk'[k].return \in Return
<1> DEFINE Good == /\ clerk' \in [Clerk -> ClerkRow]
                   /\ \A k \in Clerk : clerk'[k].step # "IDLE" => clerk'[k].return \in Return
<1>1. CASE clerk' = clerk
  BY <1>1 DEF ReturnsTypeOK, ClerkRow
<1>2. ASSUME NEW k \in Clerk, clerk' = [clerk EXCEPT ![k] = IdleClerk] PROVE Good
  <2>1. IdleClerk \in ClerkRow /\ IdleClerk.step = "IDLE"
    BY DEF IdleClerk, ClerkRow
  <2>2. QED  BY <1>2, <2>1 DEF ReturnsTypeOK, ClerkRow
<1>3. ASSUME NEW k \in Clerk, NEW r \in Return, ReceiveReads(k, r) PROVE Good
  <2> DEFINE read == [step |-> "RECEIVE", return |-> r, returned |-> returned,
                      onHand |-> onHand]
  <2>1. read \in ClerkRow /\ read.return = r
    BY DEF ClerkRow, ReturnsTypeOK
  <2>2. clerk' = [clerk EXCEPT ![k] = read]
    BY <1>3 DEF ReceiveReads
  <2> HIDE DEF read
  <2>3. QED  BY <2>1, <2>2 DEF ReturnsTypeOK, ClerkRow
<1>4. QED
  BY <1>1, <1>2, <1>3 DEF ReturnsNext, StockMoves, CreateReturn, CancelReturn, Receive,
     ReceiveEnds, returnVars

LEMMA StepReturnsTyped ==
    ASSUME ReturnsTypeOK, [ReturnsNext]_returnVars
    PROVE  ReturnsTypeOK'
<1> USE ReturnsAssumption
<1> DEFINE RowsTyped ==
              /\ allocated' \in [Item -> Nat] /\ returned' \in [Item -> Nat]
              /\ return' \in [Return -> {"NONE", "REQUESTED", "RECEIVED", "CANCELLED"}]
              /\ disposition' \in [ReturnItem -> {"NONE", "RESTOCK", "SUPPLIER"}]
              /\ credits' \subseteq ReturnItem
              /\ onHand' \in [Item -> Nat] /\ moved' \in [Item -> Int]
<1>1. \A r \in Return, i \in Item : Wanted[r][i] \in Nat
  OBVIOUS
<1>2. ASSUME Alone PROVE RowsTyped
  BY <1>2 DEF Alone, returnRows, ReturnsTypeOK
<1>3. ASSUME NEW i \in Item, NEW n \in {-1, 1}, StockMoves(i, n) PROVE RowsTyped
  BY <1>3 DEF StockMoves, returnRows, ReturnsTypeOK
<1>4. ASSUME NEW r \in Return, CreateReturn(r) PROVE RowsTyped
  BY <1>1, <1>4 DEF CreateReturn, ReturnsTypeOK
<1>5. ASSUME NEW r \in Return, CancelReturn(r) PROVE RowsTyped
  <2>1. \A i \in Item : allocated[i] \in Nat /\ allocated[i] - Wanted[r][i] >= 0
    BY <1>1, <1>5 DEF CancelReturn, ItemsOf, ReturnsTypeOK
  <2>2. allocated' \in [Item -> Nat]
    BY <1>1, <1>5, <2>1 DEF CancelReturn
  <2>3. QED  BY <1>5, <2>2 DEF CancelReturn, ReturnsTypeOK
<1>6. ASSUME NEW r \in Return, NEW back \in SUBSET ItemsOf(r), ReceivesBack(r, back)
      PROVE  RowsTyped
  <2>1. credits' \subseteq ReturnItem
    BY <1>6 DEF ReceivesBack, CreditsFor, ReturnItem, ItemsOf, ReturnsTypeOK
  <2>2. onHand' \in [Item -> Nat] /\ returned' \in [Item -> Nat]
    BY <1>1, <1>6 DEF ReceivesBack, ReturnsTypeOK
  <2>3. disposition' \in [ReturnItem -> {"NONE", "RESTOCK", "SUPPLIER"}]
    BY <1>6 DEF ReceivesBack, ReturnsTypeOK
  <2>4. QED  BY <1>6, <2>1, <2>2, <2>3 DEF ReceivesBack, ReturnsTypeOK
<1> HIDE DEF RowsTyped
<1>7. RowsTyped
  BY <1>2, <1>3, <1>4, <1>5, <1>6, ReturnSteps DEF RowsTyped
<1>8. QED  BY <1>7, ClerkTyped DEF RowsTyped, ReturnsTypeOK, ClerkRow

\* Quantities, returns, dispositions, credits and stock keep their types.
THEOREM ReturnsTypeCorrect == ReturnsSpec => []ReturnsTypeOK
<1>1. QED
  BY InitReturnsTyped, StepReturnsTyped, PTL DEF ReturnsSpec

-----------------------------------------------------------------------------
(* Counting units                                                          *)

\* The units of an item that some returns are about.
Pieces(i, R) == UNION {{r} \X (1..Wanted[r][i]) : r \in R}

With(i, S) == {r \in Return : <<r, i>> \in S}

LEMMA UnitsArePieces ==
    ASSUME NEW i \in Item, NEW S
    PROVE  UnitsOf(i, S) = Pieces(i, With(i, S)) /\ With(i, S) \in SUBSET Return
BY DEF UnitsOf, Pieces, With

LEMMA PiecesOfOne ==
    ASSUME NEW i \in Item, NEW r \in Return
    PROVE  /\ IsFiniteSet({r} \X (1..Wanted[r][i]))
           /\ Cardinality({r} \X (1..Wanted[r][i])) = Wanted[r][i]
<1> DEFINE n == Wanted[r][i]
           C == Cardinality(1..n)
<1>1. n \in Nat
  BY ReturnsAssumption
<1> HIDE DEF n
<1>2. IsFiniteSet(1..n) /\ C = IF 1 > n THEN 0 ELSE n - 1 + 1
  <2>1. 1 \in Int /\ n \in Int
    BY <1>1
  <2>2. QED  BY <2>1, FS_Interval, Zenon
<1>3. C = n
  BY <1>1, <1>2
<1>4. IsFiniteSet({r}) /\ Cardinality({r}) = 1
  BY FS_Singleton
<1>5. IsFiniteSet({r} \X (1..n)) /\ Cardinality({r} \X (1..n)) = 1 * C
  BY <1>2, <1>4, FS_Product, Zenon
<1>6. Cardinality({r} \X (1..n)) = n
  BY <1>1, <1>3, <1>5
<1>7. QED
  BY <1>5, <1>6, Zenon DEF n

LEMMA PiecesFinite ==
    ASSUME NEW i \in Item, NEW R \in SUBSET Return
    PROVE  IsFiniteSet(Pieces(i, R)) /\ Cardinality(Pieces(i, R)) \in Nat
<1> DEFINE piece == [r \in R |-> {r} \X (1..Wanted[r][i])]
           T == {piece[r] : r \in R}
<1>1. IsFiniteSet(R)
  BY ReturnsAssumption, FS_Subset
<1>2. piece \in Surjection(R, T)
  BY DEF Surjection
<1>3. IsFiniteSet(T)
  BY <1>1, <1>2, FS_Surjection
<1>4. \A t \in T : IsFiniteSet(t)
  BY PiecesOfOne
<1>5. IsFiniteSet(UNION T)
  BY <1>3, <1>4, FS_UNION
<1>6. UNION T = Pieces(i, R)
  BY DEF Pieces
<1>7. QED
  BY <1>5, <1>6, FS_CardinalityType

\* A return more adds its units and no other's ...
LEMMA PiecesGrow ==
    ASSUME NEW i \in Item, NEW R \in SUBSET Return, NEW r \in Return, r \notin R
    PROVE  Cardinality(Pieces(i, R \cup {r})) = Cardinality(Pieces(i, R)) + Wanted[r][i]
<1> DEFINE P == Pieces(i, R)
           Q == {r} \X (1..Wanted[r][i])
<1>1. Pieces(i, R \cup {r}) = P \cup Q
  BY DEF Pieces
<1>2. P \cap Q = {}
  BY DEF Pieces
<1>3. IsFiniteSet(P) /\ IsFiniteSet(Q)
  BY PiecesFinite, PiecesOfOne
<1>4. Cardinality(Q) = Wanted[r][i] /\ Cardinality(P) \in Nat
  BY PiecesFinite, PiecesOfOne
<1> HIDE DEF P, Q
<1>5. Cardinality(P \cup Q) = Cardinality(P) + Cardinality(Q) - Cardinality({})
  BY <1>2, <1>3, FS_Union
<1>6. Cardinality({}) = 0 /\ Wanted[r][i] \in Nat
  BY FS_EmptySet, ReturnsAssumption
<1>7. Cardinality(P \cup Q) = Cardinality(P) + Wanted[r][i]
  BY <1>4, <1>5, <1>6
<1>8. QED
  BY <1>1, <1>7, Zenon DEF P

\* ... and more returns are about no fewer.
LEMMA PiecesOrdered ==
    ASSUME NEW i \in Item, NEW R \in SUBSET Return, NEW Q \in SUBSET R
    PROVE  Cardinality(Pieces(i, Q)) <= Cardinality(Pieces(i, R))
<1>1. Pieces(i, Q) \in SUBSET Pieces(i, R)
  BY DEF Pieces
<1>2. QED  BY <1>1, PiecesFinite, FS_Subset

LEMMA NoPieces == ASSUME NEW i \in Item PROVE Cardinality(Pieces(i, {})) = 0
<1>1. Pieces(i, {}) = {}
  BY DEF Pieces
<1>2. QED  BY <1>1, FS_EmptySet

-----------------------------------------------------------------------------
(* The invariant, in terms of pieces                                       *)

Asked(i) == {r \in Return : i \in ItemsOf(r) /\ return[r] \in {"REQUESTED", "RECEIVED"}}

Back(i) == {r \in Return : i \in ItemsOf(r) /\ return[r] = "RECEIVED"}

Restocked(i) == {r \in Return : i \in ItemsOf(r) /\ disposition[<<r, i>>] = "RESTOCK"}

Quantities == \A i \in Item : /\ allocated[i] = Cardinality(Pieces(i, Asked(i)))
                              /\ returned[i] = Cardinality(Pieces(i, Back(i)))

LEMMA QuantitiesAre == QuantitiesMatchReturns <=> Quantities
<1>1. ASSUME NEW i \in Item
      PROVE  /\ With(i, OfReturnsIn({"REQUESTED", "RECEIVED"})) = Asked(i)
             /\ With(i, OfReturnsIn({"RECEIVED"})) = Back(i)
  BY DEF With, OfReturnsIn, ReturnItem, ItemsOf, Asked, Back
<1>2. ASSUME NEW i \in Item
      PROVE  /\ UnitsOf(i, OfReturnsIn({"REQUESTED", "RECEIVED"})) = Pieces(i, Asked(i))
             /\ UnitsOf(i, OfReturnsIn({"RECEIVED"})) = Pieces(i, Back(i))
  BY <1>1, UnitsArePieces, Zenon
<1>3. QED
  BY <1>2, Zenon DEF QuantitiesMatchReturns, Quantities

\* Where the returned units have gone, row by row.
Dispositions ==
    \A r \in Return : \A i \in ItemsOf(r) :
        /\ return[r] = "RECEIVED" <=> disposition[<<r, i>>] # "NONE"
        /\ <<r, i>> \in credits <=> disposition[<<r, i>>] = "SUPPLIER"

Stock == \A i \in Item :
            onHand[i] = InitialStock[i] + moved[i] + Cardinality(Pieces(i, Restocked(i)))

ReturnsInv ==
    /\ ReturnsTypeOK
    /\ Quantities
    /\ \A i \in Item : allocated[i] <= Sold[i]
    /\ Dispositions
    /\ Stock

LEMMA StockIs ==
    ASSUME ReturnsTypeOK, Dispositions, Stock
    PROVE  ReturnedUnitsGoSomewhere
<1>1. ASSUME NEW i \in Item
      PROVE  With(i, DisposedTo("RESTOCK")) = Restocked(i)
  BY DEF With, DisposedTo, ReturnItem, ItemsOf, Restocked
<1>2. ASSUME NEW i \in Item
      PROVE  UnitsOf(i, DisposedTo("RESTOCK")) = Pieces(i, Restocked(i))
  BY <1>1, UnitsArePieces, Zenon
<1>3. \A i \in Item : onHand[i] =
          InitialStock[i] + moved[i] + Cardinality(UnitsOf(i, DisposedTo("RESTOCK")))
  BY <1>2, Zenon DEF Stock
<1>4. \A ri \in ReturnItem : /\ ri[1] \in Return /\ ri[2] \in ItemsOf(ri[1])
                             /\ ri = <<ri[1], ri[2]>>
  BY DEF ReturnItem
<1>5. \A ri \in ReturnItem :
          /\ return[ri[1]] = "RECEIVED" <=> disposition[ri] # "NONE"
          /\ ri \in credits <=> disposition[ri] = "SUPPLIER"
  BY <1>4 DEF Dispositions
<1>6. credits \subseteq ReturnItem
  BY DEF ReturnsTypeOK
<1>7. /\ credits = DisposedTo("SUPPLIER")
      /\ DisposedTo("NONE") \cap OfReturnsIn({"RECEIVED"}) = {}
      /\ credits \cup DisposedTo("RESTOCK") \subseteq OfReturnsIn({"RECEIVED"})
  BY <1>5, <1>6 DEF DisposedTo, OfReturnsIn
<1>8. QED  BY <1>3, <1>7 DEF ReturnedUnitsGoSomewhere

LEMMA InitReturnsInv == ReturnsInit => ReturnsInv
<1> SUFFICES ASSUME ReturnsInit PROVE ReturnsInv
  OBVIOUS
<1>1. ReturnsTypeOK
  BY InitReturnsTyped
<1>2. ASSUME NEW i \in Item
      PROVE  Asked(i) = {} /\ Back(i) = {} /\ Restocked(i) = {}
  BY DEF ReturnsInit, Asked, Back, Restocked, ReturnItem, ItemsOf
<1>3. \A i \in Item : Cardinality(Pieces(i, {})) = 0
  BY NoPieces
<1>4. Quantities
  BY <1>2, <1>3 DEF ReturnsInit, Quantities
<1>5. Stock
  <2>1. \A i \in Item : InitialStock[i] = InitialStock[i] + 0 + 0
    BY ReturnsAssumption
  <2>2. \A i \in Item : onHand[i] = InitialStock[i] /\ moved[i] = 0
    BY DEF ReturnsInit
  <2>3. \A i \in Item : Cardinality(Pieces(i, Restocked(i))) = 0
    BY <1>2, <1>3
  <2>4. QED  BY <2>1, <2>2, <2>3 DEF Stock
<1>6. Dispositions
  BY DEF ReturnsInit, Dispositions, ReturnItem, ItemsOf
<1>7. \A i \in Item : allocated[i] <= Sold[i]
  BY ReturnsAssumption DEF ReturnsInit
<1>8. QED  BY <1>1, <1>4, <1>5, <1>6, <1>7 DEF ReturnsInv

-----------------------------------------------------------------------------
(* Quantities                                                              *)

\* What a step does to the units of one item, allocated and returned.
Asks(i, n) ==
    /\ allocated'[i] = allocated[i] + n /\ returned'[i] = returned[i]
    /\ allocated[i] + n <= Sold[i]

GivesUp(i, n) ==
    /\ allocated'[i] = allocated[i] - n /\ returned'[i] = returned[i]
    /\ returned[i] + n <= allocated[i]

Returns(i, n) ==
    /\ allocated'[i] = allocated[i] /\ returned'[i] = returned[i] + n
    /\ returned[i] + n <= allocated[i]

SameUnits(i) == allocated'[i] = allocated[i] /\ returned'[i] = returned[i]

LEMMA SetsTyped ==
    ASSUME NEW i \in Item
    PROVE  /\ Asked(i) \in SUBSET Return /\ Back(i) \in SUBSET Asked(i)
           /\ Back(i) \in SUBSET Return /\ Restocked(i) \in SUBSET Return
BY DEF Asked, Back, Restocked

\* A return that is asked for and not yet back leaves room for its units.
LEMMA RoomForReturn ==
    ASSUME ReturnsInv, NEW r \in Return, return[r] = "REQUESTED", NEW i \in ItemsOf(r)
    PROVE  /\ returned[i] + Wanted[r][i] <= allocated[i]
           /\ r \in Asked(i) /\ r \notin Back(i)
<1>1. i \in Item
  BY DEF ItemsOf
<1>2. r \in Asked(i) /\ r \notin Back(i) /\ Back(i) \cup {r} \in SUBSET Asked(i)
  BY <1>1, SetsTyped DEF Asked, Back
<1>3. Cardinality(Pieces(i, Back(i) \cup {r})) <= Cardinality(Pieces(i, Asked(i)))
  BY <1>1, <1>2, SetsTyped, PiecesOrdered
<1>4. Cardinality(Pieces(i, Back(i) \cup {r}))
        = Cardinality(Pieces(i, Back(i))) + Wanted[r][i]
  BY <1>1, <1>2, SetsTyped, PiecesGrow
<1>5. /\ allocated[i] = Cardinality(Pieces(i, Asked(i)))
      /\ returned[i] = Cardinality(Pieces(i, Back(i)))
  BY <1>1 DEF ReturnsInv, Quantities
<1>6. QED  BY <1>2, <1>3, <1>4, <1>5

LEMMA WantedIs ==
    ASSUME NEW r \in Return, NEW i \in Item
    PROVE  /\ Wanted[r][i] \in Nat /\ Sold[i] \in Nat
           /\ IF i \in ItemsOf(r) THEN Wanted[r][i] > 0 ELSE Wanted[r][i] = 0
<1>1. Wanted[r][i] \in Nat /\ Sold[i] \in Nat
  BY ReturnsAssumption
<1>2. i \in ItemsOf(r) <=> Wanted[r][i] > 0
  BY DEF ItemsOf
<1>3. QED  BY <1>1, <1>2

LEMMA CreateUnits ==
    ASSUME ReturnsInv, NEW r \in Return, CreateReturn(r), NEW i \in Item
    PROVE  /\ IF i \in ItemsOf(r) THEN Asks(i, Wanted[r][i]) ELSE SameUnits(i)
           /\ Asked(i)' = Asked(i) \cup (IF i \in ItemsOf(r) THEN {r} ELSE {})
           /\ r \notin Asked(i)
           /\ Back(i)' = Back(i)
<1>1. /\ allocated[i] \in Nat /\ Sold[i] \in Nat /\ Wanted[r][i] \in Nat
      /\ allocated'[i] = allocated[i] + Wanted[r][i] /\ returned' = returned
      /\ i \notin ItemsOf(r) => Wanted[r][i] = 0
      /\ i \in ItemsOf(r) => allocated[i] <= Sold[i] - Wanted[r][i]
  BY WantedIs DEF CreateReturn, ReturnsInv, ReturnsTypeOK
<1>2. /\ return \in [Return -> {"NONE", "REQUESTED", "RECEIVED", "CANCELLED"}]
      /\ return[r] = "NONE" /\ return' = [return EXCEPT ![r] = "REQUESTED"]
  BY DEF CreateReturn, ReturnsInv, ReturnsTypeOK
<1>3. QED  BY <1>1, <1>2 DEF Asks, SameUnits, Asked, Back

LEMMA CancelUnits ==
    ASSUME ReturnsInv, NEW r \in Return, CancelReturn(r), NEW i \in Item
    PROVE  /\ IF i \in ItemsOf(r) THEN GivesUp(i, Wanted[r][i]) ELSE SameUnits(i)
           /\ Asked(i) = Asked(i)' \cup (IF i \in ItemsOf(r) THEN {r} ELSE {})
           /\ r \notin Asked(i)'
           /\ Back(i)' = Back(i)
<1>1. /\ allocated[i] \in Nat /\ Wanted[r][i] \in Nat
      /\ allocated'[i] = allocated[i] - Wanted[r][i] /\ returned' = returned
      /\ i \notin ItemsOf(r) => Wanted[r][i] = 0
  BY WantedIs DEF CancelReturn, ReturnsInv, ReturnsTypeOK
<1>2. /\ return \in [Return -> {"NONE", "REQUESTED", "RECEIVED", "CANCELLED"}]
      /\ return[r] = "REQUESTED" /\ return' = [return EXCEPT ![r] = "CANCELLED"]
  BY DEF CancelReturn, ReturnsInv, ReturnsTypeOK
<1>3. i \in ItemsOf(r) => returned[i] + Wanted[r][i] <= allocated[i]
  BY <1>2, RoomForReturn
<1>4. QED  BY <1>1, <1>2, <1>3 DEF GivesUp, SameUnits, Asked, Back

LEMMA ReceiveUnits ==
    ASSUME ReturnsInv, NEW r \in Return, NEW back \in SUBSET ItemsOf(r),
           ReceivesBack(r, back), NEW i \in Item
    PROVE  /\ IF i \in ItemsOf(r) THEN Returns(i, Wanted[r][i]) ELSE SameUnits(i)
           /\ Back(i)' = Back(i) \cup (IF i \in ItemsOf(r) THEN {r} ELSE {})
           /\ r \notin Back(i)
           /\ Asked(i)' = Asked(i)
<1>1. /\ returned[i] \in Nat /\ Wanted[r][i] \in Nat
      /\ returned'[i] = returned[i] + Wanted[r][i] /\ allocated' = allocated
      /\ i \notin ItemsOf(r) => Wanted[r][i] = 0
  BY WantedIs DEF ReceivesBack, ReturnsInv, ReturnsTypeOK
<1>2. /\ return \in [Return -> {"NONE", "REQUESTED", "RECEIVED", "CANCELLED"}]
      /\ return[r] = "REQUESTED" /\ return' = [return EXCEPT ![r] = "RECEIVED"]
  BY DEF ReceivesBack, ReturnsInv, ReturnsTypeOK
<1>3. i \in ItemsOf(r) => returned[i] + Wanted[r][i] <= allocated[i]
  BY <1>2, RoomForReturn
<1>4. QED  BY <1>1, <1>2, <1>3 DEF Returns, SameUnits, Asked, Back

\* Every step does one of these to an item, for at most as many units as were sold.
LEMMA UnitSteps ==
    ASSUME ReturnsInv, [ReturnsNext]_returnVars, NEW i \in Item
    PROVE  \/ SameUnits(i)
           \/ \E n \in 1..Sold[i] : Asks(i, n) \/ GivesUp(i, n) \/ Returns(i, n)
<1>1. CASE Alone \/ \E j \in Item, n \in {-1, 1} : StockMoves(j, n)
  BY <1>1 DEF Alone, StockMoves, returnRows, SameUnits
<1>2. ASSUME NEW r \in Return, i \in ItemsOf(r)
      PROVE  /\ Asks(i, Wanted[r][i]) => Wanted[r][i] \in 1..Sold[i]
             /\ GivesUp(i, Wanted[r][i]) => Wanted[r][i] \in 1..Sold[i]
             /\ Returns(i, Wanted[r][i]) => Wanted[r][i] \in 1..Sold[i]
  <2>1. /\ allocated[i] \in Nat /\ returned[i] \in Nat /\ allocated[i] <= Sold[i]
        /\ Wanted[r][i] \in Nat /\ Wanted[r][i] > 0 /\ Sold[i] \in Nat
    BY <1>2, ReturnsAssumption DEF ReturnsInv, ReturnsTypeOK, ItemsOf
  <2>2. QED  BY <2>1 DEF Asks, GivesUp, Returns
<1>3. ASSUME NEW r \in Return, CreateReturn(r) \/ CancelReturn(r)
      PROVE  SameUnits(i) \/ \E n \in 1..Sold[i] : Asks(i, n) \/ GivesUp(i, n)
  BY <1>2, <1>3, CreateUnits, CancelUnits
<1>4. ASSUME NEW r \in Return, NEW back \in SUBSET ItemsOf(r), ReceivesBack(r, back)
      PROVE  SameUnits(i) \/ \E n \in 1..Sold[i] : Returns(i, n)
  BY <1>2, <1>4, ReceiveUnits
<1>5. QED  BY <1>1, <1>3, <1>4, ReturnSteps DEF ReturnsInv

LEMMA StepQuantities ==
    ASSUME ReturnsInv, [ReturnsNext]_returnVars
    PROVE  Quantities' /\ \A i \in Item : allocated'[i] <= Sold[i]
<1>1. SUFFICES ASSUME NEW i \in Item
               PROVE  /\ allocated'[i] = Cardinality(Pieces(i, Asked(i)'))
                      /\ returned'[i] = Cardinality(Pieces(i, Back(i)'))
                      /\ allocated'[i] <= Sold[i]
  BY DEF Quantities
<1> DEFINE Goal == /\ allocated'[i] = Cardinality(Pieces(i, Asked(i)'))
                   /\ returned'[i] = Cardinality(Pieces(i, Back(i)'))
<1>2. /\ allocated[i] = Cardinality(Pieces(i, Asked(i)))
      /\ returned[i] = Cardinality(Pieces(i, Back(i)))
  BY DEF ReturnsInv, Quantities
<1>3. ASSUME Alone \/ \E j \in Item, n \in {-1, 1} : StockMoves(j, n) PROVE Goal
  <2>1. Asked(i)' = Asked(i) /\ Back(i)' = Back(i) /\ SameUnits(i)
    BY <1>3 DEF Alone, StockMoves, returnRows, SameUnits, Asked, Back
  <2>2. QED  BY <1>2, <2>1 DEF SameUnits
<1>4. ASSUME NEW r \in Return, CreateReturn(r) PROVE Goal
  <2>1. CASE i \in ItemsOf(r)
    BY <1>2, <1>4, <2>1, CreateUnits, SetsTyped, PiecesGrow DEF Asks
  <2>2. CASE i \notin ItemsOf(r)
    <3>1. Asked(i)' = Asked(i) /\ Back(i)' = Back(i) /\ SameUnits(i)
      BY <1>4, <2>2, CreateUnits
    <3>2. QED  BY <1>2, <3>1 DEF SameUnits
  <2>3. QED  BY <2>1, <2>2
<1>5. ASSUME NEW r \in Return, CancelReturn(r) PROVE Goal
  <2>1. CASE i \in ItemsOf(r)
    <3>1. /\ Asked(i) = Asked(i)' \cup {r} /\ r \notin Asked(i)' /\ Back(i)' = Back(i)
          /\ allocated'[i] = allocated[i] - Wanted[r][i] /\ returned'[i] = returned[i]
      BY <1>5, <2>1, CancelUnits DEF GivesUp
    <3>2. Asked(i)' \in SUBSET Return
      BY <3>1, SetsTyped
    <3>3. Cardinality(Pieces(i, Asked(i))) = Cardinality(Pieces(i, Asked(i)')) + Wanted[r][i]
      BY <3>1, <3>2, PiecesGrow
    <3>4. Cardinality(Pieces(i, Asked(i)')) \in Nat /\ Wanted[r][i] \in Nat
      BY <3>2, PiecesFinite, ReturnsAssumption
    <3>5. allocated[i] = Cardinality(Pieces(i, Asked(i)')) + Wanted[r][i]
      BY <1>2, <3>3, Zenon
    <3>6. allocated'[i] = allocated[i] - Wanted[r][i]
      BY <3>1
    <3>7. allocated'[i] = Cardinality(Pieces(i, Asked(i)'))
      BY <3>4, <3>5, <3>6
    <3>8. returned'[i] = Cardinality(Pieces(i, Back(i)'))
      BY <1>2, <3>1
    <3>9. QED  BY <3>7, <3>8
  <2>2. CASE i \notin ItemsOf(r)
    <3>1. Asked(i)' = Asked(i) /\ Back(i)' = Back(i) /\ SameUnits(i)
      BY <1>5, <2>2, CancelUnits
    <3>2. QED  BY <1>2, <3>1 DEF SameUnits
  <2>3. QED  BY <2>1, <2>2
<1>6. ASSUME NEW r \in Return, NEW back \in SUBSET ItemsOf(r), ReceivesBack(r, back)
      PROVE  Goal
  <2>1. CASE i \in ItemsOf(r)
    BY <1>2, <1>6, <2>1, ReceiveUnits, SetsTyped, PiecesGrow DEF Returns
  <2>2. CASE i \notin ItemsOf(r)
    <3>1. Asked(i)' = Asked(i) /\ Back(i)' = Back(i) /\ SameUnits(i)
      BY <1>6, <2>2, ReceiveUnits
    <3>2. QED  BY <1>2, <3>1 DEF SameUnits
  <2>3. QED  BY <2>1, <2>2
<1> HIDE DEF Goal
<1>7. Goal
  BY <1>3, <1>4, <1>5, <1>6, ReturnSteps DEF ReturnsInv, Goal
<1>8. allocated'[i] <= Sold[i]
  <2>1. /\ allocated[i] \in Nat /\ allocated[i] <= Sold[i] /\ Sold[i] \in Nat
        /\ returned[i] \in Nat
    BY ReturnsAssumption DEF ReturnsInv, ReturnsTypeOK
  <2>2. QED  BY <2>1, UnitSteps DEF SameUnits, Asks, GivesUp, Returns
<1>9. QED  BY <1>7, <1>8 DEF Goal

-----------------------------------------------------------------------------
(* Stock and credits                                                       *)

LEMMA StepDispositions ==
    ASSUME ReturnsInv, [ReturnsNext]_returnVars
    PROVE  Dispositions'
<1>1. /\ Dispositions
      /\ return \in [Return -> {"NONE", "REQUESTED", "RECEIVED", "CANCELLED"}]
      /\ disposition \in [ReturnItem -> {"NONE", "RESTOCK", "SUPPLIER"}]
  BY DEF ReturnsInv, ReturnsTypeOK
<1>2. CASE Alone \/ \E j \in Item, n \in {-1, 1} : StockMoves(j, n)
  BY <1>1, <1>2 DEF Alone, StockMoves, returnRows, Dispositions
<1>3. ASSUME NEW r \in Return, CreateReturn(r) \/ CancelReturn(r) PROVE Dispositions'
  <2>1. /\ UNCHANGED <<disposition, credits>>
        /\ \A q \in Return : return'[q] = "RECEIVED" <=> return[q] = "RECEIVED"
    BY <1>1, <1>3 DEF CreateReturn, CancelReturn
  <2>2. QED  BY <1>1, <2>1 DEF Dispositions
<1>4. ASSUME NEW r \in Return, NEW back \in SUBSET ItemsOf(r), ReceivesBack(r, back)
      PROVE  Dispositions'
  <2> SUFFICES ASSUME NEW q \in Return, NEW i \in ItemsOf(q)
               PROVE  /\ return'[q] = "RECEIVED" <=> disposition'[<<q, i>>] # "NONE"
                      /\ <<q, i>> \in credits' <=> disposition'[<<q, i>>] = "SUPPLIER"
    BY DEF Dispositions
  <2>1. <<q, i>> \in ReturnItem
    BY DEF ReturnItem, ItemsOf
  <2>2. disposition'[<<q, i>>] = IF q # r THEN disposition[<<q, i>>]
                                 ELSE IF i \in back THEN "RESTOCK" ELSE "SUPPLIER"
    BY <1>4, <2>1 DEF ReceivesBack
  <2>3. /\ return[q] = "RECEIVED" <=> disposition[<<q, i>>] # "NONE"
        /\ <<q, i>> \in credits <=> disposition[<<q, i>>] = "SUPPLIER"
    BY <1>1 DEF Dispositions
  <2>4. /\ return[r] = "REQUESTED" /\ return' = [return EXCEPT ![r] = "RECEIVED"]
        /\ credits' = credits \cup CreditsFor(r, back)
    BY <1>4 DEF ReceivesBack
  <2>5. CASE q = r
    <3>1. <<q, i>> \in credits' <=> i \notin back
      BY <2>3, <2>4, <2>5 DEF CreditsFor
    <3>2. return'[q] = "RECEIVED"
      BY <1>1, <2>4, <2>5
    <3>3. QED  BY <2>2, <2>5, <3>1, <3>2
  <2>6. CASE q # r
    <3>1. return'[q] = return[q] /\ (<<q, i>> \in credits' <=> <<q, i>> \in credits)
      BY <1>1, <2>4, <2>6 DEF CreditsFor
    <3>2. QED  BY <2>2, <2>3, <2>6, <3>1
  <2>7. QED  BY <2>5, <2>6
<1>5. QED  BY <1>2, <1>3, <1>4, ReturnSteps DEF ReturnsInv

LEMMA StepStock ==
    ASSUME ReturnsInv, [ReturnsNext]_returnVars
    PROVE  Stock'
<1>1. SUFFICES ASSUME NEW i \in Item
               PROVE  onHand'[i] = InitialStock[i] + moved'[i]
                                     + Cardinality(Pieces(i, Restocked(i)'))
  BY DEF Stock
<1> DEFINE Goal == onHand'[i] = InitialStock[i] + moved'[i]
                                  + Cardinality(Pieces(i, Restocked(i)'))
<1>2. /\ onHand[i] = InitialStock[i] + moved[i] + Cardinality(Pieces(i, Restocked(i)))
      /\ Cardinality(Pieces(i, Restocked(i))) \in Nat
      /\ moved \in [Item -> Int] /\ onHand \in [Item -> Nat] /\ InitialStock[i] \in Nat
  BY SetsTyped, PiecesFinite, ReturnsAssumption DEF ReturnsInv, ReturnsTypeOK, Stock
<1>3. ASSUME UNCHANGED disposition PROVE Restocked(i)' = Restocked(i)
  BY <1>3 DEF Restocked
<1>4. CASE Alone
  <2>1. Restocked(i)' = Restocked(i)
    BY <1>3, <1>4 DEF Alone, returnRows
  <2>2. QED  BY <1>2, <1>4, <2>1 DEF Alone
<1>5. ASSUME NEW j \in Item, NEW n \in {-1, 1}, StockMoves(j, n) PROVE Goal
  <2>1. Restocked(i)' = Restocked(i)
    BY <1>3, <1>5 DEF StockMoves, returnRows
  <2>2. /\ onHand' = [onHand EXCEPT ![j] = onHand[j] + n]
        /\ moved' = [moved EXCEPT ![j] = moved[j] + n]
    BY <1>5 DEF StockMoves
  <2>3. QED  BY <1>2, <2>1, <2>2
<1>6. ASSUME NEW r \in Return, CreateReturn(r) \/ CancelReturn(r) PROVE Goal
  <2>1. Restocked(i)' = Restocked(i)
    BY <1>3, <1>6 DEF CreateReturn, CancelReturn
  <2>2. QED  BY <1>2, <1>6, <2>1 DEF CreateReturn, CancelReturn
<1>7. ASSUME NEW r \in Return, NEW back \in SUBSET ItemsOf(r), ReceivesBack(r, back)
      PROVE  Goal
  <2>1. \A q \in Return : i \in ItemsOf(q) =>
           disposition'[<<q, i>>] = IF q # r THEN disposition[<<q, i>>]
                                    ELSE IF i \in back THEN "RESTOCK" ELSE "SUPPLIER"
    BY <1>7 DEF ReceivesBack, ReturnItem, ItemsOf
  <2>2. r \notin Restocked(i)
    BY <1>7 DEF ReceivesBack, ReturnsInv, Dispositions, Restocked
  <2>3. CASE i \in back
    <3>1. Restocked(i)' = Restocked(i) \cup {r}
      BY <2>1, <2>3 DEF Restocked
    <3>2. onHand'[i] = onHand[i] + Wanted[r][i] /\ moved' = moved
      BY <1>7, <2>3 DEF ReceivesBack
    <3>3. Cardinality(Pieces(i, Restocked(i) \cup {r}))
            = Cardinality(Pieces(i, Restocked(i))) + Wanted[r][i]
      BY <2>2, SetsTyped, PiecesGrow
    <3>4. Wanted[r][i] \in Nat /\ moved[i] \in Int
      BY <1>2, ReturnsAssumption
    <3>5. QED  BY <1>2, <3>1, <3>2, <3>3, <3>4
  <2>4. CASE i \notin back
    <3>1. Restocked(i)' = Restocked(i)
      BY <2>1, <2>2, <2>4 DEF Restocked
    <3>2. onHand'[i] = onHand[i] /\ moved' = moved
      BY <1>7, <2>4 DEF ReceivesBack
    <3>3. QED  BY <1>2, <3>1, <3>2
  <2>5. QED  BY <2>3, <2>4
<1> HIDE DEF Goal
<1>8. Goal
  BY <1>4, <1>5, <1>6, <1>7, ReturnSteps DEF ReturnsInv, Goal
<1>9. QED  BY <1>8 DEF Goal

LEMMA StepReturnsInv == ReturnsInv /\ [ReturnsNext]_returnVars => ReturnsInv'
<1>1. ASSUME ReturnsInv, [ReturnsNext]_returnVars PROVE ReturnsTypeOK'
  BY <1>1, StepReturnsTyped DEF ReturnsInv
<1>2. QED
  BY <1>1, StepQuantities, StepDispositions, StepStock DEF ReturnsInv

LEMMA ReturnsInvariant == ReturnsSpec => []ReturnsInv
BY InitReturnsInv, StepReturnsInv, PTL DEF ReturnsSpec

\* The quantities on an order item are those of its returns, however requests, receipts
\* and cancellations of its returns overlap.
THEOREM QuantitiesAgree == ReturnsSpec => []QuantitiesMatchReturns
<1>1. ReturnsInv => QuantitiesMatchReturns
  BY QuantitiesAre DEF ReturnsInv
<1>2. QED  BY <1>1, ReturnsInvariant, PTL

\* Every unit that has come back is in the shop's stock or owed for by its supplier, and
\* none is both, whatever else moves the stock.
THEOREM UnitsGoSomewhere == ReturnsSpec => []ReturnedUnitsGoSomewhere
<1>1. ReturnsInv => ReturnedUnitsGoSomewhere
  BY StockIs DEF ReturnsInv
<1>2. QED  BY <1>1, ReturnsInvariant, PTL

-----------------------------------------------------------------------------
(* Refinement of Allowance, item by item                                   *)

LEMMA StepLine ==
    ASSUME ReturnsInv, [ReturnsNext]_returnVars, NEW i \in Item
    PROVE  [Line(i)!Next]_<<allocated[i], returned[i]>>
<1>1. allocated[i] \in Nat /\ returned[i] \in Nat /\ Sold[i] \in Nat
  BY ReturnsAssumption DEF ReturnsInv, ReturnsTypeOK
<1>2. ASSUME NEW n \in 1..Sold[i], Asks(i, n) PROVE Line(i)!Promise(n)
  BY <1>1, <1>2 DEF Asks, Line!Promise
<1>3. ASSUME NEW n \in 1..Sold[i], GivesUp(i, n) PROVE Line(i)!Withdraw(n)
  BY <1>1, <1>3 DEF GivesUp, Line!Withdraw
<1>4. ASSUME NEW n \in 1..Sold[i], Returns(i, n) PROVE Line(i)!Redeem(n)
  BY <1>1, <1>4 DEF Returns, Line!Redeem
<1>5. QED
  BY <1>2, <1>3, <1>4, UnitSteps DEF Line!Next, SameUnits

\* Returns give out the units of an order line as Allowance says: none comes back that
\* was not asked for first, none twice, and no more than were sold.
THEOREM ReturnsImplementAllowance == ReturnsSpec => ReturnsKeepAllowance
<1>1. ReturnsInit => \A i \in Item : Line(i)!Init
  BY DEF ReturnsInit, Line!Init
<1>2. ReturnsInv /\ [ReturnsNext]_returnVars =>
          [\A i \in Item : [Line(i)!Next]_<<allocated[i], returned[i]>>]_returnVars
  BY StepLine
<1>3. QED
  BY <1>1, <1>2, ReturnsInvariant, PTL DEF ReturnsSpec, ReturnsKeepAllowance

\* Of no order line more units come back than are allocated to returns, and no more are
\* allocated than were sold (create, receive and cancel of order-returns.service.ts).
THEOREM ReturnsWithinSold == ReturnsSpec => [](\A i \in Item : Line(i)!WithinLimit)
<1>1. (\A i \in Item : Line(i)!Init) => \A i \in Item : Line(i)!WithinLimit
  BY ReturnsAssumption DEF Line!Init, Line!WithinLimit
<1>2. /\ \A i \in Item : Line(i)!WithinLimit
      /\ [\A i \in Item : [Line(i)!Next]_<<allocated[i], returned[i]>>]_returnVars
      => (\A i \in Item : Line(i)!WithinLimit)'
  <2>1. ASSUME NEW i \in Item, Line(i)!WithinLimit,
               [Line(i)!Next]_<<allocated[i], returned[i]>>
        PROVE  Line(i)!WithinLimit'
    BY <2>1, ReturnsAssumption
    DEF Line!WithinLimit, Line!Next, Line!Promise, Line!Redeem, Line!Withdraw
  <2>2. ASSUME UNCHANGED returnVars, NEW i \in Item
        PROVE  UNCHANGED <<allocated[i], returned[i]>>
    BY <2>2 DEF returnVars, returnRows
  <2>3. QED  BY <2>1, <2>2
<1>3. QED
  BY <1>1, <1>2, ReturnsImplementAllowance, PTL DEF ReturnsKeepAllowance

=============================================================================
