---------------------------- MODULE OrderReturns ----------------------------
(***************************************************************************)
(* Returns of the items of an order that has been shipped: requested,      *)
(* cancelled or received; a received item goes back to the shop's stock or *)
(* to its supplier, who then owes a credit for it.                         *)
(*                                                                         *)
(* Creating and cancelling a return claim all they depend on and are one   *)
(* action.  receive() compares and writes with what it has read, of the    *)
(* order's items and of the stock, so its reads are an action of their     *)
(* own.                                                                    *)
(***************************************************************************)
EXTENDS Integers, FiniteSets

CONSTANTS
    Item,         \* order items, each of a variant of its own
    Sold,         \* quantity of each item
    Return,
    Wanted,       \* units of each item each return is about
    Supplied,     \* items with a supplier's name and price on them
    InitialStock, \* units on hand of each item's variant
    MaxMoved,     \* bound: how far other movements take the stock
    Clerk,        \* concurrent requests of staff that receive a return
    NoReturn

ASSUME ReturnsAssumption ==
    /\ IsFiniteSet(Return)
    /\ Sold \in [Item -> Nat]
    /\ Wanted \in [Return -> [Item -> Nat]]
    /\ Supplied \subseteq Item
    /\ InitialStock \in [Item -> Nat]
    /\ MaxMoved \in Nat
    /\ NoReturn \notin Return

VARIABLES
    allocated,   \* OrderItem.returnAllocatedQuantity
    returned,    \* OrderItem.returnedQuantity
    return,      \* OrderReturn.status, NONE without a row
    disposition, \* OrderReturnItem.disposition
    credits,     \* return items for which a SupplierCredit exists
    onHand,      \* Inventory.onHand
    moved,       \* what other movements have added to it or taken from it
    clerk        \* the return each clerk receives, and what it has read

returnRows == <<allocated, returned, return, disposition, credits>>
returnVars == <<returnRows, onHand, moved, clerk>>

-----------------------------------------------------------------------------
(* Types                                                                   *)

\* The items a return is about, and the rows of the return.
ItemsOf(r) == {i \in Item : Wanted[r][i] > 0}
ReturnItem == {ri \in Return \X Item : ri[2] \in ItemsOf(ri[1])}

IdleClerk == [step |-> "IDLE", return |-> NoReturn, returned |-> [i \in Item |-> 0],
              onHand |-> [i \in Item |-> 0]]

ReturnsTypeOK ==
    /\ allocated \in [Item -> Nat]
    /\ returned \in [Item -> Nat]
    /\ return \in [Return -> {"NONE", "REQUESTED", "RECEIVED", "CANCELLED"}]
    /\ disposition \in [ReturnItem -> {"NONE", "RESTOCK", "SUPPLIER"}]
    /\ credits \subseteq ReturnItem
    /\ onHand \in [Item -> Nat]
    /\ moved \in [Item -> Int]
    /\ clerk \in [Clerk -> [step: {"IDLE", "RECEIVE"}, return: Return \cup {NoReturn},
                            returned: [Item -> Nat], onHand: [Item -> Nat]]]
    /\ \A k \in Clerk : clerk[k].step # "IDLE" => clerk[k].return \in Return

ReturnsInit ==
    /\ allocated = [i \in Item |-> 0]
    /\ returned = [i \in Item |-> 0]
    /\ return = [r \in Return |-> "NONE"]
    /\ disposition = [ri \in ReturnItem |-> "NONE"]
    /\ credits = {}
    /\ onHand = InitialStock
    /\ moved = [i \in Item |-> 0]
    /\ clerk = [k \in Clerk |-> IdleClerk]

-----------------------------------------------------------------------------
(* Actions                                                                 *)

\* Sales and corrections change the same stock; MaxMoved units are enough to interfere.
StockMoves(i, n) ==
    /\ moved[i] + n \in -MaxMoved..MaxMoved
    /\ onHand[i] + n >= 0
    /\ onHand' = [onHand EXCEPT ![i] = @ + n]
    /\ moved' = [moved EXCEPT ![i] = @ + n]
    /\ UNCHANGED <<returnRows, clerk>>

\* createReturn, by the customer or by staff: item after item is claimed.
CreateReturn(r) ==
    /\ return[r] = "NONE"
    /\ ItemsOf(r) # {}
    /\ \A i \in ItemsOf(r) : allocated[i] <= Sold[i] - Wanted[r][i]
    /\ allocated' = [i \in Item |-> allocated[i] + Wanted[r][i]]
    /\ return' = [return EXCEPT ![r] = "REQUESTED"]
    /\ UNCHANGED <<returned, disposition, credits, onHand, moved, clerk>>

\* Mutant: the units of a cancelled return stay allocated.
CancelKeepsUnits(r) ==
    /\ return[r] = "REQUESTED"
    /\ return' = [return EXCEPT ![r] = "CANCELLED"]
    /\ UNCHANGED <<allocated, returned, disposition, credits, onHand, moved, clerk>>

\* cancelReturn
CancelReturn(r) ==
    /\ return[r] = "REQUESTED"
    /\ \A i \in ItemsOf(r) : allocated[i] >= Wanted[r][i]
    /\ allocated' = [i \in Item |-> allocated[i] - Wanted[r][i]]
    /\ return' = [return EXCEPT ![r] = "CANCELLED"]
    /\ UNCHANGED <<returned, disposition, credits, onHand, moved, clerk>>

ReceiveReads(k, r) ==
    /\ clerk[k].step = "IDLE"
    /\ return[r] = "REQUESTED"
    /\ clerk' = [clerk EXCEPT ![k] =
           [step |-> "RECEIVE", return |-> r, returned |-> returned, onHand |-> onHand]]
    /\ UNCHANGED <<returnRows, onHand, moved>>

\* Mutant: the return is not claimed.
ReceivesAnyhow(k) ==
    LET r == clerk[k].return IN
    \A i \in ItemsOf(r) : returned[i] <= Sold[i] - Wanted[r][i]

\* The return is still REQUESTED and the quantities still allow it.
ReceiveClaims(k) ==
    LET r == clerk[k].return IN
    /\ return[r] = "REQUESTED"
    /\ \A i \in ItemsOf(r) :
          /\ returned[i] <= Sold[i] - Wanted[r][i]
          /\ allocated[i] >= clerk[k].returned[i] + Wanted[r][i]

\* Mutant: the stock is not claimed.
RestocksAnyhow(k, back) == onHand' = [i \in Item |->
    IF i \in back THEN clerk[k].onHand[i] + Wanted[clerk[k].return][i] ELSE onHand[i]]

\* restockItem writes the stock it has read, plus the units, if the stock is still that.
Restocks(k, back) ==
    /\ \A i \in back : onHand[i] = clerk[k].onHand[i]
    /\ onHand' = [i \in Item |->
          IF i \in back THEN clerk[k].onHand[i] + Wanted[clerk[k].return][i] ELSE onHand[i]]

\* createSupplierCredit, one per return item
CreditsFor(r, back) == {r} \X (ItemsOf(r) \ back)

\* Staff say of each item of the return whether it goes back into stock.
Receive(k) ==
    LET r == clerk[k].return IN
    /\ clerk[k].step = "RECEIVE"
    /\ ReceiveClaims(k)
    /\ \E back \in SUBSET ItemsOf(r) :
          /\ ItemsOf(r) \ back \subseteq Supplied
          /\ Restocks(k, back)
          /\ credits' = credits \cup CreditsFor(r, back)
          /\ disposition' = [ri \in ReturnItem |->
                IF ri[1] # r THEN disposition[ri]
                ELSE IF ri[2] \in back THEN "RESTOCK" ELSE "SUPPLIER"]
    /\ returned' = [i \in Item |-> returned[i] + Wanted[r][i]]
    /\ return' = [return EXCEPT ![r] = "RECEIVED"]
    /\ clerk' = [clerk EXCEPT ![k] = IdleClerk]
    /\ UNCHANGED <<allocated, moved>>

\* Any failure rolls the transaction back.
ReceiveEnds(k) ==
    /\ clerk[k].step # "IDLE"
    /\ clerk' = [clerk EXCEPT ![k] = IdleClerk]
    /\ UNCHANGED <<returnRows, onHand, moved>>

ReturnsNext ==
    \/ \E i \in Item, n \in {-1, 1} : StockMoves(i, n)
    \/ \E r \in Return : CreateReturn(r) \/ CancelReturn(r)
    \/ \E k \in Clerk : (\E r \in Return : ReceiveReads(k, r)) \/ Receive(k) \/ ReceiveEnds(k)

ReturnsSpec == ReturnsInit /\ [][ReturnsNext]_returnVars

-----------------------------------------------------------------------------
(* Properties                                                              *)

\* The units of an item that a set of return items is about, one by one.
UnitsOf(i, S) == UNION {{r} \X (1..Wanted[r][i]) : r \in {r \in Return : <<r, i>> \in S}}

OfReturnsIn(statuses) == {ri \in ReturnItem : return[ri[1]] \in statuses}

DisposedTo(to) == {ri \in ReturnItem : disposition[ri] = to}

\* The quantities on an order item are those of its returns, however requests on the
\* same or on different returns overlap (createReturn, cancelReturn, receive).
QuantitiesMatchReturns ==
    \A i \in Item :
        /\ allocated[i] = Cardinality(UnitsOf(i, OfReturnsIn({"REQUESTED", "RECEIVED"})))
        /\ returned[i] = Cardinality(UnitsOf(i, OfReturnsIn({"RECEIVED"})))

\* Every unit that has come back is in the shop's stock or owed for by its supplier, and
\* no unit is both: the stock is what it was, moved by others and by the units put
\* back, and the credits are those of the items sent on (restockItem,
\* createSupplierCredit).
ReturnedUnitsGoSomewhere ==
    /\ \A i \in Item : onHand[i] =
          InitialStock[i] + moved[i] + Cardinality(UnitsOf(i, DisposedTo("RESTOCK")))
    /\ credits = DisposedTo("SUPPLIER")
    /\ DisposedTo("NONE") \cap OfReturnsIn({"RECEIVED"}) = {}
    /\ credits \cup DisposedTo("RESTOCK") \subseteq OfReturnsIn({"RECEIVED"})

Line(i) == INSTANCE Allowance WITH
    Limit <- Sold[i], promised <- allocated[i], redeemed <- returned[i]

\* Returns give out the units of an order line as Allowance says: no more come back than
\* were sold, none that was not asked for first, and none twice.
ReturnsKeepAllowance ==
    /\ \A i \in Item : Line(i)!Init
    /\ [][\A i \in Item : [Line(i)!Next]_<<allocated[i], returned[i]>>]_returnVars

=============================================================================
