------------------------ MODULE SupplierLedger_proofs ------------------------
(***************************************************************************)
(* Proofs about SupplierLedger for any payables, settlements, credits and  *)
(* applications and any number of concurrent requests: types, that the     *)
(* sums on settlements and credits are those of the payables and           *)
(* applications they stand for, that what is paid stays paid, and that     *)
(* credits are given out as Allowance says.                                *)
(***************************************************************************)
EXTENDS SupplierLedger, OrderReturns_proofs

PayableRow == [status: {"OPEN", "PAID"}, settlement: Settlement \cup {NoOne}]

SettlementRow == [status: {"NONE", "DRAFT", "PAID", "CANCELLED"},
                  total: Nat, count: Nat, credit: Nat, paid: Nat]

CreditRow == [status: {"AVAILABLE", "PARTIALLY_APPLIED", "APPLIED"}, applied: Nat]

ApplicationRow == [status: {"NONE", "ACTIVE", "REMOVED"}, credit: Credit \cup {NoOne},
                   settlement: Settlement \cup {NoOne}, amount: Nat]

KeeperRow == [step: {"IDLE", "APPLY", "REMOVE", "PAY", "CANCEL"},
              settlement: Settlement \cup {NoOne}, application: Application \cup {NoOne},
              credit: Credit \cup {NoOne}, amount: Nat, drawn: Nat, applied: Nat,
              active: SUBSET Application]

RowsTypeOK ==
    /\ payable \in [Payable -> PayableRow]
    /\ settlement \in [Settlement -> SettlementRow]
    /\ credit \in [Credit -> CreditRow]
    /\ application \in [Application -> ApplicationRow]
    /\ keeper \in [Keeper -> KeeperRow]

LEMMA TypesAre == LedgerTypeOK <=> ReturnsTypeOK /\ RowsTypeOK
BY DEF LedgerTypeOK, RowsTypeOK, PayableRow, SettlementRow, CreditRow, ApplicationRow,
   KeeperRow

-----------------------------------------------------------------------------
(* The ledger and the returns it extends                                   *)

LEMMA LedgerReturns == [LedgerNext]_ledgerAll => [ReturnsNext]_returnVars
<1> SUFFICES ASSUME [LedgerNext]_ledgerAll, ~ReturnsNext PROVE UNCHANGED returnVars
  OBVIOUS
<1>1. CASE UNCHANGED ledgerAll
  BY <1>1 DEF ledgerAll
<1>2. ASSUME NEW p \in Payable, MarkPaid(p) PROVE UNCHANGED returnVars
  BY <1>2 DEF MarkPaid
<1>3. ASSUME NEW s \in Settlement, NEW ps \in SUBSET Payable, CreateSettlement(s, ps)
      PROVE  UNCHANGED returnVars
  BY <1>3 DEF CreateSettlement
<1>4. ASSUME NEW k \in Keeper, KeeperReads(k) \/ KeeperEnds(k) PROVE UNCHANGED returnVars
  BY <1>4 DEF KeeperReads, ApplyReads, RemoveReads, CloseReads, Reads, KeeperEnds
<1>5. ASSUME NEW k \in Keeper, ApplyCredit(k) \/ RemoveCredit(k) \/ PaySettlement(k)
                               \/ CancelSettlement(k)
      PROVE  UNCHANGED returnVars
  BY <1>5 DEF ApplyCredit, RemoveCredit, PaySettlement, CancelSettlement, Commits
<1>6. QED  BY <1>1, <1>2, <1>3, <1>4, <1>5 DEF LedgerNext

\* The supplier's accounts leave the returns as they are.
THEOREM LedgerKeepsReturns == LedgerSpec => ReturnsSpec
<1>1. LedgerInit => ReturnsInit
  BY DEF LedgerInit
<1>2. QED  BY <1>1, LedgerReturns, PTL DEF LedgerSpec, ReturnsSpec

\* Credits come to exist and stay.
LEMMA CreditsStay == [LedgerNext]_ledgerAll => credits \subseteq credits'
<1>1. [ReturnsNext]_returnVars => credits \subseteq credits'
  BY DEF ReturnsNext, StockMoves, CreateReturn, CancelReturn, ReceiveReads, Receive,
     ReceiveEnds, returnVars, returnRows
<1>2. QED  BY <1>1, LedgerReturns

\* The steps that change the rows of the ledger; all others leave them alone.
LedgerAlone == UNCHANGED <<payable, settlement, credit, application>>

LEMMA LedgerSteps ==
    ASSUME [LedgerNext]_ledgerAll
    PROVE  \/ LedgerAlone
           \/ \E p \in Payable : MarkPaid(p)
           \/ \E s \in Settlement : \E ps \in SUBSET Payable : CreateSettlement(s, ps)
           \/ \E k \in Keeper : ApplyCredit(k) \/ RemoveCredit(k) \/ PaySettlement(k)
                                \/ CancelSettlement(k)
<1>1. ASSUME NEW k \in Keeper, KeeperReads(k) \/ KeeperEnds(k) PROVE LedgerAlone
  BY <1>1 DEF KeeperReads, ApplyReads, RemoveReads, CloseReads, Reads, KeeperEnds,
     LedgerAlone
<1>2. CASE UNCHANGED ledgerVars \/ UNCHANGED ledgerAll
  BY <1>2 DEF ledgerVars, ledgerAll, LedgerAlone
<1>3. QED  BY <1>1, <1>2 DEF LedgerNext

LEMMA KeeperSteps ==
    ASSUME [LedgerNext]_ledgerAll
    PROVE  \/ keeper' = keeper
           \/ \E k \in Keeper : keeper' = [keeper EXCEPT ![k] = IdleKeeper]
           \/ \E k \in Keeper : KeeperReads(k)
<1>1. ASSUME NEW k \in Keeper, ApplyCredit(k) \/ RemoveCredit(k) \/ PaySettlement(k)
                               \/ CancelSettlement(k) \/ KeeperEnds(k)
      PROVE  keeper' = [keeper EXCEPT ![k] = IdleKeeper]
  BY <1>1 DEF ApplyCredit, RemoveCredit, PaySettlement, CancelSettlement, Commits,
     KeeperEnds
<1>2. CASE UNCHANGED ledgerVars \/ UNCHANGED ledgerAll
  BY <1>2 DEF ledgerVars, ledgerAll
<1>3. CASE \/ \E p \in Payable : MarkPaid(p)
           \/ \E s \in Settlement, ps \in SUBSET Payable : CreateSettlement(s, ps)
  BY <1>3 DEF MarkPaid, CreateSettlement
<1>4. QED  BY <1>1, <1>2, <1>3 DEF LedgerNext

-----------------------------------------------------------------------------
(* Sums                                                                    *)

\* The amounts of a set of applications, unit by unit, in one state or the next.
Drawn(apps, S) == UNION {{a} \X (1..apps[a].amount) : a \in S}

Sum(apps, S) == Cardinality(Drawn(apps, S))

Amounts(apps) == \A a \in Application : apps[a].amount \in Nat

LEMMA SumIs == ASSUME NEW S PROVE AmountOfActive(S) = Sum(application, S)
BY DEF AmountOfActive, Sum, Drawn

LEMMA SumOfOne ==
    ASSUME NEW apps, Amounts(apps), NEW a \in Application
    PROVE  /\ IsFiniteSet({a} \X (1..apps[a].amount))
           /\ Sum(apps, {a}) = apps[a].amount
<1> DEFINE n == apps[a].amount
           C == Cardinality(1..n)
<1>1. n \in Nat
  BY DEF Amounts
<1>2. Drawn(apps, {a}) = {a} \X (1..n)
  BY DEF Drawn
<1> HIDE DEF n
<1>3. IsFiniteSet(1..n) /\ C = IF 1 > n THEN 0 ELSE n - 1 + 1
  <2>1. 1 \in Int /\ n \in Int
    BY <1>1
  <2>2. QED  BY <2>1, FS_Interval, Zenon
<1>4. C = n
  BY <1>1, <1>3
<1>5. IsFiniteSet({a}) /\ Cardinality({a}) = 1
  BY FS_Singleton
<1>6. IsFiniteSet({a} \X (1..n)) /\ Cardinality({a} \X (1..n)) = 1 * C
  BY <1>3, <1>5, FS_Product, Zenon
<1>7. Cardinality({a} \X (1..n)) = n
  BY <1>1, <1>4, <1>6
<1>8. QED
  BY <1>2, <1>6, <1>7, Zenon DEF n, Sum

LEMMA SumType ==
    ASSUME NEW apps, Amounts(apps), NEW S \in SUBSET Application
    PROVE  IsFiniteSet(Drawn(apps, S)) /\ Sum(apps, S) \in Nat
<1> DEFINE piece == [a \in S |-> {a} \X (1..apps[a].amount)]
           T == {piece[a] : a \in S}
<1>1. IsFiniteSet(S)
  BY LedgerAssumption, FS_Subset
<1>2. piece \in Surjection(S, T)
  BY DEF Surjection
<1>3. IsFiniteSet(T)
  BY <1>1, <1>2, FS_Surjection
<1>4. \A t \in T : IsFiniteSet(t)
  BY SumOfOne
<1>5. IsFiniteSet(UNION T)
  BY <1>3, <1>4, FS_UNION
<1>6. UNION T = Drawn(apps, S)
  BY DEF Drawn
<1>7. QED
  BY <1>5, <1>6, FS_CardinalityType DEF Sum

LEMMA SumSplit ==
    ASSUME NEW apps, Amounts(apps), NEW S \in SUBSET Application,
           NEW T \in SUBSET Application, S \cap T = {}
    PROVE  Sum(apps, S \cup T) = Sum(apps, S) + Sum(apps, T)
<1> DEFINE P == Drawn(apps, S)
           Q == Drawn(apps, T)
<1>1. Drawn(apps, S \cup T) = P \cup Q
  BY DEF Drawn
<1>2. P \cap Q = {}
  BY DEF Drawn
<1>3. IsFiniteSet(P) /\ IsFiniteSet(Q) /\ Cardinality(P) \in Nat /\ Cardinality(Q) \in Nat
  BY SumType DEF Sum
<1> HIDE DEF P, Q
<1>4. Cardinality(P \cup Q) = Cardinality(P) + Cardinality(Q) - Cardinality({})
  BY <1>2, <1>3, FS_Union
<1>5. Cardinality({}) = 0
  BY FS_EmptySet
<1>6. Cardinality(P \cup Q) = Cardinality(P) + Cardinality(Q)
  BY <1>3, <1>4, <1>5
<1>7. QED
  BY <1>1, <1>6, Zenon DEF P, Q, Sum

LEMMA SumSame ==
    ASSUME NEW apps, NEW others, NEW S, \A a \in S : apps[a].amount = others[a].amount
    PROVE  Sum(apps, S) = Sum(others, S)
<1>1. Drawn(apps, S) = Drawn(others, S)
  BY DEF Drawn
<1>2. QED  BY <1>1 DEF Sum

LEMMA SumOfNone == ASSUME NEW apps PROVE Sum(apps, {}) = 0
<1>1. Drawn(apps, {}) = {}
  BY DEF Drawn
<1>2. QED  BY <1>1, FS_EmptySet DEF Sum

\* Amounts that are not zero and add up to zero are none.
LEMMA SumPositive ==
    ASSUME NEW apps, Amounts(apps), NEW S \in SUBSET Application,
           \A a \in S : apps[a].amount > 0, Sum(apps, S) = 0
    PROVE  S = {}
<1>1. Drawn(apps, S) = {}
  BY SumType, FS_EmptySet DEF Sum
<1>2. ASSUME NEW a \in S PROVE FALSE
  <2>1. 1 \in 1..apps[a].amount
    BY DEF Amounts
  <2>2. <<a, 1>> \in Drawn(apps, S)
    BY <2>1 DEF Drawn
  <2>3. QED  BY <1>1, <2>2
<1>3. QED  BY <1>2

-----------------------------------------------------------------------------
(* The inductive invariant                                                 *)

ApplicationsFit ==
    \A a \in Application : application[a].status # "NONE" =>
        /\ application[a].credit \in Credit /\ application[a].settlement \in Settlement
        /\ application[a].amount > 0

\* What a request has read of the rows that no step changes, and what it has checked of
\* the balances it will claim.
KeeperFits(k) ==
    LET read == keeper[k]
        s == read.settlement
        a == read.application
        c == read.credit IN
    /\ read.step # "IDLE" => s \in Settlement /\ settlement[s].status # "NONE"
    /\ read.step = "APPLY" =>
          /\ a \in Application /\ c \in Credit /\ c \in credits /\ read.amount > 0
          /\ read.drawn + read.amount <= settlement[s].total
          /\ read.applied + read.amount <= CreditAmount(c)
    /\ read.step = "REMOVE" =>
          /\ a \in Application /\ c \in Credit /\ application[a].status # "NONE"
          /\ application[a].settlement = s /\ application[a].credit = c
          /\ application[a].amount = read.amount
          /\ read.amount <= read.drawn /\ read.amount <= read.applied
    /\ read.step = "CANCEL" =>
          /\ \A b \in read.active :
                application[b].status # "NONE" /\ application[b].settlement = s
          /\ Sum(application, read.active) = read.drawn

KeepersFit == \A k \in Keeper : KeeperFits(k)

\* SettlementsAddUp and CreditsAddUp, settlement by settlement and credit by credit.
SettlementFits(s) ==
    /\ settlement[s].status \in {"DRAFT", "PAID"} =>
          /\ settlement[s].total = PayableTotal(MembersOf(s))
          /\ settlement[s].credit <= settlement[s].total
    /\ settlement[s].status \in {"NONE", "CANCELLED"} => MembersOf(s) = {}
    /\ settlement[s].status = "PAID" =>
          settlement[s].paid + settlement[s].credit = settlement[s].total
    /\ \A p \in MembersOf(s) :
          payable[p].status = IF settlement[s].status = "PAID" THEN "PAID" ELSE "OPEN"

CreditFits(c) ==
    /\ credit[c].applied = Sum(application, ActiveFor(c))
    /\ credit[c].applied <= CreditAmount(c)
    /\ credit[c].status = CreditStatus(c, credit[c].applied)
    /\ credit[c].applied > 0 => c \in credits

DrawnFits(s) ==
    /\ settlement[s].credit = Sum(application, ActiveOn(s))
    /\ settlement[s].status = "NONE" => settlement[s].credit = 0

LedgerInv ==
    /\ RowsTypeOK
    /\ ApplicationsFit
    /\ KeepersFit
    /\ \A s \in Settlement : SettlementFits(s) /\ DrawnFits(s)
    /\ \A c \in Credit : CreditFits(c)

LEMMA ActiveTyped ==
    ASSUME LedgerInv
    PROVE  /\ Amounts(application)
           /\ \A s : ActiveOn(s) \in SUBSET Application
           /\ \A c : ActiveFor(c) \in SUBSET Application
           /\ \A S \in SUBSET Application : Sum(application, S) \in Nat
<1>1. Amounts(application)
  BY DEF LedgerInv, RowsTypeOK, ApplicationRow, Amounts
<1>2. QED  BY <1>1, SumType DEF ActiveOn, ActiveFor

LEMMA CreditAmountTyped ==
    ASSUME NEW c \in Credit
    PROVE  CreditAmount(c) \in Nat /\ CreditAmount(c) > 0
<1> DEFINE x == Price[c[2]]
           y == Wanted[c[1]][c[2]]
<1>1. c[1] \in Return /\ c[2] \in Item /\ c[2] \in Supplied /\ y > 0
  BY DEF Credit, ReturnItem, ItemsOf
<1>2. x \in Nat \ {0} /\ y \in Nat \ {0}
  BY <1>1, LedgerAssumption, ReturnsAssumption
<1> HIDE DEF x, y
<1>3. x * y \in Nat /\ x * y > 0
  BY <1>2
<1>4. QED  BY <1>3 DEF CreditAmount, x, y

LEMMA CreditStatusTyped ==
    ASSUME NEW c, NEW n
    PROVE  CreditStatus(c, n) \in {"AVAILABLE", "PARTIALLY_APPLIED", "APPLIED"}
BY DEF CreditStatus

-----------------------------------------------------------------------------
(* What the commits do                                                     *)

Applies(a, s, c, n) ==
    /\ application[a].status = "NONE" /\ settlement[s].status = "DRAFT"
    /\ n > 0 /\ c \in credits
    /\ settlement[s].credit + n <= settlement[s].total
    /\ credit[c].applied + n <= CreditAmount(c)
    /\ settlement' = [settlement EXCEPT ![s].credit = settlement[s].credit + n]
    /\ credit' = [credit EXCEPT ![c] = Applied(c, n, credit[c].applied)]
    /\ application' = [application EXCEPT ![a] =
          [status |-> "ACTIVE", credit |-> c, settlement |-> s, amount |-> n]]
    /\ UNCHANGED payable

Removes(a, s, c, n) ==
    /\ application[a].status = "ACTIVE" /\ settlement[s].status = "DRAFT"
    /\ application[a].settlement = s /\ application[a].credit = c
    /\ application[a].amount = n
    /\ n <= settlement[s].credit /\ n <= credit[c].applied
    /\ settlement' = [settlement EXCEPT ![s].credit = settlement[s].credit - n]
    /\ credit' = [credit EXCEPT ![c] = Applied(c, -n, credit[c].applied)]
    /\ application' = [application EXCEPT ![a].status = "REMOVED"]
    /\ UNCHANGED payable

Pays(s) ==
    /\ settlement[s].status = "DRAFT"
    /\ payable' = [p \in Payable |->
          IF p \in OpenMembers(s) THEN [payable[p] EXCEPT !.status = "PAID"] ELSE payable[p]]
    /\ settlement' = [settlement EXCEPT ![s] = [settlement[s] EXCEPT
          !.status = "PAID", !.paid = settlement[s].total - settlement[s].credit]]
    /\ UNCHANGED <<credit, application>>

Drops(s) ==
    /\ settlement[s].status = "DRAFT"
    /\ payable' = [p \in Payable |->
          IF p \in OpenMembers(s) THEN [payable[p] EXCEPT !.settlement = NoOne] ELSE payable[p]]
    /\ credit' = [c \in Credit |->
          IF GivenBack(c, ActiveOn(s)) = 0 THEN credit[c]
          ELSE Applied(c, -GivenBack(c, ActiveOn(s)), credit[c].applied)]
    /\ application' = [a \in Application |->
          IF a \in ActiveOn(s) THEN [application[a] EXCEPT !.status = "REMOVED"]
          ELSE application[a]]
    /\ settlement' = [settlement EXCEPT ![s] = [settlement[s] EXCEPT
          !.status = "CANCELLED", !.credit = 0]]

LEMMA ApplyDoes ==
    ASSUME LedgerInv, NEW k \in Keeper, ApplyCredit(k)
    PROVE  \E a \in Application, s \in Settlement, c \in Credit, n \in Nat :
               Applies(a, s, c, n)
<1> DEFINE a == keeper[k].application
           s == keeper[k].settlement
           c == keeper[k].credit
           n == keeper[k].amount
<1>1. keeper[k].step = "APPLY" /\ KeeperFits(k) /\ n \in Nat
  BY DEF LedgerInv, KeepersFit, ApplyCredit, Commits, RowsTypeOK, KeeperRow
<1>2. /\ a \in Application /\ s \in Settlement /\ c \in Credit
      /\ n > 0 /\ c \in credits
      /\ keeper[k].drawn + n <= settlement[s].total
      /\ keeper[k].applied + n <= CreditAmount(c)
  BY <1>1 DEF KeeperFits
<1>3. /\ settlement[s].credit = keeper[k].drawn /\ settlement[s].status = "DRAFT"
      /\ credit[c].applied = keeper[k].applied
  BY DEF ApplyCredit, DraftAsRead, CreditAsRead
<1>4. Applies(a, s, c, n)
  BY <1>2, <1>3 DEF ApplyCredit, Applies
<1>5. QED  BY <1>1, <1>2, <1>4

LEMMA RemoveDoes ==
    ASSUME LedgerInv, NEW k \in Keeper, RemoveCredit(k)
    PROVE  \E a \in Application, s \in Settlement, c \in Credit, n \in Nat :
               Removes(a, s, c, n)
<1> DEFINE a == keeper[k].application
           s == keeper[k].settlement
           c == keeper[k].credit
           n == keeper[k].amount
<1>1. keeper[k].step = "REMOVE" /\ KeeperFits(k) /\ n \in Nat
  BY DEF LedgerInv, KeepersFit, RemoveCredit, Commits, RowsTypeOK, KeeperRow
<1>2. /\ a \in Application /\ s \in Settlement /\ c \in Credit
      /\ application[a].settlement = s /\ application[a].credit = c
      /\ application[a].amount = n
      /\ n <= keeper[k].drawn /\ n <= keeper[k].applied
  BY <1>1 DEF KeeperFits
<1>3. /\ settlement[s].credit = keeper[k].drawn /\ settlement[s].status = "DRAFT"
      /\ credit[c].applied = keeper[k].applied /\ application[a].status = "ACTIVE"
  BY DEF RemoveCredit, DraftAsRead, CreditAsRead, StillActive
<1>4. Removes(a, s, c, n)
  BY <1>2, <1>3 DEF RemoveCredit, Removes
<1>5. QED  BY <1>1, <1>2, <1>4

LEMMA PayDoes ==
    ASSUME LedgerInv, NEW k \in Keeper, PaySettlement(k)
    PROVE  \E s \in Settlement : Pays(s)
<1> DEFINE s == keeper[k].settlement
<1>1. s \in Settlement
  BY DEF LedgerInv, KeepersFit, KeeperFits, PaySettlement, Commits
<1>2. Pays(s)
  BY DEF PaySettlement, DraftAsRead, Pays
<1>3. QED  BY <1>1, <1>2

\* Cancelling takes back the applications it has read; that the credit total is the one
\* it has read, and that they are all still active, leaves no room for another one.
LEMMA CancelMeetsAll ==
    ASSUME LedgerInv, NEW k \in Keeper, CancelSettlement(k)
    PROVE  /\ keeper[k].settlement \in Settlement
           /\ keeper[k].active = ActiveOn(keeper[k].settlement)
<1> DEFINE s == keeper[k].settlement
           gone == keeper[k].active
           rest == ActiveOn(s) \ gone
<1>1. keeper[k].step = "CANCEL" /\ KeeperFits(k) /\ gone \in SUBSET Application
  BY DEF LedgerInv, KeepersFit, CancelSettlement, Commits, RowsTypeOK, KeeperRow
<1>2. /\ s \in Settlement /\ Sum(application, gone) = keeper[k].drawn
      /\ \A b \in gone : application[b].settlement = s
  BY <1>1 DEF KeeperFits
<1>3. /\ settlement[s].credit = keeper[k].drawn
      /\ \A b \in gone : application[b].status = "ACTIVE"
  BY DEF CancelSettlement, DraftAsRead, StillActive
<1>4. gone \in SUBSET ActiveOn(s)
  BY <1>1, <1>2, <1>3 DEF ActiveOn
<1>5. Sum(application, ActiveOn(s)) = Sum(application, gone)
  BY <1>2, <1>3 DEF LedgerInv, DrawnFits
<1>6. /\ rest \in SUBSET Application /\ gone \cup rest = ActiveOn(s)
      /\ gone \cap rest = {}
  BY <1>4, ActiveTyped
<1>7. Sum(application, ActiveOn(s)) = Sum(application, gone) + Sum(application, rest)
  <2>1. Sum(application, gone \cup rest) = Sum(application, gone) + Sum(application, rest)
    BY <1>1, <1>6, ActiveTyped, SumSplit
  <2>2. QED  BY <1>6, <2>1, Zenon
<1>8. Sum(application, rest) = 0
  BY <1>1, <1>5, <1>6, <1>7, ActiveTyped
<1>9. \A a \in rest : application[a].amount > 0
  BY DEF LedgerInv, ApplicationsFit, ActiveOn
<1>10. rest = {}
  BY <1>6, <1>8, <1>9, ActiveTyped, SumPositive
<1>11. QED  BY <1>2, <1>4, <1>10

LEMMA CancelDoes ==
    ASSUME LedgerInv, NEW k \in Keeper, CancelSettlement(k)
    PROVE  \E s \in Settlement : Drops(s)
<1> DEFINE s == keeper[k].settlement
<1>1. s \in Settlement /\ keeper[k].active = ActiveOn(s)
  BY CancelMeetsAll
<1>2. Drops(s)
  BY <1>1 DEF CancelSettlement, DraftAsRead, Drops
<1>3. QED  BY <1>1, <1>2

LEMMA LedgerChanges ==
    ASSUME LedgerInv, [LedgerNext]_ledgerAll
    PROVE  \/ LedgerAlone
           \/ \E p \in Payable : MarkPaid(p)
           \/ \E s \in Settlement : \E ps \in SUBSET Payable : CreateSettlement(s, ps)
           \/ \E a \in Application, s \in Settlement, c \in Credit, n \in Nat :
                 Applies(a, s, c, n) \/ Removes(a, s, c, n)
           \/ \E s \in Settlement : Pays(s) \/ Drops(s)
<1>1. ASSUME NEW k \in Keeper, ApplyCredit(k) \/ RemoveCredit(k)
      PROVE  \E a \in Application, s \in Settlement, c \in Credit, n \in Nat :
                 Applies(a, s, c, n) \/ Removes(a, s, c, n)
  BY <1>1, ApplyDoes, RemoveDoes
<1>2. ASSUME NEW k \in Keeper, PaySettlement(k) \/ CancelSettlement(k)
      PROVE  \E s \in Settlement : Pays(s) \/ Drops(s)
  BY <1>2, PayDoes, CancelDoes
<1>3. QED  BY <1>1, <1>2, LedgerSteps

-----------------------------------------------------------------------------
(* Types                                                                   *)

LEMMA AppliesTyped ==
    ASSUME LedgerInv, NEW a \in Application, NEW s \in Settlement, NEW c \in Credit,
           NEW n \in Nat, Applies(a, s, c, n) \/ Removes(a, s, c, n)
    PROVE  /\ settlement' \in [Settlement -> SettlementRow]
           /\ credit' \in [Credit -> CreditRow]
           /\ application' \in [Application -> ApplicationRow]
<1>1. RowsTypeOK
  BY DEF LedgerInv
<1>2. settlement[s].credit \in Nat /\ credit[c].applied \in Nat
  BY <1>1 DEF RowsTypeOK, SettlementRow, CreditRow
<1>3. ASSUME NEW m \in Nat, settlement' = [settlement EXCEPT ![s].credit = m]
      PROVE  settlement' \in [Settlement -> SettlementRow]
  BY <1>1, <1>3 DEF RowsTypeOK, SettlementRow
<1>4. ASSUME NEW m \in Int, NEW x \in Int, credit[c].applied + m >= 0,
             credit' = [credit EXCEPT ![c] = Applied(c, m, x)]
      PROVE  credit' \in [Credit -> CreditRow]
  <2>1. Applied(c, m, x) \in CreditRow
    BY <1>2, <1>4, CreditStatusTyped DEF Applied, CreditRow
  <2>2. QED  BY <1>1, <1>4, <2>1 DEF RowsTypeOK
<1>5. CASE Applies(a, s, c, n)
  <2> DEFINE m == settlement[s].credit + n
             row == [status |-> "ACTIVE", credit |-> c, settlement |-> s, amount |-> n]
  <2>1. /\ settlement' = [settlement EXCEPT ![s].credit = m]
        /\ credit' = [credit EXCEPT ![c] = Applied(c, n, credit[c].applied)]
        /\ application' = [application EXCEPT ![a] = row]
    BY <1>5 DEF Applies
  <2>2. m \in Nat /\ n \in Int /\ credit[c].applied \in Int /\ credit[c].applied + n >= 0
    BY <1>2
  <2>3. row \in ApplicationRow
    BY DEF ApplicationRow
  <2> HIDE DEF m, row
  <2>4. settlement' \in [Settlement -> SettlementRow]
    BY <1>3, <2>1, <2>2
  <2>5. credit' \in [Credit -> CreditRow]
    BY <1>4, <2>1, <2>2
  <2>6. application' \in [Application -> ApplicationRow]
    BY <1>1, <2>1, <2>3 DEF RowsTypeOK
  <2>7. QED  BY <2>4, <2>5, <2>6
<1>6. CASE Removes(a, s, c, n)
  <2> DEFINE m == settlement[s].credit - n
  <2>1. /\ settlement' = [settlement EXCEPT ![s].credit = m]
        /\ credit' = [credit EXCEPT ![c] = Applied(c, -n, credit[c].applied)]
        /\ application' = [application EXCEPT ![a].status = "REMOVED"]
        /\ n <= settlement[s].credit /\ n <= credit[c].applied
    BY <1>6 DEF Removes
  <2>2. /\ m \in Nat /\ -n \in Int /\ credit[c].applied \in Int
        /\ credit[c].applied + (-n) >= 0
    BY <1>2, <2>1
  <2> HIDE DEF m
  <2>3. settlement' \in [Settlement -> SettlementRow]
    BY <1>3, <2>1, <2>2
  <2>4. credit' \in [Credit -> CreditRow]
    BY <1>4, <2>1, <2>2
  <2>5. application' \in [Application -> ApplicationRow]
    BY <1>1, <2>1 DEF RowsTypeOK, ApplicationRow
  <2>6. QED  BY <2>3, <2>4, <2>5
<1>7. QED  BY <1>5, <1>6

\* What is given back to a credit is part of what is applied of it.
LEMMA GivenBackIs ==
    ASSUME LedgerInv, NEW c \in Credit, NEW s \in Settlement
    PROVE  /\ GivenBack(c, ActiveOn(s)) \in Nat
           /\ ActiveFor(c) \ ActiveOn(s) \in SUBSET Application
           /\ credit[c].applied = GivenBack(c, ActiveOn(s))
                                    + Sum(application, ActiveFor(c) \ ActiveOn(s))
<1> DEFINE given == {a \in ActiveOn(s) : application[a].credit = c}
           rest == ActiveFor(c) \ ActiveOn(s)
<1>1. GivenBack(c, ActiveOn(s)) = Sum(application, given)
  BY SumIs DEF GivenBack
<1>2. /\ given \in SUBSET Application /\ rest \in SUBSET Application
      /\ given \cup rest = ActiveFor(c) /\ given \cap rest = {}
  BY DEF ActiveOn, ActiveFor
<1>3. Sum(application, given \cup rest) = Sum(application, given) + Sum(application, rest)
  BY <1>2, ActiveTyped, SumSplit
<1>4. credit[c].applied = Sum(application, ActiveFor(c))
  BY DEF LedgerInv, CreditFits
<1>5. Sum(application, ActiveFor(c)) = Sum(application, given) + Sum(application, rest)
  BY <1>2, <1>3, Zenon
<1>6. Sum(application, given) \in Nat
  BY <1>2, ActiveTyped
<1>7. QED
  BY <1>1, <1>2, <1>4, <1>5, <1>6

LEMMA DropsTyped ==
    ASSUME LedgerInv, NEW s \in Settlement, Drops(s)
    PROVE  /\ payable' \in [Payable -> PayableRow]
           /\ settlement' \in [Settlement -> SettlementRow]
           /\ credit' \in [Credit -> CreditRow]
           /\ application' \in [Application -> ApplicationRow]
<1>1. RowsTypeOK
  BY DEF LedgerInv
<1>2. \A p \in Payable : [payable[p] EXCEPT !.settlement = NoOne] \in PayableRow
  BY <1>1 DEF RowsTypeOK, PayableRow
<1>3. payable' \in [Payable -> PayableRow]
  BY <1>1, <1>2 DEF Drops, RowsTypeOK
<1>4. [settlement[s] EXCEPT !.status = "CANCELLED", !.credit = 0] \in SettlementRow
  BY <1>1 DEF RowsTypeOK, SettlementRow
<1>5. settlement' \in [Settlement -> SettlementRow]
  BY <1>1, <1>4 DEF Drops, RowsTypeOK
<1>6. ASSUME NEW c \in Credit PROVE credit'[c] \in CreditRow
  <2> DEFINE m == GivenBack(c, ActiveOn(s))
  <2>1. m \in Nat /\ credit[c].applied \in Nat /\ credit[c].applied >= m
    <3>1. Sum(application, ActiveFor(c) \ ActiveOn(s)) \in Nat
      BY GivenBackIs, ActiveTyped
    <3>2. credit[c].applied \in Nat
      BY <1>1 DEF RowsTypeOK, CreditRow
    <3>3. QED  BY <3>1, <3>2, GivenBackIs
  <2>2. credit'[c] = IF m = 0 THEN credit[c] ELSE Applied(c, -m, credit[c].applied)
    BY DEF Drops
  <2> HIDE DEF m
  <2>3. Applied(c, -m, credit[c].applied) \in CreditRow
    BY <2>1, CreditStatusTyped DEF Applied, CreditRow
  <2>4. credit[c] \in CreditRow
    BY <1>1 DEF RowsTypeOK
  <2>5. QED  BY <2>2, <2>3, <2>4
<1>7. credit' \in [Credit -> CreditRow]
  <2>1. credit' = [c \in Credit |-> credit'[c]]
    BY DEF Drops
  <2>2. QED  BY <1>6, <2>1
<1>8. \A a \in Application : [application[a] EXCEPT !.status = "REMOVED"] \in ApplicationRow
  BY <1>1 DEF RowsTypeOK, ApplicationRow
<1>9. application' \in [Application -> ApplicationRow]
  BY <1>1, <1>8 DEF Drops, RowsTypeOK
<1>10. QED  BY <1>3, <1>5, <1>7, <1>9

LEMMA PaysTyped ==
    ASSUME LedgerInv, NEW s \in Settlement, Pays(s)
    PROVE  /\ payable' \in [Payable -> PayableRow]
           /\ settlement' \in [Settlement -> SettlementRow]
<1>1. RowsTypeOK
  BY DEF LedgerInv
<1>2. \A p \in Payable : [payable[p] EXCEPT !.status = "PAID"] \in PayableRow
  BY <1>1 DEF RowsTypeOK, PayableRow
<1>3. payable' \in [Payable -> PayableRow]
  BY <1>1, <1>2 DEF Pays, RowsTypeOK
<1>4. settlement[s].total - settlement[s].credit \in Nat
  <2>1. settlement[s].total \in Nat /\ settlement[s].credit \in Nat
    BY <1>1 DEF RowsTypeOK, SettlementRow
  <2>2. settlement[s].credit <= settlement[s].total
    BY DEF Pays, LedgerInv, SettlementFits
  <2>3. QED  BY <2>1, <2>2
<1>5. [settlement[s] EXCEPT !.status = "PAID",
                            !.paid = settlement[s].total - settlement[s].credit]
        \in SettlementRow
  BY <1>1, <1>4 DEF RowsTypeOK, SettlementRow
<1>6. settlement' \in [Settlement -> SettlementRow]
  BY <1>1, <1>5 DEF Pays, RowsTypeOK
<1>7. QED  BY <1>3, <1>6

\* The sum of payables is a number.
LEMMA PayableTotalTyped ==
    ASSUME NEW ps \in SUBSET Payable
    PROVE  PayableTotal(ps) \in Nat /\ Cardinality(ps) \in Nat
<1> DEFINE piece == [p \in ps |-> {p} \X (1..PayableOf[p])]
           T == {piece[p] : p \in ps}
<1>1. IsFiniteSet(ps)
  BY LedgerAssumption, FS_Subset
<1>2. piece \in Surjection(ps, T)
  BY DEF Surjection
<1>3. IsFiniteSet(T)
  BY <1>1, <1>2, FS_Surjection
<1>4. ASSUME NEW p \in ps PROVE IsFiniteSet({p} \X (1..PayableOf[p]))
  <2>1. 1 \in Int /\ PayableOf[p] \in Int
    BY LedgerAssumption
  <2>2. IsFiniteSet(1..PayableOf[p]) /\ IsFiniteSet({p})
    BY <2>1, FS_Interval, FS_Singleton
  <2>3. QED  BY <2>2, FS_Product
<1>5. \A t \in T : IsFiniteSet(t)
  BY <1>4
<1>6. IsFiniteSet(UNION T)
  BY <1>3, <1>5, FS_UNION
<1>7. UNION T = PayableUnits(ps)
  BY DEF PayableUnits
<1>8. IsFiniteSet(PayableUnits(ps))
  BY <1>6, <1>7, Zenon
<1>9. QED  BY <1>1, <1>8, FS_CardinalityType DEF PayableTotal

LEMMA CreateTyped ==
    ASSUME RowsTypeOK, NEW s \in Settlement, NEW ps \in SUBSET Payable,
           CreateSettlement(s, ps)
    PROVE  /\ payable' \in [Payable -> PayableRow]
           /\ settlement' \in [Settlement -> SettlementRow]
<1>1. \A p \in Payable : [payable[p] EXCEPT !.settlement = s] \in PayableRow
  BY DEF RowsTypeOK, PayableRow
<1>2. payable' \in [Payable -> PayableRow]
  BY <1>1 DEF CreateSettlement, RowsTypeOK
<1>3. [NoSettlement EXCEPT !.status = "DRAFT", !.total = PayableTotal(ps),
                           !.count = Cardinality(ps)] \in SettlementRow
  BY PayableTotalTyped DEF NoSettlement, SettlementRow
<1>4. settlement' \in [Settlement -> SettlementRow]
  BY <1>3 DEF CreateSettlement, RowsTypeOK
<1>5. QED  BY <1>2, <1>4

\* What an idle request that reads has read.
LEMMA ReadsTyped ==
    ASSUME RowsTypeOK, ApplicationsFit, NEW k \in Keeper, KeeperReads(k)
    PROVE  keeper' \in [Keeper -> KeeperRow]
<1>1. ASSUME NEW row \in KeeperRow, keeper' = [keeper EXCEPT ![k] = row]
      PROVE  keeper' \in [Keeper -> KeeperRow]
  BY <1>1 DEF RowsTypeOK
<1>2. ASSUME NEW a \in Application, NEW s \in Settlement, NEW c \in Credit,
             NEW n \in 1..CreditAmount(c), ApplyReads(k, a, s, c, n)
      PROVE  keeper' \in [Keeper -> KeeperRow]
  <2> DEFINE row == [step |-> "APPLY", settlement |-> s, application |-> a, credit |-> c,
                     amount |-> n, drawn |-> settlement[s].credit,
                     applied |-> credit[c].applied, active |-> {}]
  <2>1. n \in Nat
    BY CreditAmountTyped
  <2>2. row \in KeeperRow
    BY <2>1 DEF KeeperRow, RowsTypeOK, SettlementRow, CreditRow
  <2>3. keeper' = [keeper EXCEPT ![k] = row]
    BY <1>2 DEF ApplyReads, Reads
  <2> HIDE DEF row
  <2>4. QED  BY <1>1, <2>2, <2>3
<1>3. ASSUME NEW a \in Application, RemoveReads(k, a)
      PROVE  keeper' \in [Keeper -> KeeperRow]
  <2> DEFINE app == application[a]
             row == [step |-> "REMOVE", settlement |-> app.settlement, application |-> a,
                     credit |-> app.credit, amount |-> app.amount,
                     drawn |-> settlement[app.settlement].credit,
                     applied |-> credit[app.credit].applied, active |-> {}]
  <2>1. app.settlement \in Settlement /\ app.credit \in Credit /\ app.amount \in Nat
    BY <1>3 DEF RemoveReads, ApplicationsFit, RowsTypeOK, ApplicationRow
  <2>2. row \in KeeperRow
    BY <2>1 DEF KeeperRow, RowsTypeOK, SettlementRow, CreditRow
  <2>3. keeper' = [keeper EXCEPT ![k] = row]
    BY <1>3 DEF RemoveReads, Reads
  <2> HIDE DEF row
  <2>4. QED  BY <1>1, <2>2, <2>3
<1>4. ASSUME NEW s \in Settlement, NEW step \in {"PAY", "CANCEL"}, CloseReads(k, s, step)
      PROVE  keeper' \in [Keeper -> KeeperRow]
  <2> DEFINE active == IF step = "CANCEL" THEN ActiveOn(s) ELSE {}
             row == [IdleKeeper EXCEPT !.step = step, !.settlement = s,
                                       !.drawn = settlement[s].credit, !.active = active]
  <2>1. active \in SUBSET Application
    BY DEF ActiveOn
  <2>2. keeper' = [keeper EXCEPT ![k] = row]
    BY <1>4 DEF CloseReads, Reads
  <2> HIDE DEF active
  <2>3. row \in KeeperRow
    BY <2>1 DEF KeeperRow, RowsTypeOK, SettlementRow, IdleKeeper
  <2> HIDE DEF row
  <2>4. QED  BY <1>1, <2>2, <2>3
<1>5. QED  BY <1>2, <1>3, <1>4 DEF KeeperReads

LEMMA StepLedgerTyped ==
    ASSUME LedgerInv, [LedgerNext]_ledgerAll
    PROVE  RowsTypeOK'
<1>1. RowsTypeOK /\ ApplicationsFit
  BY DEF LedgerInv
<1> DEFINE Typed == /\ payable' \in [Payable -> PayableRow]
                    /\ settlement' \in [Settlement -> SettlementRow]
                    /\ credit' \in [Credit -> CreditRow]
                    /\ application' \in [Application -> ApplicationRow]
<1>2. ASSUME LedgerAlone PROVE Typed
  BY <1>1, <1>2 DEF LedgerAlone, RowsTypeOK
<1>3. ASSUME NEW p \in Payable, MarkPaid(p) PROVE Typed
  BY <1>1, <1>3 DEF MarkPaid, RowsTypeOK, PayableRow
<1>4. ASSUME NEW s \in Settlement, NEW ps \in SUBSET Payable, CreateSettlement(s, ps)
      PROVE  Typed
  <2>1. UNCHANGED <<credit, application>>
    BY <1>4 DEF CreateSettlement
  <2>2. QED  BY <1>1, <1>4, <2>1, CreateTyped DEF RowsTypeOK
<1>5. ASSUME NEW a \in Application, NEW s \in Settlement, NEW c \in Credit, NEW n \in Nat,
             Applies(a, s, c, n) \/ Removes(a, s, c, n)
      PROVE  Typed
  <2>1. UNCHANGED payable
    BY <1>5 DEF Applies, Removes
  <2>2. QED  BY <1>1, <1>5, <2>1, AppliesTyped DEF RowsTypeOK
<1>6. ASSUME NEW s \in Settlement, Pays(s) PROVE Typed
  <2>1. UNCHANGED <<credit, application>>
    BY <1>6 DEF Pays
  <2>2. QED  BY <1>1, <1>6, <2>1, PaysTyped DEF RowsTypeOK
<1>7. ASSUME NEW s \in Settlement, Drops(s) PROVE Typed
  BY <1>7, DropsTyped
<1> HIDE DEF Typed
<1>8. Typed
  BY <1>2, <1>3, <1>4, <1>5, <1>6, <1>7, LedgerChanges
<1>9. keeper' \in [Keeper -> KeeperRow]
  <2>1. IdleKeeper \in KeeperRow
    BY DEF IdleKeeper, KeeperRow
  <2>2. QED  BY <1>1, <2>1, ReadsTyped, KeeperSteps DEF RowsTypeOK
<1>10. QED  BY <1>8, <1>9 DEF Typed, RowsTypeOK

-----------------------------------------------------------------------------
(* What requests have read                                                 *)

\* What no step takes back: a settlement keeps its total, an application what it is for.
LedgerGrows ==
    /\ \A s \in Settlement : settlement[s].status # "NONE" =>
          settlement'[s].status # "NONE" /\ settlement'[s].total = settlement[s].total
    /\ \A a \in Application : application[a].status # "NONE" =>
          /\ application'[a].status # "NONE"
          /\ application'[a].credit = application[a].credit
          /\ application'[a].settlement = application[a].settlement
          /\ application'[a].amount = application[a].amount
    /\ credits \subseteq credits'

LEMMA StepGrows ==
    ASSUME LedgerInv, [LedgerNext]_ledgerAll
    PROVE  LedgerGrows /\ ApplicationsFit'
<1>1. RowsTypeOK /\ ApplicationsFit
  BY DEF LedgerInv
<1> DEFINE SettlementsGrow == \A s \in Settlement : settlement[s].status # "NONE" =>
               settlement'[s].status # "NONE" /\ settlement'[s].total = settlement[s].total
           ApplicationsGrow == \A a \in Application : application[a].status # "NONE" =>
               /\ application'[a].status # "NONE"
               /\ application'[a].credit = application[a].credit
               /\ application'[a].settlement = application[a].settlement
               /\ application'[a].amount = application[a].amount
           Goal == SettlementsGrow /\ ApplicationsGrow /\ ApplicationsFit'
<1>2. ASSUME UNCHANGED <<settlement, application>> PROVE Goal
  BY <1>1, <1>2 DEF ApplicationsFit
<1>3. ASSUME NEW s \in Settlement, NEW ps \in SUBSET Payable, CreateSettlement(s, ps)
      PROVE  Goal
  <2>1. SettlementsGrow
    BY <1>1, <1>3 DEF CreateSettlement, RowsTypeOK
  <2>2. UNCHANGED application
    BY <1>3 DEF CreateSettlement
  <2>3. QED  BY <1>1, <2>1, <2>2 DEF ApplicationsFit
<1>4. ASSUME NEW a \in Application, NEW s \in Settlement, NEW c \in Credit, NEW n \in Nat,
             Applies(a, s, c, n)
      PROVE  Goal
  <2>1. SettlementsGrow
    BY <1>1, <1>4 DEF Applies, RowsTypeOK, SettlementRow
  <2>2. ApplicationsGrow
    BY <1>1, <1>4 DEF Applies, RowsTypeOK
  <2>3. ApplicationsFit'
    BY <1>1, <1>4 DEF Applies, RowsTypeOK, ApplicationsFit
  <2>4. QED  BY <2>1, <2>2, <2>3
<1>5. ASSUME NEW a \in Application, NEW s \in Settlement, NEW c \in Credit, NEW n \in Nat,
             Removes(a, s, c, n)
      PROVE  Goal
  <2>1. SettlementsGrow
    BY <1>1, <1>5 DEF Removes, RowsTypeOK, SettlementRow
  <2>2. ApplicationsGrow
    BY <1>1, <1>5 DEF Removes, RowsTypeOK, ApplicationRow
  <2>3. \A b \in Application : application'[b].status # "NONE" => application[b].status # "NONE"
    BY <1>1, <1>5 DEF Removes, RowsTypeOK, ApplicationRow
  <2>4. ApplicationsFit'
    BY <1>1, <2>2, <2>3 DEF ApplicationsFit
  <2>5. QED  BY <2>1, <2>2, <2>4
<1>6. ASSUME NEW s \in Settlement, Pays(s) PROVE Goal
  <2>1. SettlementsGrow
    BY <1>1, <1>6 DEF Pays, RowsTypeOK, SettlementRow
  <2>2. UNCHANGED application
    BY <1>6 DEF Pays
  <2>3. QED  BY <1>1, <2>1, <2>2 DEF ApplicationsFit
<1>7. ASSUME NEW s \in Settlement, Drops(s) PROVE Goal
  <2>1. SettlementsGrow
    BY <1>1, <1>7 DEF Drops, RowsTypeOK, SettlementRow
  <2>2. ASSUME NEW a \in Application
        PROVE  /\ application'[a].credit = application[a].credit
               /\ application'[a].settlement = application[a].settlement
               /\ application'[a].amount = application[a].amount
               /\ application'[a].status # "NONE" <=> application[a].status # "NONE"
    <3>1. application[a] \in ApplicationRow
      BY <1>1 DEF RowsTypeOK
    <3>2. CASE a \in ActiveOn(s)
      <4>1. application'[a] = [application[a] EXCEPT !.status = "REMOVED"]
        BY <1>7, <3>2 DEF Drops
      <4>2. application[a].status = "ACTIVE"
        BY <3>2 DEF ActiveOn
      <4>3. QED  BY <3>1, <4>1, <4>2 DEF ApplicationRow
    <3>3. CASE a \notin ActiveOn(s)
      BY <1>7, <3>3 DEF Drops
    <3>4. QED  BY <3>2, <3>3
  <2>3. ApplicationsGrow /\ ApplicationsFit'
    BY <1>1, <2>2 DEF ApplicationsFit
  <2>4. QED  BY <2>1, <2>3
<1> HIDE DEF Goal
<1>8. Goal
  BY <1>2, <1>3, <1>4, <1>5, <1>6, <1>7, LedgerChanges DEF LedgerAlone, MarkPaid
<1>9. QED  BY <1>8, CreditsStay DEF LedgerGrows, Goal

\* A request that waits still fits.
LEMMA WaitingFits ==
    ASSUME LedgerInv, LedgerGrows, NEW k \in Keeper, keeper'[k] = keeper[k]
    PROVE  KeeperFits(k)'
<1> DEFINE read == keeper[k]
<1>1. KeeperFits(k) /\ read.active \in SUBSET Application /\ RowsTypeOK
  BY DEF LedgerInv, KeepersFit, RowsTypeOK, KeeperRow
<1>2. read.step = "CANCEL" =>
          /\ \A b \in read.active : application'[b].status # "NONE"
                                    /\ application'[b].settlement = read.settlement
          /\ Sum(application', read.active) = read.drawn
  <2> SUFFICES ASSUME read.step = "CANCEL"
               PROVE  /\ \A b \in read.active : application'[b].status # "NONE"
                                    /\ application'[b].settlement = read.settlement
                      /\ Sum(application', read.active) = read.drawn
    OBVIOUS
  <2>1. /\ \A b \in read.active : application[b].status # "NONE"
                                  /\ application[b].settlement = read.settlement
        /\ Sum(application, read.active) = read.drawn
    BY <1>1 DEF KeeperFits
  <2>2. \A b \in read.active : application'[b].amount = application[b].amount
    BY <1>1, <2>1 DEF LedgerGrows
  <2>3. Sum(application', read.active) = Sum(application, read.active)
    BY <2>2, SumSame
  <2>4. QED  BY <1>1, <2>1, <2>3 DEF LedgerGrows
<1>3. read.step # "IDLE" =>
          read.settlement \in Settlement /\ settlement'[read.settlement].status # "NONE"
  BY <1>1 DEF KeeperFits, LedgerGrows
<1>4. read.step = "APPLY" =>
          /\ read.application \in Application /\ read.credit \in Credit
          /\ read.credit \in credits' /\ read.amount > 0
          /\ read.drawn + read.amount <= settlement'[read.settlement].total
          /\ read.applied + read.amount <= CreditAmount(read.credit)
  BY <1>1 DEF KeeperFits, LedgerGrows
<1>5. read.step = "REMOVE" =>
          /\ read.application \in Application /\ read.credit \in Credit
          /\ application'[read.application].status # "NONE"
          /\ application'[read.application].settlement = read.settlement
          /\ application'[read.application].credit = read.credit
          /\ application'[read.application].amount = read.amount
          /\ read.amount <= read.drawn /\ read.amount <= read.applied
  BY <1>1 DEF KeeperFits, LedgerGrows
<1> HIDE DEF read
<1>6. keeper'[k] = read
  BY DEF read
<1>7. QED  BY <1>2, <1>3, <1>4, <1>5, <1>6 DEF KeeperFits

\* A request that has just read fits.
LEMMA ReadFits ==
    ASSUME LedgerInv, NEW k \in Keeper, KeeperReads(k)
    PROVE  KeeperFits(k)'
<1>1. /\ RowsTypeOK /\ ApplicationsFit
      /\ UNCHANGED <<settlement, application, credits>>
  BY DEF LedgerInv, KeeperReads, ApplyReads, RemoveReads, CloseReads, Reads, returnVars,
     returnRows
<1>2. ASSUME NEW row, keeper' = [keeper EXCEPT ![k] = row] PROVE keeper'[k] = row
  BY <1>1, <1>2 DEF RowsTypeOK
<1>3. ASSUME NEW a \in Application, NEW s \in Settlement, NEW c \in Credit,
             NEW n \in 1..CreditAmount(c), ApplyReads(k, a, s, c, n)
      PROVE  KeeperFits(k)'
  <2>1. keeper'[k] = [step |-> "APPLY", settlement |-> s, application |-> a, credit |-> c,
                      amount |-> n, drawn |-> settlement[s].credit,
                      applied |-> credit[c].applied, active |-> {}]
    BY <1>2, <1>3 DEF ApplyReads, Reads
  <2>2. /\ settlement[s].total \in Nat /\ settlement[s].credit \in Nat
        /\ credit[c].applied \in Nat /\ CreditAmount(c) \in Nat /\ n \in Nat /\ n > 0
    BY <1>1, CreditAmountTyped DEF RowsTypeOK, SettlementRow, CreditRow
  <2>3. /\ settlement[s].status = "DRAFT" /\ c \in credits
        /\ n <= settlement[s].total - settlement[s].credit
        /\ n <= CreditAmount(c) - credit[c].applied
    BY <1>3 DEF ApplyReads
  <2>4. /\ settlement[s].credit + n <= settlement[s].total
        /\ credit[c].applied + n <= CreditAmount(c)
    BY <2>2, <2>3
  <2>5. QED  BY <1>1, <2>1, <2>2, <2>3, <2>4 DEF KeeperFits
<1>4. ASSUME NEW a \in Application, RemoveReads(k, a) PROVE KeeperFits(k)'
  <2> DEFINE app == application[a]
  <2>1. keeper'[k] = [step |-> "REMOVE", settlement |-> app.settlement, application |-> a,
                      credit |-> app.credit, amount |-> app.amount,
                      drawn |-> settlement[app.settlement].credit,
                      applied |-> credit[app.credit].applied, active |-> {}]
    BY <1>2, <1>4 DEF RemoveReads, Reads
  <2>2. /\ app.settlement \in Settlement /\ app.credit \in Credit /\ app.amount \in Nat
        /\ app.status = "ACTIVE" /\ settlement[app.settlement].status = "DRAFT"
        /\ settlement[app.settlement].credit >= app.amount
        /\ credit[app.credit].applied >= app.amount
    BY <1>1, <1>4 DEF RemoveReads, ApplicationsFit, RowsTypeOK, ApplicationRow
  <2>3. settlement[app.settlement].credit \in Nat /\ credit[app.credit].applied \in Nat
    BY <1>1, <2>2 DEF RowsTypeOK, SettlementRow, CreditRow
  <2>4. QED  BY <1>1, <2>1, <2>2, <2>3 DEF KeeperFits
<1>5. ASSUME NEW s \in Settlement, NEW step \in {"PAY", "CANCEL"}, CloseReads(k, s, step)
      PROVE  KeeperFits(k)'
  <2> DEFINE active == IF step = "CANCEL" THEN ActiveOn(s) ELSE {}
  <2>1. keeper'[k] = [IdleKeeper EXCEPT !.step = step, !.settlement = s,
                                        !.drawn = settlement[s].credit, !.active = active]
    BY <1>2, <1>5 DEF CloseReads, Reads
  <2>2. /\ settlement[s].status = "DRAFT"
        /\ Sum(application, ActiveOn(s)) = settlement[s].credit
    BY <1>5, SumIs DEF CloseReads
  <2>3. \A b \in ActiveOn(s) : application[b].status # "NONE" /\ application[b].settlement = s
    BY DEF ActiveOn
  <2>4. step = "CANCEL" => active = ActiveOn(s)
    OBVIOUS
  <2> HIDE DEF active
  <2>5. /\ keeper'[k].step = step /\ keeper'[k].settlement = s
        /\ keeper'[k].drawn = settlement[s].credit /\ keeper'[k].active = active
    BY <2>1 DEF IdleKeeper
  <2>6. step # "APPLY" /\ step # "REMOVE"
    OBVIOUS
  <2>7. QED  BY <1>1, <2>2, <2>3, <2>4, <2>5, <2>6 DEF KeeperFits
<1>6. QED  BY <1>3, <1>4, <1>5 DEF KeeperReads

LEMMA StepKeepers ==
    ASSUME LedgerInv, [LedgerNext]_ledgerAll
    PROVE  KeepersFit'
<1>1. LedgerGrows /\ keeper \in [Keeper -> KeeperRow]
  BY StepGrows DEF LedgerInv, RowsTypeOK
<1>2. SUFFICES ASSUME NEW j \in Keeper PROVE KeeperFits(j)'
  BY DEF KeepersFit
<1>3. CASE keeper'[j] = keeper[j]
  BY <1>1, <1>3, WaitingFits
<1>4. ASSUME NEW k \in Keeper, keeper' = [keeper EXCEPT ![k] = IdleKeeper]
      PROVE  KeeperFits(j)'
  <2>1. CASE j = k
    <3>1. keeper'[j].step = "IDLE"
      BY <1>1, <1>4, <2>1 DEF IdleKeeper
    <3>2. QED  BY <3>1 DEF KeeperFits
  <2>2. CASE j # k
    BY <1>1, <1>3, <1>4, <2>2
  <2>3. QED  BY <2>1, <2>2
<1>5. ASSUME NEW k \in Keeper, KeeperReads(k) PROVE KeeperFits(j)'
  <2>1. CASE j = k
    BY <1>5, <2>1, ReadFits
  <2>2. CASE j # k
    <3>1. keeper'[j] = keeper[j]
      BY <1>1, <1>5, <2>2 DEF KeeperReads, ApplyReads, RemoveReads, CloseReads, Reads
    <3>2. QED  BY <1>3, <3>1
  <2>3. QED  BY <2>1, <2>2
<1>6. QED  BY <1>3, <1>4, <1>5, KeeperSteps

-----------------------------------------------------------------------------
(* Settlements and their payables                                          *)

\* Only the credit total of a settlement changes, if anything.
LEMMA SameMembers ==
    ASSUME NEW s, SettlementFits(s), UNCHANGED payable,
           settlement'[s].status = settlement[s].status,
           settlement'[s].total = settlement[s].total,
           settlement'[s].paid = settlement[s].paid,
           \/ settlement'[s].credit = settlement[s].credit
           \/ settlement[s].status = "DRAFT" /\ settlement'[s].credit <= settlement[s].total
    PROVE  SettlementFits(s)'
<1>1. MembersOf(s)' = MembersOf(s)
  BY DEF MembersOf
<1>2. PayableTotal(MembersOf(s))' = PayableTotal(MembersOf(s))
  BY <1>1 DEF PayableTotal, PayableUnits
<1>3. QED  BY <1>1, <1>2 DEF SettlementFits

LEMMA AppliesSettlements ==
    ASSUME LedgerInv, NEW a \in Application, NEW s \in Settlement, NEW c \in Credit,
           NEW n \in Nat, Applies(a, s, c, n) \/ Removes(a, s, c, n), NEW t \in Settlement
    PROVE  SettlementFits(t)'
<1>1. /\ RowsTypeOK /\ SettlementFits(t) /\ SettlementFits(s)
      /\ settlement[s] \in SettlementRow /\ settlement[s].credit \in Nat
      /\ settlement[s].total \in Nat
  BY DEF LedgerInv, RowsTypeOK, SettlementRow
<1>2. PICK m \in Int : /\ settlement' = [settlement EXCEPT ![s].credit = m]
                       /\ m <= settlement[s].total
  <2>1. CASE Applies(a, s, c, n)
    <3>1. /\ settlement' = [settlement EXCEPT ![s].credit = settlement[s].credit + n]
          /\ settlement[s].credit + n <= settlement[s].total
      BY <2>1 DEF Applies
    <3>2. settlement[s].credit + n \in Int
      BY <1>1
    <3>3. QED  BY <3>1, <3>2
  <2>2. CASE Removes(a, s, c, n)
    <3>1. /\ settlement' = [settlement EXCEPT ![s].credit = settlement[s].credit - n]
          /\ settlement[s].credit <= settlement[s].total
      BY <1>1, <2>2 DEF Removes, SettlementFits
    <3>2. settlement[s].credit - n \in Int /\ settlement[s].credit - n <= settlement[s].total
      BY <1>1, <3>1
    <3>3. QED  BY <3>1, <3>2
  <2>3. QED  BY <2>1, <2>2
<1>3. settlement[s].status = "DRAFT" /\ UNCHANGED payable
  BY DEF Applies, Removes
<1>4. /\ settlement'[t].status = settlement[t].status
      /\ settlement'[t].total = settlement[t].total
      /\ settlement'[t].paid = settlement[t].paid
  BY <1>1, <1>2 DEF RowsTypeOK, SettlementRow
<1>5. IF t = s THEN settlement'[t].credit = m ELSE settlement'[t].credit = settlement[t].credit
  BY <1>1, <1>2 DEF RowsTypeOK, SettlementRow
<1>6. QED
  BY <1>1, <1>2, <1>3, <1>4, <1>5, SameMembers

LEMMA MarkSettlements ==
    ASSUME LedgerInv, NEW p \in Payable, MarkPaid(p), NEW t \in Settlement
    PROVE  SettlementFits(t)'
<1>1. /\ RowsTypeOK /\ SettlementFits(t)
  BY DEF LedgerInv
<1>2. /\ payable[p].settlement = NoOne /\ UNCHANGED settlement /\ t # NoOne
      /\ payable' = [payable EXCEPT ![p].status = "PAID"]
  BY LedgerAssumption DEF MarkPaid, Free
<1>3. /\ MembersOf(t)' = MembersOf(t) /\ p \notin MembersOf(t)
      /\ \A q \in MembersOf(t) : payable'[q] = payable[q]
  BY <1>1, <1>2 DEF RowsTypeOK, PayableRow, MembersOf
<1>4. PayableTotal(MembersOf(t))' = PayableTotal(MembersOf(t))
  BY <1>3 DEF PayableTotal, PayableUnits
<1>5. QED  BY <1>1, <1>2, <1>3, <1>4 DEF SettlementFits

LEMMA CreateSettlements ==
    ASSUME LedgerInv, NEW s \in Settlement, NEW ps \in SUBSET Payable,
           CreateSettlement(s, ps), NEW t \in Settlement
    PROVE  SettlementFits(t)'
<1> DEFINE row == [NoSettlement EXCEPT !.status = "DRAFT", !.total = PayableTotal(ps),
                                       !.count = Cardinality(ps)]
<1>1. /\ RowsTypeOK /\ SettlementFits(t) /\ SettlementFits(s)
  BY DEF LedgerInv
<1>2. /\ settlement[s].status = "NONE"
      /\ \A p \in ps : payable[p].status = "OPEN" /\ payable[p].settlement = NoOne
      /\ settlement' = [settlement EXCEPT ![s] = row]
      /\ payable' = [p \in Payable |->
            IF p \in ps THEN [payable[p] EXCEPT !.settlement = s] ELSE payable[p]]
      /\ s # NoOne /\ t # NoOne
  BY LedgerAssumption DEF CreateSettlement, Free
<1>3. row.status = "DRAFT" /\ row.total = PayableTotal(ps) /\ row.credit = 0
  BY DEF NoSettlement
<1> HIDE DEF row
<1>4. ASSUME NEW p \in Payable
      PROVE  /\ payable'[p].status = payable[p].status
             /\ payable'[p].settlement = IF p \in ps THEN s ELSE payable[p].settlement
  BY <1>1, <1>2 DEF RowsTypeOK, PayableRow
<1>5. CASE t = s
  <2>1. MembersOf(s) = {}
    BY <1>1, <1>2 DEF SettlementFits
  <2>2. MembersOf(s)' = ps
    BY <1>4, <2>1 DEF MembersOf
  <2>3. settlement'[s] = row
    BY <1>1, <1>2 DEF RowsTypeOK
  <2>4. PayableTotal(MembersOf(s))' = PayableTotal(ps)
    BY <2>2 DEF PayableTotal, PayableUnits
  <2>5. PayableTotal(ps) \in Nat
    BY PayableTotalTyped
  <2>6. \A p \in ps : payable'[p].status = "OPEN"
    BY <1>2, <1>4
  <2>7. QED
    BY <1>3, <1>5, <2>2, <2>3, <2>4, <2>5, <2>6 DEF SettlementFits
<1>6. CASE t # s
  <2>1. MembersOf(t)' = MembersOf(t) /\ settlement'[t] = settlement[t]
    BY <1>1, <1>2, <1>4, <1>6 DEF MembersOf, RowsTypeOK
  <2>2. PayableTotal(MembersOf(t))' = PayableTotal(MembersOf(t))
    BY <2>1 DEF PayableTotal, PayableUnits
  <2>3. \A p \in MembersOf(t) : payable'[p].status = payable[p].status
    BY <1>4 DEF MembersOf
  <2>4. QED  BY <1>1, <2>1, <2>2, <2>3 DEF SettlementFits
<1>7. QED  BY <1>5, <1>6

\* A draft's payables are all open.
LEMMA DraftMembersOpen ==
    ASSUME NEW s, SettlementFits(s), settlement[s].status = "DRAFT"
    PROVE  OpenMembers(s) = MembersOf(s)
BY DEF SettlementFits, OpenMembers

LEMMA PaySettlements ==
    ASSUME LedgerInv, NEW s \in Settlement, Pays(s), NEW t \in Settlement
    PROVE  SettlementFits(t)'
<1> DEFINE row == [settlement[s] EXCEPT !.status = "PAID",
                                        !.paid = settlement[s].total - settlement[s].credit]
<1>1. /\ RowsTypeOK /\ SettlementFits(t) /\ SettlementFits(s)
      /\ settlement[s] \in SettlementRow
  BY DEF LedgerInv, RowsTypeOK
<1>2. settlement[s].total \in Nat /\ settlement[s].credit \in Nat
  BY <1>1 DEF SettlementRow
<1>3. /\ settlement[s].status = "DRAFT" /\ settlement' = [settlement EXCEPT ![s] = row]
      /\ payable' = [p \in Payable |->
            IF p \in MembersOf(s) THEN [payable[p] EXCEPT !.status = "PAID"] ELSE payable[p]]
  BY <1>1, DraftMembersOpen DEF Pays
<1>4. /\ row.status = "PAID" /\ row.total = settlement[s].total
      /\ row.credit = settlement[s].credit
      /\ row.paid = settlement[s].total - settlement[s].credit
  BY <1>1 DEF SettlementRow
<1> HIDE DEF row
<1>5. ASSUME NEW p \in Payable
      PROVE  /\ payable'[p].settlement = payable[p].settlement
             /\ payable'[p].status = IF p \in MembersOf(s) THEN "PAID" ELSE payable[p].status
  BY <1>1, <1>3 DEF RowsTypeOK, PayableRow
<1>6. MembersOf(t)' = MembersOf(t)
  BY <1>5 DEF MembersOf
<1>7. PayableTotal(MembersOf(t))' = PayableTotal(MembersOf(t))
  BY <1>6 DEF PayableTotal, PayableUnits
<1>8. CASE t = s
  <2>1. settlement'[s] = row
    BY <1>1, <1>3 DEF RowsTypeOK
  <2>2. row.paid + row.credit = row.total
    BY <1>2, <1>4
  <2>3. /\ settlement[s].total = PayableTotal(MembersOf(s))
        /\ settlement[s].credit <= settlement[s].total
    BY <1>1, <1>3 DEF SettlementFits
  <2>4. \A p \in MembersOf(s) : payable'[p].status = "PAID"
    BY <1>5 DEF MembersOf
  <2>5. QED
    BY <1>4, <1>6, <1>7, <1>8, <2>1, <2>2, <2>3, <2>4 DEF SettlementFits
<1>9. CASE t # s
  <2>1. settlement'[t] = settlement[t]
    BY <1>1, <1>3, <1>9 DEF RowsTypeOK
  <2>2. \A p \in MembersOf(t) : payable'[p].status = payable[p].status
    BY <1>5, <1>9 DEF MembersOf
  <2>3. QED  BY <1>1, <1>6, <1>7, <2>1, <2>2 DEF SettlementFits
<1>10. QED  BY <1>8, <1>9

LEMMA DropSettlements ==
    ASSUME LedgerInv, NEW s \in Settlement, Drops(s), NEW t \in Settlement
    PROVE  SettlementFits(t)'
<1> DEFINE row == [settlement[s] EXCEPT !.status = "CANCELLED", !.credit = 0]
<1>1. /\ RowsTypeOK /\ SettlementFits(t) /\ SettlementFits(s)
      /\ settlement[s] \in SettlementRow /\ s # NoOne /\ t # NoOne
  BY LedgerAssumption DEF LedgerInv, RowsTypeOK
<1>2. /\ settlement' = [settlement EXCEPT ![s] = row]
      /\ payable' = [p \in Payable |->
            IF p \in MembersOf(s) THEN [payable[p] EXCEPT !.settlement = NoOne]
            ELSE payable[p]]
  BY <1>1, DraftMembersOpen DEF Drops
<1>3. row.status = "CANCELLED"
  BY <1>1 DEF SettlementRow
<1> HIDE DEF row
<1>4. ASSUME NEW p \in Payable
      PROVE  /\ payable'[p].status = payable[p].status
             /\ payable'[p].settlement =
                   IF p \in MembersOf(s) THEN NoOne ELSE payable[p].settlement
  BY <1>1, <1>2 DEF RowsTypeOK, PayableRow
<1>5. CASE t = s
  <2>1. MembersOf(s)' = {}
    BY <1>1, <1>4 DEF MembersOf
  <2>2. settlement'[s] = row
    BY <1>1, <1>2 DEF RowsTypeOK
  <2>3. QED  BY <1>3, <1>5, <2>1, <2>2 DEF SettlementFits
<1>6. CASE t # s
  <2>1. MembersOf(t)' = MembersOf(t) /\ settlement'[t] = settlement[t]
    BY <1>1, <1>2, <1>4, <1>6 DEF MembersOf, RowsTypeOK
  <2>2. PayableTotal(MembersOf(t))' = PayableTotal(MembersOf(t))
    BY <2>1 DEF PayableTotal, PayableUnits
  <2>3. \A p \in MembersOf(t) : payable'[p].status = payable[p].status
    BY <1>4 DEF MembersOf
  <2>4. QED  BY <1>1, <2>1, <2>2, <2>3 DEF SettlementFits
<1>7. QED  BY <1>5, <1>6

LEMMA StepSettlements ==
    ASSUME LedgerInv, [LedgerNext]_ledgerAll, NEW t \in Settlement
    PROVE  SettlementFits(t)'
<1>1. CASE LedgerAlone
  BY <1>1, SameMembers DEF LedgerAlone, LedgerInv
<1>2. QED
  BY <1>1, MarkSettlements, CreateSettlements, AppliesSettlements, PaySettlements,
     DropSettlements, LedgerChanges

-----------------------------------------------------------------------------
(* Credits and their applications                                          *)

\* A set of applications that none has joined or left, and that have kept their amounts.
LEMMA SumStays ==
    ASSUME LedgerInv, LedgerGrows, NEW S \in SUBSET Application,
           \A a \in S : application[a].status # "NONE"
    PROVE  Sum(application', S) = Sum(application, S)
<1>1. \A a \in S : application'[a].amount = application[a].amount
  BY DEF LedgerGrows
<1>2. QED  BY <1>1, SumSame

\* A credit and a settlement that a step leaves alone, with their applications.
LEMMA SameCredit ==
    ASSUME LedgerInv, LedgerGrows, NEW c \in Credit, credit'[c] = credit[c],
           ActiveFor(c)' = ActiveFor(c)
    PROVE  CreditFits(c)'
<1>1. Sum(application', ActiveFor(c)) = Sum(application, ActiveFor(c))
  BY SumStays, ActiveTyped DEF ActiveFor
<1>2. CreditFits(c)
  BY DEF LedgerInv
<1>3. QED  BY <1>1, <1>2 DEF CreditFits, LedgerGrows

LEMMA SameDrawn ==
    ASSUME LedgerInv, LedgerGrows, NEW s \in Settlement,
           settlement'[s].credit = settlement[s].credit,
           settlement'[s].status = "NONE" => settlement[s].status = "NONE",
           ActiveOn(s)' = ActiveOn(s)
    PROVE  DrawnFits(s)'
<1>1. Sum(application', ActiveOn(s)) = Sum(application, ActiveOn(s))
  BY SumStays, ActiveTyped DEF ActiveOn
<1>2. DrawnFits(s)
  BY DEF LedgerInv
<1>3. QED  BY <1>1, <1>2 DEF DrawnFits

\* The row of a credit after an amount has been added or taken off.
LEMMA AppliedFits ==
    ASSUME NEW c \in Credit, NEW m \in Int, credit[c].applied \in Nat,
           credit'[c] = Applied(c, m, credit[c].applied),
           credit[c].applied + m = Sum(application', ActiveFor(c)'),
           credit[c].applied + m <= CreditAmount(c), c \in credits'
    PROVE  CreditFits(c)'
<1>1. /\ credit'[c].applied = credit[c].applied + m
      /\ credit'[c].status = CreditStatus(c, credit[c].applied + m)
  BY DEF Applied
<1>2. QED  BY <1>1 DEF CreditFits

\* The sum of a set that an application joins.
LEMMA SumJoins ==
    ASSUME NEW apps, NEW others, Amounts(others), NEW S \in SUBSET Application,
           NEW a \in Application, a \notin S,
           \A b \in S : apps[b].amount = others[b].amount
    PROVE  Sum(others, S \cup {a}) = Sum(apps, S) + others[a].amount
<1>1. Sum(others, S \cup {a}) = Sum(others, S) + Sum(others, {a})
  <2>1. {a} \in SUBSET Application /\ S \cap {a} = {}
    OBVIOUS
  <2>2. QED  BY <2>1, SumSplit
<1>2. Sum(others, S) = Sum(apps, S)
  BY SumSame
<1>3. Sum(others, {a}) = others[a].amount
  BY SumOfOne
<1>4. QED  BY <1>1, <1>2, <1>3

LEMMA ApplySums ==
    ASSUME LedgerInv, LedgerGrows, NEW a \in Application, NEW s \in Settlement,
           NEW c \in Credit, NEW n \in Nat, Applies(a, s, c, n)
    PROVE  /\ \A d \in Credit : CreditFits(d)'
           /\ \A t \in Settlement : DrawnFits(t)'
<1>1. /\ RowsTypeOK /\ Amounts(application)
      /\ settlement[s].credit \in Nat /\ credit[c].applied \in Nat
      /\ CreditFits(c) /\ DrawnFits(s)
  BY ActiveTyped DEF LedgerInv, RowsTypeOK, SettlementRow, CreditRow
<1>2. /\ application[a].status = "NONE"
      /\ application'[a] = [status |-> "ACTIVE", credit |-> c, settlement |-> s, amount |-> n]
      /\ \A b \in Application \ {a} : application'[b] = application[b]
  BY <1>1 DEF Applies, RowsTypeOK
<1>3. Amounts(application')
  <2>1. \A b \in Application : application'[b].amount = IF b = a THEN n ELSE application[b].amount
    BY <1>2
  <2>2. QED  BY <1>1, <2>1 DEF Amounts
<1>4. ASSUME NEW d \in Credit
      PROVE  /\ a \notin ActiveFor(d)
             /\ ActiveFor(d)' = IF d = c THEN ActiveFor(d) \cup {a} ELSE ActiveFor(d)
  BY <1>2 DEF ActiveFor
<1>5. ASSUME NEW t \in Settlement
      PROVE  /\ a \notin ActiveOn(t)
             /\ ActiveOn(t)' = IF t = s THEN ActiveOn(t) \cup {a} ELSE ActiveOn(t)
  BY <1>2 DEF ActiveOn
<1>6. ASSUME NEW S \in SUBSET Application, a \notin S
      PROVE  Sum(application', S \cup {a}) = Sum(application, S) + n
  <2>1. \A b \in S : application[b].amount = application'[b].amount
    BY <1>2, <1>6
  <2>2. application'[a].amount = n
    BY <1>2
  <2>3. Sum(application', S \cup {a}) = Sum(application, S) + application'[a].amount
    BY <1>3, <1>6, <2>1, SumJoins
  <2>4. QED  BY <2>2, <2>3
<1>7. ASSUME NEW d \in Credit PROVE CreditFits(d)'
  <2>1. CASE d = c
    <3>1. Sum(application', ActiveFor(c)') = Sum(application, ActiveFor(c)) + n
      <4>1. Sum(application', ActiveFor(c) \cup {a}) = Sum(application, ActiveFor(c)) + n
        BY <1>4, <1>6, ActiveTyped
      <4>2. ActiveFor(c)' = ActiveFor(c) \cup {a}
        BY <1>4
      <4>3. QED  BY <4>1, <4>2
    <3>2. credit[c].applied = Sum(application, ActiveFor(c))
      BY <1>1 DEF CreditFits
    <3>3. credit'[c] = Applied(c, n, credit[c].applied)
      BY <1>1 DEF Applies, RowsTypeOK
    <3>4. credit[c].applied + n <= CreditAmount(c) /\ c \in credits'
      BY DEF Applies, LedgerGrows
    <3>5. n \in Int /\ credit[c].applied + n = Sum(application', ActiveFor(c)')
      BY <3>1, <3>2
    <3>6. CreditFits(c)'
      BY <1>1, <3>3, <3>4, <3>5, AppliedFits
    <3>7. QED  BY <2>1, <3>6
  <2>2. CASE d # c
    <3>1. credit'[d] = credit[d] /\ ActiveFor(d)' = ActiveFor(d)
      BY <1>1, <1>4, <2>2 DEF Applies, RowsTypeOK
    <3>2. QED  BY <3>1, SameCredit
  <2>3. QED  BY <2>1, <2>2
<1>8. ASSUME NEW t \in Settlement PROVE DrawnFits(t)'
  <2>1. settlement'[t].status = settlement[t].status
    BY <1>1 DEF Applies, RowsTypeOK, SettlementRow
  <2>2. CASE t = s
    <3>1. Sum(application', ActiveOn(s)') = Sum(application, ActiveOn(s)) + n
      <4>1. Sum(application', ActiveOn(s) \cup {a}) = Sum(application, ActiveOn(s)) + n
        BY <1>5, <1>6, ActiveTyped
      <4>2. ActiveOn(s)' = ActiveOn(s) \cup {a}
        BY <1>5
      <4>3. QED  BY <4>1, <4>2
    <3>2. settlement'[s].credit = settlement[s].credit + n /\ settlement[s].status = "DRAFT"
      BY <1>1 DEF Applies, RowsTypeOK, SettlementRow
    <3>3. settlement[s].credit = Sum(application, ActiveOn(s))
      BY <1>1 DEF DrawnFits
    <3>4. DrawnFits(s)'
      BY <2>1, <2>2, <3>1, <3>2, <3>3 DEF DrawnFits
    <3>5. QED  BY <2>2, <3>4
  <2>3. CASE t # s
    <3>1. settlement'[t] = settlement[t] /\ ActiveOn(t)' = ActiveOn(t)
      BY <1>1, <1>5, <2>3 DEF Applies, RowsTypeOK
    <3>2. QED  BY <2>1, <3>1, SameDrawn
  <2>4. QED  BY <2>2, <2>3
<1>9. QED  BY <1>7, <1>8

LEMMA RemoveSums ==
    ASSUME LedgerInv, LedgerGrows, NEW a \in Application, NEW s \in Settlement,
           NEW c \in Credit, NEW n \in Nat, Removes(a, s, c, n)
    PROVE  /\ \A d \in Credit : CreditFits(d)'
           /\ \A t \in Settlement : DrawnFits(t)'
<1>1. /\ RowsTypeOK /\ Amounts(application)
      /\ settlement[s].credit \in Nat /\ credit[c].applied \in Nat
      /\ CreditFits(c) /\ DrawnFits(s)
  BY ActiveTyped DEF LedgerInv, RowsTypeOK, SettlementRow, CreditRow
<1>2. /\ application[a].status = "ACTIVE" /\ application[a].settlement = s
      /\ application[a].credit = c /\ application[a].amount = n
      /\ application'[a].status = "REMOVED"
      /\ \A b \in Application \ {a} : application'[b] = application[b]
  BY <1>1 DEF Removes, RowsTypeOK, ApplicationRow
<1>3. ASSUME NEW d \in Credit
      PROVE  IF d = c THEN /\ ActiveFor(d) = ActiveFor(d)' \cup {a} /\ a \notin ActiveFor(d)'
                      ELSE ActiveFor(d)' = ActiveFor(d)
  BY <1>2 DEF ActiveFor
<1>4. ASSUME NEW t \in Settlement
      PROVE  IF t = s THEN /\ ActiveOn(t) = ActiveOn(t)' \cup {a} /\ a \notin ActiveOn(t)'
                      ELSE ActiveOn(t)' = ActiveOn(t)
  BY <1>2 DEF ActiveOn
<1>5. ASSUME NEW S \in SUBSET Application, a \notin S
      PROVE  /\ Sum(application, S \cup {a}) = Sum(application', S) + n
             /\ Sum(application', S) \in Nat
  <2>1. \A b \in S : application'[b].amount = application[b].amount
    BY <1>2, <1>5
  <2>2. Sum(application, S \cup {a}) = Sum(application', S) + application[a].amount
    BY <1>1, <1>5, <2>1, SumJoins
  <2>3. Sum(application', S) = Sum(application, S)
    BY <2>1, SumSame
  <2>4. QED  BY <1>2, <2>2, <2>3, ActiveTyped
<1>6. ASSUME NEW d \in Credit PROVE CreditFits(d)'
  <2>1. CASE d = c
    <3>1. /\ ActiveFor(c) = ActiveFor(c)' \cup {a} /\ a \notin ActiveFor(c)'
          /\ ActiveFor(c)' \in SUBSET Application
      BY <1>3 DEF ActiveFor
    <3>2. /\ Sum(application, ActiveFor(c)' \cup {a}) = Sum(application', ActiveFor(c)') + n
          /\ Sum(application', ActiveFor(c)') \in Nat
      BY <1>5, <3>1
    <3>3. credit[c].applied = Sum(application', ActiveFor(c)') + n
      <4>1. credit[c].applied = Sum(application, ActiveFor(c))
        BY <1>1 DEF CreditFits
      <4>2. QED  BY <3>1, <3>2, <4>1, Zenon
    <3>4. credit'[c] = Applied(c, -n, credit[c].applied)
      BY <1>1 DEF Removes, RowsTypeOK
    <3>5. /\ -n \in Int /\ credit[c].applied + (-n) = Sum(application', ActiveFor(c)')
          /\ credit[c].applied + (-n) <= CreditAmount(c)
      <4>1. credit[c].applied <= CreditAmount(c) /\ CreditAmount(c) \in Nat
        BY <1>1, CreditAmountTyped DEF CreditFits
      <4>2. QED  BY <1>1, <3>2, <3>3, <4>1
    <3>6. c \in credits'
      <4>1. n > 0
        BY <1>2 DEF LedgerInv, ApplicationsFit
      <4>2. credit[c].applied > 0
        BY <3>2, <3>3, <4>1
      <4>3. QED  BY <1>1, <4>2 DEF CreditFits, LedgerGrows
    <3>7. CreditFits(c)'
      BY <1>1, <3>4, <3>5, <3>6, AppliedFits
    <3>8. QED  BY <2>1, <3>7
  <2>2. CASE d # c
    <3>1. credit'[d] = credit[d] /\ ActiveFor(d)' = ActiveFor(d)
      BY <1>1, <1>3, <2>2 DEF Removes, RowsTypeOK
    <3>2. QED  BY <3>1, SameCredit
  <2>3. QED  BY <2>1, <2>2
<1>7. ASSUME NEW t \in Settlement PROVE DrawnFits(t)'
  <2>1. settlement'[t].status = settlement[t].status
    BY <1>1 DEF Removes, RowsTypeOK, SettlementRow
  <2>2. CASE t = s
    <3>1. /\ ActiveOn(s) = ActiveOn(s)' \cup {a} /\ a \notin ActiveOn(s)'
          /\ ActiveOn(s)' \in SUBSET Application
      BY <1>4 DEF ActiveOn
    <3>2. /\ Sum(application, ActiveOn(s)' \cup {a}) = Sum(application', ActiveOn(s)') + n
          /\ Sum(application', ActiveOn(s)') \in Nat
      BY <1>5, <3>1
    <3>3. settlement[s].credit = Sum(application', ActiveOn(s)') + n
      <4>1. settlement[s].credit = Sum(application, ActiveOn(s))
        BY <1>1 DEF DrawnFits
      <4>2. QED  BY <3>1, <3>2, <4>1, Zenon
    <3>4. settlement'[s].credit = settlement[s].credit - n /\ settlement[s].status = "DRAFT"
      BY <1>1 DEF Removes, RowsTypeOK, SettlementRow
    <3>5. settlement'[s].credit = Sum(application', ActiveOn(s)')
      BY <3>2, <3>3, <3>4
    <3>6. DrawnFits(s)'
      BY <2>1, <2>2, <3>4, <3>5 DEF DrawnFits
    <3>7. QED  BY <2>2, <3>6
  <2>3. CASE t # s
    <3>1. settlement'[t] = settlement[t] /\ ActiveOn(t)' = ActiveOn(t)
      BY <1>1, <1>4, <2>3 DEF Removes, RowsTypeOK
    <3>2. QED  BY <2>1, <3>1, SameDrawn
  <2>4. QED  BY <2>2, <2>3
<1>8. QED  BY <1>6, <1>7

LEMMA DropSums ==
    ASSUME LedgerInv, LedgerGrows, NEW s \in Settlement, Drops(s)
    PROVE  /\ \A d \in Credit : CreditFits(d)'
           /\ \A t \in Settlement : DrawnFits(t)'
<1>1. /\ RowsTypeOK /\ Amounts(application)
  BY ActiveTyped DEF LedgerInv
<1>2. ASSUME NEW b \in Application
      PROVE  /\ application'[b].status =
                   IF b \in ActiveOn(s) THEN "REMOVED" ELSE application[b].status
             /\ application'[b].credit = application[b].credit
             /\ application'[b].settlement = application[b].settlement
  BY <1>1 DEF Drops, RowsTypeOK, ApplicationRow
<1>3. \A d \in Credit : ActiveFor(d)' = ActiveFor(d) \ ActiveOn(s)
  BY <1>2 DEF ActiveFor
<1>4. \A t \in Settlement : ActiveOn(t)' = IF t = s THEN {} ELSE ActiveOn(t)
  BY <1>2 DEF ActiveOn
<1>5. ASSUME NEW d \in Credit PROVE CreditFits(d)'
  <2> DEFINE m == GivenBack(d, ActiveOn(s))
             rest == ActiveFor(d) \ ActiveOn(s)
  <2>1. /\ m \in Nat /\ rest \in SUBSET Application
        /\ credit[d].applied = m + Sum(application, rest)
    BY GivenBackIs
  <2>2. Sum(application, rest) \in Nat /\ CreditFits(d) /\ credit[d].applied \in Nat
    BY <1>1, <2>1, ActiveTyped DEF LedgerInv, RowsTypeOK, CreditRow
  <2>3. Sum(application', ActiveFor(d)') = Sum(application, rest)
    <3>1. Sum(application', rest) = Sum(application, rest)
      BY <2>1, SumStays DEF ActiveFor
    <3>2. QED  BY <1>3, <3>1
  <2>4. credit'[d] = IF m = 0 THEN credit[d] ELSE Applied(d, -m, credit[d].applied)
    BY DEF Drops
  <2> HIDE DEF m, rest
  <2>5. CASE m = 0
    BY <2>1, <2>2, <2>3, <2>4, <2>5 DEF CreditFits, LedgerGrows
  <2>6. CASE m # 0
    <3>1. credit'[d] = Applied(d, -m, credit[d].applied)
      BY <2>4, <2>6
    <3>2. /\ -m \in Int /\ credit[d].applied + (-m) = Sum(application', ActiveFor(d)')
          /\ credit[d].applied + (-m) <= CreditAmount(d)
      <4>1. credit[d].applied <= CreditAmount(d) /\ CreditAmount(d) \in Nat
        BY <2>2, CreditAmountTyped DEF CreditFits
      <4>2. QED  BY <2>1, <2>2, <2>3, <4>1
    <3>3. d \in credits'
      <4>1. credit[d].applied > 0
        BY <2>1, <2>2, <2>6
      <4>2. QED  BY <2>2, <4>1 DEF CreditFits, LedgerGrows
    <3>4. QED  BY <2>2, <3>1, <3>2, <3>3, AppliedFits
  <2>7. QED  BY <2>5, <2>6
<1>6. ASSUME NEW t \in Settlement PROVE DrawnFits(t)'
  <2>1. CASE t = s
    <3>1. settlement'[s].credit = 0
      BY <1>1 DEF Drops, RowsTypeOK, SettlementRow
    <3>2. Sum(application', ActiveOn(s)') = 0
      BY <1>4, SumOfNone
    <3>3. QED  BY <2>1, <3>1, <3>2 DEF DrawnFits
  <2>2. CASE t # s
    <3>1. settlement'[t] = settlement[t] /\ ActiveOn(t)' = ActiveOn(t)
      BY <1>1, <1>4, <2>2 DEF Drops, RowsTypeOK
    <3>2. QED  BY <3>1, SameDrawn
  <2>3. QED  BY <2>1, <2>2
<1>7. QED  BY <1>5, <1>6

LEMMA StepSums ==
    ASSUME LedgerInv, [LedgerNext]_ledgerAll
    PROVE  /\ \A d \in Credit : CreditFits(d)'
           /\ \A t \in Settlement : DrawnFits(t)'
<1> DEFINE Goal == /\ \A d \in Credit : CreditFits(d)'
                   /\ \A t \in Settlement : DrawnFits(t)'
<1>1. LedgerGrows /\ RowsTypeOK
  BY StepGrows DEF LedgerInv
<1>2. ASSUME UNCHANGED <<credit, application>>,
             \A t \in Settlement :
                /\ settlement'[t].credit = settlement[t].credit
                /\ settlement'[t].status = "NONE" => settlement[t].status = "NONE"
      PROVE  Goal
  <2>1. /\ \A d \in Credit : ActiveFor(d)' = ActiveFor(d) /\ credit'[d] = credit[d]
        /\ \A t \in Settlement : ActiveOn(t)' = ActiveOn(t)
    BY <1>2 DEF ActiveFor, ActiveOn
  <2>2. QED  BY <1>1, <1>2, <2>1, SameCredit, SameDrawn
<1>3. ASSUME LedgerAlone \/ \E p \in Payable : MarkPaid(p)
      PROVE  Goal
  BY <1>2, <1>3 DEF LedgerAlone, MarkPaid
<1>4. ASSUME NEW s \in Settlement, NEW ps \in SUBSET Payable, CreateSettlement(s, ps)
      PROVE  Goal
  <2> DEFINE row == [NoSettlement EXCEPT !.status = "DRAFT", !.total = PayableTotal(ps),
                                         !.count = Cardinality(ps)]
  <2>1. row.status = "DRAFT" /\ row.credit = 0
    BY DEF NoSettlement
  <2>2. settlement' = [settlement EXCEPT ![s] = row] /\ settlement[s].status = "NONE"
    BY <1>4 DEF CreateSettlement
  <2> HIDE DEF row
  <2>3. settlement[s].credit = 0
    BY <2>2 DEF LedgerInv, DrawnFits
  <2>4. \A t \in Settlement :
           /\ settlement'[t].credit = settlement[t].credit
           /\ settlement'[t].status = "NONE" => settlement[t].status = "NONE"
    BY <1>1, <2>1, <2>2, <2>3 DEF RowsTypeOK
  <2>5. UNCHANGED <<credit, application>>
    BY <1>4 DEF CreateSettlement
  <2>6. QED  BY <1>2, <2>4, <2>5
<1>5. ASSUME NEW s \in Settlement, Pays(s) PROVE Goal
  <2>1. \A t \in Settlement :
           /\ settlement'[t].credit = settlement[t].credit
           /\ settlement'[t].status = "NONE" => settlement[t].status = "NONE"
    BY <1>1, <1>5 DEF Pays, RowsTypeOK, SettlementRow
  <2>2. UNCHANGED <<credit, application>>
    BY <1>5 DEF Pays
  <2>3. QED  BY <1>2, <2>1, <2>2
<1>6. ASSUME NEW a \in Application, NEW s \in Settlement, NEW c \in Credit, NEW n \in Nat,
             Applies(a, s, c, n) \/ Removes(a, s, c, n)
      PROVE  Goal
  BY <1>1, <1>6, ApplySums, RemoveSums
<1>7. ASSUME NEW s \in Settlement, Drops(s) PROVE Goal
  BY <1>1, <1>7, DropSums
<1> HIDE DEF Goal
<1>8. Goal
  BY <1>3, <1>4, <1>5, <1>6, <1>7, LedgerChanges
<1>9. QED  BY <1>8 DEF Goal

-----------------------------------------------------------------------------
(* The invariant                                                           *)

LEMMA InitLedgerInv == LedgerInit => LedgerInv
<1> SUFFICES ASSUME LedgerInit PROVE LedgerInv
  OBVIOUS
<1>1. /\ \A p \in Payable : payable[p].settlement = NoOne
      /\ \A s \in Settlement : settlement[s] = NoSettlement /\ s # NoOne
      /\ \A c \in Credit : credit[c] = [status |-> "AVAILABLE", applied |-> 0]
      /\ \A a \in Application : application[a] = NoApplication
      /\ \A k \in Keeper : keeper[k] = IdleKeeper
  BY LedgerAssumption DEF LedgerInit
<1>2. RowsTypeOK
  BY DEF LedgerInit, RowsTypeOK, PayableRow, SettlementRow, CreditRow, ApplicationRow,
     KeeperRow, NoSettlement, NoApplication, IdleKeeper
<1>3. ApplicationsFit /\ KeepersFit
  BY <1>1 DEF ApplicationsFit, KeepersFit, KeeperFits, NoApplication, IdleKeeper
<1>4. /\ \A c : ActiveFor(c) = {}
      /\ \A s : ActiveOn(s) = {}
      /\ \A s \in Settlement : MembersOf(s) = {}
  BY <1>1 DEF ActiveFor, ActiveOn, MembersOf, NoApplication
<1>5. Sum(application, {}) = 0
  BY SumOfNone
<1>6. ASSUME NEW s \in Settlement PROVE SettlementFits(s) /\ DrawnFits(s)
  <2>1. settlement[s].status = "NONE" /\ settlement[s].credit = 0
    BY <1>1 DEF NoSettlement
  <2>2. MembersOf(s) = {} /\ ActiveOn(s) = {}
    BY <1>4
  <2>3. SettlementFits(s)
    BY <2>1, <2>2 DEF SettlementFits
  <2>4. DrawnFits(s)
    BY <1>5, <2>1, <2>2 DEF DrawnFits
  <2>5. QED  BY <2>3, <2>4
<1>7. ASSUME NEW c \in Credit PROVE CreditFits(c)
  <2>1. 0 <= CreditAmount(c)
    BY CreditAmountTyped
  <2>2. CreditStatus(c, 0) = "AVAILABLE"
    BY DEF CreditStatus
  <2>3. QED  BY <1>1, <1>4, <1>5, <2>1, <2>2 DEF CreditFits
<1>8. QED  BY <1>2, <1>3, <1>6, <1>7 DEF LedgerInv

LEMMA StepLedgerInv == LedgerInv /\ [LedgerNext]_ledgerAll => LedgerInv'
<1> SUFFICES ASSUME LedgerInv, [LedgerNext]_ledgerAll PROVE LedgerInv'
  OBVIOUS
<1>1. RowsTypeOK' /\ ApplicationsFit' /\ KeepersFit'
  BY StepLedgerTyped, StepGrows, StepKeepers
<1>2. \A s \in Settlement : SettlementFits(s)' /\ DrawnFits(s)'
  BY StepSettlements, StepSums
<1>3. \A c \in Credit : CreditFits(c)'
  BY StepSums
<1>4. QED  BY <1>1, <1>2, <1>3 DEF LedgerInv

LEMMA LedgerInvariant == LedgerSpec => []LedgerInv
BY InitLedgerInv, StepLedgerInv, PTL DEF LedgerSpec

\* The rows of the ledger and of the returns, and what each request has read, have their
\* types.
THEOREM LedgerTypeCorrect == LedgerSpec => []LedgerTypeOK
<1>1. LedgerInv /\ ReturnsTypeOK => LedgerTypeOK
  BY TypesAre DEF LedgerInv
<1>2. QED  BY <1>1, LedgerInvariant, LedgerKeepsReturns, ReturnsTypeCorrect, PTL

\* A settlement is what its payables and credits make it, however payment, cancellation,
\* credits and payables paid by themselves overlap.
THEOREM SettlementsAgree == LedgerSpec => []SettlementsAddUp
<1>1. LedgerInv => SettlementsAddUp
  BY DEF LedgerInv, SettlementFits, SettlementsAddUp
<1>2. QED  BY <1>1, LedgerInvariant, PTL

\* What is applied of a credit and the credit on a settlement are both the sum of the
\* active applications, and only credits that exist are applied.
THEOREM CreditsAgree == LedgerSpec => []CreditsAddUp
<1>1. LedgerInv => CreditsAddUp
  BY SumIs DEF LedgerInv, CreditFits, DrawnFits, CreditsAddUp
<1>2. QED  BY <1>1, LedgerInvariant, PTL

-----------------------------------------------------------------------------
(* What is paid                                                            *)

LEMMA PaidPayablesStay ==
    ASSUME LedgerInv, [LedgerNext]_ledgerAll, NEW p \in Payable, payable[p].status = "PAID"
    PROVE  payable'[p] = payable[p]
<1>1. payable \in [Payable -> PayableRow]
  BY DEF LedgerInv, RowsTypeOK
<1>2. ASSUME NEW q \in Payable, MarkPaid(q) PROVE payable'[p] = payable[p]
  BY <1>1, <1>2 DEF MarkPaid, Free
<1>3. ASSUME NEW s \in Settlement, NEW ps \in SUBSET Payable, CreateSettlement(s, ps)
      PROVE  payable'[p] = payable[p]
  BY <1>3 DEF CreateSettlement, Free
<1>4. ASSUME NEW s \in Settlement, Pays(s) \/ Drops(s) PROVE payable'[p] = payable[p]
  <2>1. p \notin OpenMembers(s)
    BY DEF OpenMembers
  <2>2. QED  BY <1>4, <2>1 DEF Pays, Drops
<1>5. ASSUME UNCHANGED payable PROVE payable'[p] = payable[p]
  BY <1>5
<1>6. QED
  BY <1>2, <1>3, <1>4, <1>5, LedgerChanges DEF LedgerAlone, Applies, Removes

LEMMA ClosedSettlementsStay ==
    ASSUME LedgerInv, [LedgerNext]_ledgerAll, NEW s \in Settlement,
           settlement[s].status \in {"PAID", "CANCELLED"}
    PROVE  settlement'[s] = settlement[s] /\ ActiveOn(s)' = ActiveOn(s)
<1> DEFINE Stays == settlement'[s] = settlement[s] /\ ActiveOn(s)' = ActiveOn(s)
<1>1. RowsTypeOK
  BY DEF LedgerInv
<1>2. ASSUME UNCHANGED application PROVE ActiveOn(s)' = ActiveOn(s)
  BY <1>2 DEF ActiveOn
<1>3. ASSUME LedgerAlone \/ \E p \in Payable : MarkPaid(p) PROVE Stays
  BY <1>2, <1>3 DEF LedgerAlone, MarkPaid
<1>4. ASSUME NEW t \in Settlement, NEW ps \in SUBSET Payable, CreateSettlement(t, ps)
      PROVE  Stays
  BY <1>1, <1>2, <1>4 DEF CreateSettlement, RowsTypeOK
<1>5. ASSUME NEW t \in Settlement, Pays(t) PROVE Stays
  BY <1>1, <1>2, <1>5 DEF Pays, RowsTypeOK
<1>6. ASSUME NEW t \in Settlement, Drops(t) PROVE Stays
  <2>1. t # s /\ settlement'[s] = settlement[s]
    BY <1>1, <1>6 DEF Drops, RowsTypeOK
  <2>2. ASSUME NEW b \in Application
        PROVE  /\ b \in ActiveOn(s) => application'[b] = application[b]
               /\ application'[b].settlement = application[b].settlement
               /\ application'[b].status = "ACTIVE" => application[b].status = "ACTIVE"
    BY <1>1, <1>6, <2>1 DEF Drops, RowsTypeOK, ApplicationRow, ActiveOn
  <2>3. ActiveOn(s)' = ActiveOn(s)
    BY <2>2 DEF ActiveOn
  <2>4. QED  BY <2>1, <2>3
<1>7. ASSUME NEW a \in Application, NEW t \in Settlement, NEW c \in Credit, NEW n \in Nat,
             Applies(a, t, c, n) \/ Removes(a, t, c, n)
      PROVE  Stays
  <2>1. t # s /\ settlement'[s] = settlement[s]
    BY <1>1, <1>7 DEF Applies, Removes, RowsTypeOK
  <2>2. a \notin ActiveOn(s) /\ application'[a].settlement = t
    BY <1>1, <1>7, <2>1 DEF Applies, Removes, RowsTypeOK, ApplicationRow, ActiveOn
  <2>3. \A b \in Application : b # a => application'[b] = application[b]
    BY <1>1, <1>7 DEF Applies, Removes, RowsTypeOK
  <2>4. ActiveOn(s)' = ActiveOn(s)
    BY <2>1, <2>2, <2>3 DEF ActiveOn
  <2>5. QED  BY <2>1, <2>4
<1> HIDE DEF Stays
<1>8. Stays
  BY <1>3, <1>4, <1>5, <1>6, <1>7, LedgerChanges
<1>9. QED  BY <1>8 DEF Stays

\* What has been paid stays paid: its payables and its credits are never free again.
THEOREM PaidStaysPaid == LedgerSpec => PaidIsFinal
<1> DEFINE Final ==
       /\ \A p \in Payable : payable[p].status = "PAID" => payable'[p] = payable[p]
       /\ \A s \in Settlement : settlement[s].status \in {"PAID", "CANCELLED"} =>
             settlement'[s] = settlement[s] /\ ActiveOn(s)' = ActiveOn(s)
<1>1. LedgerInv /\ [LedgerNext]_ledgerAll => [Final]_ledgerAll
  BY PaidPayablesStay, ClosedSettlementsStay
<1>2. QED  BY <1>1, LedgerInvariant, PTL DEF LedgerSpec, PaidIsFinal

-----------------------------------------------------------------------------
(* Refinement of Allowance, credit by credit                               *)

\* The part of a set adds up to a part of the sum.
LEMMA SumPart ==
    ASSUME LedgerInv, NEW T \in SUBSET Application, NEW S \in SUBSET T
    PROVE  Sum(application, S) <= Sum(application, T)
<1> DEFINE rest == T \ S
<1>1. /\ S \in SUBSET Application /\ rest \in SUBSET Application
      /\ S \cup rest = T /\ S \cap rest = {}
  OBVIOUS
<1>2. Sum(application, S \cup rest) = Sum(application, S) + Sum(application, rest)
  BY <1>1, ActiveTyped, SumSplit
<1>3. Sum(application, T) = Sum(application, S) + Sum(application, rest)
  BY <1>1, <1>2, Zenon
<1>4. QED  BY <1>1, <1>3, ActiveTyped

\* The applications of a credit and what they amount to.
LEMMA VoucherIs ==
    ASSUME LedgerInv, NEW c \in Credit
    PROVE  /\ OnPaid(c) \in SUBSET ActiveFor(c) /\ OnPaid(c) \in SUBSET Application
           /\ AmountOfActive(OnPaid(c)) = Sum(application, OnPaid(c))
           /\ AmountOfActive(OnPaid(c))' = Sum(application', OnPaid(c)')
           /\ credit[c].applied \in Nat /\ credit[c].applied <= CreditAmount(c)
           /\ credit[c].applied = Sum(application, ActiveFor(c))
           /\ Sum(application, OnPaid(c)) \in Nat /\ CreditAmount(c) \in Nat
<1>1. OnPaid(c) \in SUBSET ActiveFor(c) /\ OnPaid(c) \in SUBSET Application
  BY ActiveTyped DEF OnPaid
<1>2. AmountOfActive(OnPaid(c))' = Sum(application', OnPaid(c)')
  BY DEF AmountOfActive, Sum, Drawn
<1>3. credit[c].applied \in Nat /\ CreditFits(c)
  BY DEF LedgerInv, RowsTypeOK, CreditRow
<1>4. QED
  BY <1>1, <1>2, <1>3, SumIs, ActiveTyped, CreditAmountTyped DEF CreditFits

\* A step that redeems nothing.
LEMMA SameRedeemed ==
    ASSUME LedgerInv, LedgerGrows, NEW c \in Credit, OnPaid(c)' = OnPaid(c)
    PROVE  UNCHANGED AmountOfActive(OnPaid(c))
<1>1. \A a \in OnPaid(c) : application[a].status # "NONE"
  BY DEF OnPaid, ActiveFor
<1>2. Sum(application', OnPaid(c)) = Sum(application, OnPaid(c))
  BY <1>1, VoucherIs, SumStays
<1>3. QED  BY <1>2, VoucherIs

LEMMA ApplyVoucher ==
    ASSUME LedgerInv, LedgerGrows, NEW a \in Application, NEW s \in Settlement,
           NEW d \in Credit, NEW n \in Nat, Applies(a, s, d, n), NEW c \in Credit
    PROVE  \/ UNCHANGED <<credit[c].applied, AmountOfActive(OnPaid(c))>>
           \/ \E m \in 1..CreditAmount(c) : Voucher(c)!Promise(m)
<1>1. RowsTypeOK
  BY DEF LedgerInv
<1>2. /\ application[a].status = "NONE" /\ settlement[s].status = "DRAFT" /\ n > 0
      /\ credit' = [credit EXCEPT ![d] = Applied(d, n, credit[d].applied)]
      /\ credit[d].applied + n <= CreditAmount(d)
      /\ application'[a].settlement = s
      /\ \A b \in Application : b # a => application'[b] = application[b]
      /\ \A t \in Settlement : settlement'[t].status = settlement[t].status
  BY <1>1 DEF Applies, RowsTypeOK, SettlementRow
<1>3. OnPaid(c)' = OnPaid(c)
  <2>1. a \notin OnPaid(c) /\ a \notin OnPaid(c)'
    BY <1>2 DEF OnPaid, ActiveFor
  <2>2. ASSUME NEW b \in Application, b # a PROVE b \in OnPaid(c)' <=> b \in OnPaid(c)
    <3>1. application'[b] = application[b]
      BY <1>2, <2>2
    <3>2. application[b].status = "ACTIVE" => application[b].settlement \in Settlement
      BY DEF LedgerInv, ApplicationsFit
    <3>3. QED  BY <1>2, <3>1, <3>2 DEF OnPaid, ActiveFor
  <2>3. QED  BY <2>1, <2>2 DEF OnPaid, ActiveFor
<1>4. UNCHANGED AmountOfActive(OnPaid(c))
  BY <1>3, SameRedeemed
<1>5. CASE c = d
  <2>1. credit'[c].applied = credit[c].applied + n
    BY <1>1, <1>2, <1>5 DEF RowsTypeOK, Applied
  <2>2. n \in 1..CreditAmount(c) /\ credit[c].applied + n <= CreditAmount(c)
    BY <1>2, <1>5, VoucherIs
  <2>3. Voucher(c)!Promise(n)
    BY <1>4, <2>1, <2>2 DEF Voucher!Promise
  <2>4. QED  BY <2>2, <2>3
<1>6. CASE c # d
  BY <1>1, <1>2, <1>4, <1>6 DEF RowsTypeOK
<1>7. QED  BY <1>5, <1>6

\* Taking applications of drafts off a credit leaves those on paid settlements.
LEMMA WithdrawVoucher ==
    ASSUME LedgerInv, LedgerGrows, NEW c \in Credit, NEW n \in Nat, n > 0,
           NEW rest \in SUBSET ActiveFor(c), OnPaid(c) \subseteq rest,
           credit[c].applied = n + Sum(application, rest),
           credit'[c].applied = credit[c].applied - n, OnPaid(c)' = OnPaid(c)
    PROVE  n \in 1..CreditAmount(c) /\ Voucher(c)!Withdraw(n)
<1>1. UNCHANGED AmountOfActive(OnPaid(c))
  BY SameRedeemed
<1>2. rest \in SUBSET Application
  BY ActiveTyped
<1>3. Sum(application, OnPaid(c)) <= Sum(application, rest) /\ Sum(application, rest) \in Nat
  BY <1>2, SumPart, ActiveTyped
<1>4. /\ credit[c].applied \in Nat /\ credit[c].applied <= CreditAmount(c)
      /\ CreditAmount(c) \in Nat
      /\ AmountOfActive(OnPaid(c)) = Sum(application, OnPaid(c))
      /\ Sum(application, OnPaid(c)) \in Nat
  BY VoucherIs
<1>5. n \in 1..CreditAmount(c)
  BY <1>3, <1>4
<1>6. AmountOfActive(OnPaid(c)) <= credit[c].applied - n
  BY <1>3, <1>4
<1>7. QED  BY <1>1, <1>5, <1>6 DEF Voucher!Withdraw

LEMMA RemoveVoucher ==
    ASSUME LedgerInv, LedgerGrows, NEW a \in Application, NEW s \in Settlement,
           NEW d \in Credit, NEW n \in Nat, Removes(a, s, d, n), NEW c \in Credit
    PROVE  \/ UNCHANGED <<credit[c].applied, AmountOfActive(OnPaid(c))>>
           \/ \E m \in 1..CreditAmount(c) : Voucher(c)!Withdraw(m)
<1>1. RowsTypeOK
  BY DEF LedgerInv
<1>2. /\ application[a].status = "ACTIVE" /\ settlement[s].status = "DRAFT"
      /\ application[a].settlement = s /\ application[a].credit = d
      /\ application[a].amount = n
      /\ credit' = [credit EXCEPT ![d] = Applied(d, -n, credit[d].applied)]
      /\ application'[a].status = "REMOVED"
      /\ \A b \in Application : b # a => application'[b] = application[b]
      /\ \A t \in Settlement : settlement'[t].status = settlement[t].status
  BY <1>1 DEF Removes, RowsTypeOK, SettlementRow, ApplicationRow
<1>3. OnPaid(c)' = OnPaid(c)
  <2>1. a \notin OnPaid(c) /\ a \notin OnPaid(c)'
    BY <1>2 DEF OnPaid, ActiveFor
  <2>2. ASSUME NEW b \in Application, b # a PROVE b \in OnPaid(c)' <=> b \in OnPaid(c)
    <3>1. application'[b] = application[b]
      BY <1>2, <2>2
    <3>2. application[b].status = "ACTIVE" => application[b].settlement \in Settlement
      BY DEF LedgerInv, ApplicationsFit
    <3>3. QED  BY <1>2, <3>1, <3>2 DEF OnPaid, ActiveFor
  <2>3. QED  BY <2>1, <2>2 DEF OnPaid, ActiveFor
<1>4. CASE c = d
  <2> DEFINE rest == ActiveFor(c) \ {a}
  <2>1. a \in ActiveFor(c) /\ n > 0
    BY <1>2, <1>4 DEF ActiveFor, LedgerInv, ApplicationsFit
  <2>2. rest \in SUBSET ActiveFor(c) /\ OnPaid(c) \subseteq rest
    BY <1>2 DEF OnPaid
  <2>3. credit[c].applied = n + Sum(application, rest)
    <3>1. /\ rest \in SUBSET Application /\ a \notin rest /\ rest \cup {a} = ActiveFor(c)
      BY <2>1, ActiveTyped
    <3>2. Sum(application, rest \cup {a}) = Sum(application, rest) + application[a].amount
      BY <3>1, ActiveTyped, SumJoins
    <3>3. Sum(application, ActiveFor(c)) = Sum(application, rest) + n
      BY <1>2, <3>1, <3>2, Zenon
    <3>4. Sum(application, rest) \in Nat
      BY <3>1, ActiveTyped
    <3>5. QED  BY <3>3, <3>4, VoucherIs
  <2>4. credit'[c].applied = credit[c].applied - n
    <3>1. credit'[c].applied = credit[c].applied + (-n)
      BY <1>1, <1>2, <1>4 DEF RowsTypeOK, Applied
    <3>2. QED  BY <3>1, VoucherIs
  <2> HIDE DEF rest
  <2>5. n \in 1..CreditAmount(c) /\ Voucher(c)!Withdraw(n)
    BY <1>3, <2>1, <2>2, <2>3, <2>4, WithdrawVoucher
  <2>6. QED  BY <2>5
<1>5. CASE c # d
  BY <1>1, <1>2, <1>3, <1>5, SameRedeemed DEF RowsTypeOK
<1>6. QED  BY <1>4, <1>5

LEMMA DropVoucher ==
    ASSUME LedgerInv, LedgerGrows, NEW s \in Settlement, Drops(s), NEW c \in Credit
    PROVE  \/ UNCHANGED <<credit[c].applied, AmountOfActive(OnPaid(c))>>
           \/ \E m \in 1..CreditAmount(c) : Voucher(c)!Withdraw(m)
<1> DEFINE n == GivenBack(c, ActiveOn(s))
           rest == ActiveFor(c) \ ActiveOn(s)
<1>1. RowsTypeOK
  BY DEF LedgerInv
<1>2. /\ settlement[s].status = "DRAFT" /\ settlement'[s].status = "CANCELLED"
      /\ \A t \in Settlement : t # s => settlement'[t] = settlement[t]
      /\ \A b \in Application : b \in ActiveOn(s) => application'[b].status = "REMOVED"
      /\ \A b \in Application : b \notin ActiveOn(s) => application'[b] = application[b]
      /\ credit'[c] = IF n = 0 THEN credit[c] ELSE Applied(c, -n, credit[c].applied)
  BY <1>1 DEF Drops, RowsTypeOK, SettlementRow, ApplicationRow
<1>3. /\ n \in Nat /\ rest \in SUBSET ActiveFor(c)
      /\ credit[c].applied = n + Sum(application, rest)
  BY GivenBackIs
<1>4. OnPaid(c) \subseteq rest
  BY <1>2 DEF OnPaid, ActiveOn
<1>5. OnPaid(c)' = OnPaid(c)
  <2>1. ASSUME NEW b \in Application PROVE b \in OnPaid(c)' <=> b \in OnPaid(c)
    <3>1. CASE b \in ActiveOn(s)
      <4>1. b \notin OnPaid(c)'
        BY <1>2, <3>1 DEF OnPaid, ActiveFor
      <4>2. b \notin OnPaid(c)
        BY <1>4, <3>1
      <4>3. QED  BY <4>1, <4>2
    <3>2. CASE b \notin ActiveOn(s)
      <4>1. application'[b] = application[b]
        BY <1>2, <3>2
      <4>2. application[b].status = "ACTIVE" =>
               application[b].settlement \in Settlement /\ application[b].settlement # s
        BY <3>2 DEF LedgerInv, ApplicationsFit, ActiveOn
      <4>3. QED  BY <1>2, <4>1, <4>2 DEF OnPaid, ActiveFor
    <3>3. QED  BY <3>1, <3>2
  <2>2. QED  BY <2>1 DEF OnPaid, ActiveFor
<1> HIDE DEF n, rest
<1>6. CASE n = 0
  BY <1>2, <1>5, <1>6, SameRedeemed
<1>7. CASE n # 0
  <2>1. credit'[c].applied = credit[c].applied + (-n)
    BY <1>2, <1>7 DEF Applied
  <2>2. credit'[c].applied = credit[c].applied - n /\ n > 0
    BY <1>3, <1>7, <2>1, VoucherIs
  <2>3. n \in 1..CreditAmount(c) /\ Voucher(c)!Withdraw(n)
    BY <1>3, <1>4, <1>5, <2>2, WithdrawVoucher
  <2>4. QED  BY <2>3
<1>8. QED  BY <1>6, <1>7

\* Payment redeems the applications on the settlement.
LEMMA PayVoucher ==
    ASSUME LedgerInv, LedgerGrows, NEW s \in Settlement, Pays(s), NEW c \in Credit
    PROVE  \/ UNCHANGED <<credit[c].applied, AmountOfActive(OnPaid(c))>>
           \/ \E m \in 1..CreditAmount(c) : Voucher(c)!Redeem(m)
<1> DEFINE new == {a \in ActiveFor(c) : application[a].settlement = s}
           n == Sum(application, new)
           old == OnPaid(c)
<1>1. RowsTypeOK
  BY DEF LedgerInv
<1>2. /\ settlement[s].status = "DRAFT" /\ settlement'[s].status = "PAID"
      /\ \A t \in Settlement : t # s => settlement'[t] = settlement[t]
      /\ UNCHANGED <<credit, application>>
  BY <1>1 DEF Pays, RowsTypeOK, SettlementRow
<1>3. /\ new \in SUBSET Application /\ old \in SUBSET Application
      /\ new \in SUBSET ActiveFor(c) /\ old \in SUBSET ActiveFor(c)
      /\ old \cap new = {}
  BY <1>2, ActiveTyped DEF OnPaid
<1>4. OnPaid(c)' = old \cup new
  <2>1. ASSUME NEW a \in ActiveFor(c)
        PROVE  settlement'[application[a].settlement].status = "PAID"
                  <=> a \in old \/ a \in new
    <3>1. application[a].settlement \in Settlement
      BY DEF LedgerInv, ApplicationsFit, ActiveFor
    <3>2. QED  BY <1>2, <3>1 DEF OnPaid
  <2>2. ActiveFor(c)' = ActiveFor(c)
    BY <1>2 DEF ActiveFor
  <2>3. OnPaid(c)' = {a \in ActiveFor(c) :
                        settlement'[application[a].settlement].status = "PAID"}
    BY <1>2, <2>2 DEF OnPaid
  <2>4. QED  BY <1>3, <2>1, <2>3
<1>5. Sum(application, old \cup new) = Sum(application, old) + n
  BY <1>3, ActiveTyped, SumSplit
<1>6. AmountOfActive(OnPaid(c))' = Sum(application, old) + n
  <2>1. AmountOfActive(OnPaid(c))' = Sum(application', OnPaid(c)')
    BY VoucherIs
  <2>2. Sum(application', OnPaid(c)') = Sum(application, old \cup new)
    BY <1>2, <1>4
  <2>3. QED  BY <1>5, <2>1, <2>2
<1>7. Sum(application, old \cup new) <= Sum(application, ActiveFor(c))
  <2>1. old \cup new \in SUBSET ActiveFor(c) /\ ActiveFor(c) \in SUBSET Application
    BY <1>3, ActiveTyped
  <2>2. QED  BY <2>1, SumPart
<1>8. /\ n \in Nat /\ AmountOfActive(old) = Sum(application, old)
      /\ Sum(application, old) \in Nat
  BY <1>3, ActiveTyped, VoucherIs
<1> HIDE DEF n, old
<1>9. UNCHANGED credit[c].applied
  BY <1>2
<1>10. CASE n = 0
  <2>1. AmountOfActive(OnPaid(c))' = AmountOfActive(OnPaid(c))
    BY <1>6, <1>8, <1>10 DEF old
  <2>2. QED  BY <1>9, <2>1
<1>11. CASE n # 0
  <2>1. /\ Sum(application, old) + n <= credit[c].applied
        /\ credit[c].applied <= CreditAmount(c)
        /\ CreditAmount(c) \in Nat /\ credit[c].applied \in Nat
    BY <1>5, <1>7, VoucherIs
  <2>2. n \in 1..CreditAmount(c)
    BY <1>8, <1>11, <2>1
  <2>3. Voucher(c)!Redeem(n)
    BY <1>6, <1>8, <1>9, <2>1 DEF Voucher!Redeem, old
  <2>4. QED  BY <2>2, <2>3
<1>12. QED  BY <1>10, <1>11

LEMMA StepVoucher ==
    ASSUME LedgerInv, [LedgerNext]_ledgerAll, NEW c \in Credit
    PROVE  [Voucher(c)!Next]_<<credit[c].applied, AmountOfActive(OnPaid(c))>>
<1> DEFINE Moves == \E m \in 1..CreditAmount(c) :
               Voucher(c)!Promise(m) \/ Voucher(c)!Redeem(m) \/ Voucher(c)!Withdraw(m)
           Goal == Moves \/ UNCHANGED <<credit[c].applied, AmountOfActive(OnPaid(c))>>
<1>1. LedgerGrows /\ RowsTypeOK
  BY StepGrows DEF LedgerInv
<1>2. ASSUME UNCHANGED <<credit, application>>,
             \A t \in Settlement :
                settlement'[t].status = "PAID" <=> settlement[t].status = "PAID"
      PROVE  Goal
  <2>1. \A a \in ActiveFor(c) : application[a].settlement \in Settlement
    BY DEF LedgerInv, ApplicationsFit, ActiveFor
  <2>2. OnPaid(c)' = OnPaid(c)
    BY <1>2, <2>1 DEF OnPaid, ActiveFor
  <2>3. UNCHANGED AmountOfActive(OnPaid(c))
    BY <1>1, <2>2, SameRedeemed
  <2>4. QED  BY <1>2, <2>3
<1>3. ASSUME LedgerAlone \/ \E p \in Payable : MarkPaid(p) PROVE Goal
  BY <1>2, <1>3 DEF LedgerAlone, MarkPaid
<1>4. ASSUME NEW s \in Settlement, NEW ps \in SUBSET Payable, CreateSettlement(s, ps)
      PROVE  Goal
  <2> DEFINE row == [NoSettlement EXCEPT !.status = "DRAFT", !.total = PayableTotal(ps),
                                         !.count = Cardinality(ps)]
  <2>1. /\ row.status = "DRAFT" /\ settlement[s].status = "NONE"
        /\ settlement' = [settlement EXCEPT ![s] = row]
        /\ UNCHANGED <<credit, application>>
    BY <1>4 DEF CreateSettlement, NoSettlement
  <2> HIDE DEF row
  <2>2. \A t \in Settlement :
           settlement'[t].status = "PAID" <=> settlement[t].status = "PAID"
    BY <1>1, <2>1 DEF RowsTypeOK
  <2>3. QED  BY <1>2, <2>1, <2>2
<1>5. ASSUME NEW a \in Application, NEW s \in Settlement, NEW d \in Credit, NEW n \in Nat,
             Applies(a, s, d, n) \/ Removes(a, s, d, n)
      PROVE  Goal
  BY <1>1, <1>5, ApplyVoucher, RemoveVoucher
<1>6. ASSUME NEW s \in Settlement, Pays(s) \/ Drops(s) PROVE Goal
  BY <1>1, <1>6, PayVoucher, DropVoucher
<1> HIDE DEF Goal
<1>7. Goal
  BY <1>3, <1>4, <1>5, <1>6, LedgerChanges
<1>8. QED  BY <1>7 DEF Goal, Voucher!Next

\* Credits are given out as Allowance says: no part of one is applied twice, redeemed
\* without being applied, or given back once redeemed.
THEOREM CreditsImplementAllowance == LedgerSpec => CreditsKeepAllowance
<1>1. LedgerInit => \A c \in Credit : Voucher(c)!Init
  <2> SUFFICES ASSUME LedgerInit, NEW c \in Credit PROVE Voucher(c)!Init
    OBVIOUS
  <2>1. credit[c].applied = 0
    BY DEF LedgerInit
  <2>2. OnPaid(c) = {}
    BY DEF LedgerInit, OnPaid, ActiveFor, NoApplication
  <2>3. AmountOfActive(OnPaid(c)) = 0
    BY <2>2, SumIs, SumOfNone
  <2>4. QED  BY <2>1, <2>3 DEF Voucher!Init
<1>2. LedgerInv /\ [LedgerNext]_ledgerAll =>
          [\A c \in Credit :
              [Voucher(c)!Next]_<<credit[c].applied, AmountOfActive(OnPaid(c))>>]_ledgerAll
  BY StepVoucher
<1>3. QED
  BY <1>1, <1>2, LedgerInvariant, PTL DEF LedgerSpec, CreditsKeepAllowance

\* Of no supplier credit more is applied than it is worth, and no more is used up by paid
\* settlements than is applied (applyCredit, removeCredit, pay and cancel of
\* supplier-settlements.service.ts).
THEOREM CreditsWithinWorth == LedgerSpec => [](\A c \in Credit : Voucher(c)!WithinLimit)
<1>0. \A c \in Credit : CreditAmount(c) \in Nat
  BY CreditAmountTyped
<1>1. (\A c \in Credit : Voucher(c)!Init) => \A c \in Credit : Voucher(c)!WithinLimit
  BY <1>0 DEF Voucher!Init, Voucher!WithinLimit
<1>2. /\ \A c \in Credit : Voucher(c)!WithinLimit
      /\ [\A c \in Credit :
             [Voucher(c)!Next]_<<credit[c].applied, AmountOfActive(OnPaid(c))>>]_ledgerAll
      => (\A c \in Credit : Voucher(c)!WithinLimit)'
  <2>1. ASSUME NEW c \in Credit, Voucher(c)!WithinLimit,
               [Voucher(c)!Next]_<<credit[c].applied, AmountOfActive(OnPaid(c))>>
        PROVE  Voucher(c)!WithinLimit'
    BY <1>0, <2>1
    DEF Voucher!WithinLimit, Voucher!Next, Voucher!Promise, Voucher!Redeem, Voucher!Withdraw
  <2>2. ASSUME UNCHANGED ledgerAll, NEW c \in Credit
        PROVE  UNCHANGED <<credit[c].applied, AmountOfActive(OnPaid(c))>>
    BY <2>2 DEF ledgerAll, ledgerVars, OnPaid, ActiveFor, AmountOfActive
  <2>3. QED  BY <2>1, <2>2
<1>3. QED
  BY <1>1, <1>2, CreditsImplementAllowance, PTL DEF CreditsKeepAllowance

=============================================================================
