--------------------------- MODULE SupplierLedger ---------------------------
(***************************************************************************)
(* What the shop owes one supplier (payables, from the orders it has been  *)
(* paid for) and what the supplier owes back (credits, from returns sent   *)
(* on to it), and how both are set off: payables are paid one by one or    *)
(* collected in a settlement, which is a draft until it is paid or         *)
(* cancelled and which credits may be applied to.                          *)
(*                                                                         *)
(* The module extends OrderReturns: a credit exists once receive() has     *)
(* created it.  Operations on a settlement read its totals first and claim *)
(* them by value, so they are a read and a commit here; a failed commit    *)
(* leaves no trace.                                                        *)
(***************************************************************************)
EXTENDS OrderReturns

CONSTANTS
    Payable,      \* rows of SupplierPayable
    PayableOf,    \* what the shop owes with each
    Price,        \* unitSupplierPriceToman of each item
    Settlement,
    Application,  \* credit applications, named by their idempotency keys
    Keeper,       \* concurrent requests of staff about settlements
    NoOne         \* no settlement, application or credit

ASSUME LedgerAssumption ==
    /\ IsFiniteSet(Payable) /\ IsFiniteSet(Application)
    /\ PayableOf \in [Payable -> Nat \ {0}]
    /\ Price \in [Supplied -> Nat \ {0}]
    /\ NoOne \notin Settlement \cup Application \cup ReturnItem

VARIABLES
    payable,      \* status and settlementId of each payable
    settlement,   \* status, totalAmountToman, payableCount, creditAppliedToman, paid
    credit,       \* appliedAmountToman and status of each credit
    application,  \* status, credit, settlement and amount of each application
    keeper        \* what each request is doing and what it has read

ledgerVars == <<payable, settlement, credit, application, keeper>>
ledgerAll == <<returnVars, ledgerVars>>

-----------------------------------------------------------------------------
(* Types                                                                   *)

\* Credits are named by the return item they are for; those of items without a
\* supplier never come to exist.
Credit == {ri \in ReturnItem : ri[2] \in Supplied}

CreditAmount(c) == Price[c[2]] * Wanted[c[1]][c[2]]

NoSettlement == [status |-> "NONE", total |-> 0, count |-> 0, credit |-> 0, paid |-> 0]

NoApplication == [status |-> "NONE", credit |-> NoOne, settlement |-> NoOne, amount |-> 0]

IdleKeeper == [step |-> "IDLE", settlement |-> NoOne, application |-> NoOne,
               credit |-> NoOne, amount |-> 0, drawn |-> 0, applied |-> 0, active |-> {}]

LedgerTypeOK ==
    /\ ReturnsTypeOK
    /\ payable \in [Payable -> [status: {"OPEN", "PAID"},
                                settlement: Settlement \cup {NoOne}]]
    /\ settlement \in [Settlement -> [status: {"NONE", "DRAFT", "PAID", "CANCELLED"},
                                      total: Nat, count: Nat, credit: Nat, paid: Nat]]
    /\ credit \in [Credit -> [status: {"AVAILABLE", "PARTIALLY_APPLIED", "APPLIED"},
                              applied: Nat]]
    /\ application \in [Application -> [status: {"NONE", "ACTIVE", "REMOVED"},
                                        credit: Credit \cup {NoOne},
                                        settlement: Settlement \cup {NoOne}, amount: Nat]]
    /\ keeper \in [Keeper -> [step: {"IDLE", "APPLY", "REMOVE", "PAY", "CANCEL"},
                              settlement: Settlement \cup {NoOne},
                              application: Application \cup {NoOne},
                              credit: Credit \cup {NoOne}, amount: Nat,
                              drawn: Nat, applied: Nat, active: SUBSET Application]]

LedgerInit ==
    /\ ReturnsInit
    /\ payable = [p \in Payable |-> [status |-> "OPEN", settlement |-> NoOne]]
    /\ settlement = [s \in Settlement |-> NoSettlement]
    /\ credit = [c \in Credit |-> [status |-> "AVAILABLE", applied |-> 0]]
    /\ application = [a \in Application |-> NoApplication]
    /\ keeper = [k \in Keeper |-> IdleKeeper]

-----------------------------------------------------------------------------
(* Payables                                                                *)

\* Sums over sets, unit by unit.
PayableUnits(S) == UNION {{p} \X (1..PayableOf[p]) : p \in S}
PayableTotal(S) == Cardinality(PayableUnits(S))

Free(p) == payable[p].status = "OPEN" /\ payable[p].settlement = NoOne

MembersOf(s) == {p \in Payable : payable[p].settlement = s}

\* Mutant: a payable that is in a settlement can be paid by itself.
PayOpenPayable(p) ==
    /\ payable[p].status = "OPEN"
    /\ payable' = [payable EXCEPT ![p].status = "PAID"]
    /\ UNCHANGED <<returnVars, settlement, credit, application, keeper>>

\* markPaid
MarkPaid(p) ==
    /\ Free(p)
    /\ payable' = [payable EXCEPT ![p].status = "PAID"]
    /\ UNCHANGED <<returnVars, settlement, credit, application, keeper>>

\* create: all the payables are claimed with the settlement, or none.
CreateSettlement(s, ps) ==
    /\ settlement[s].status = "NONE"
    /\ ps # {}
    /\ \A p \in ps : Free(p)
    /\ settlement' = [settlement EXCEPT ![s] =
          [NoSettlement EXCEPT !.status = "DRAFT", !.total = PayableTotal(ps),
                               !.count = Cardinality(ps)]]
    /\ payable' = [p \in Payable |->
          IF p \in ps THEN [payable[p] EXCEPT !.settlement = s] ELSE payable[p]]
    /\ UNCHANGED <<returnVars, credit, application, keeper>>

-----------------------------------------------------------------------------
(* Reads of the operations on a draft                                      *)

Reads(k, what) ==
    /\ keeper[k].step = "IDLE"
    /\ keeper' = [keeper EXCEPT ![k] = what]
    /\ UNCHANGED <<returnVars, payable, settlement, credit, application>>

ActiveOn(s) == {a \in Application : application[a].status = "ACTIVE"
                                    /\ application[a].settlement = s}

ApplyReads(k, a, s, c, n) ==
    /\ application[a].status = "NONE"
    /\ settlement[s].status = "DRAFT"
    /\ c \in credits
    /\ n <= settlement[s].total - settlement[s].credit
    /\ n <= CreditAmount(c) - credit[c].applied
    /\ Reads(k, [step |-> "APPLY", settlement |-> s, application |-> a, credit |-> c,
                 amount |-> n, drawn |-> settlement[s].credit,
                 applied |-> credit[c].applied, active |-> {}])

RemoveReads(k, a) ==
    LET app == application[a] IN
    /\ app.status = "ACTIVE"
    /\ settlement[app.settlement].status = "DRAFT"
    /\ settlement[app.settlement].credit >= app.amount
    /\ credit[app.credit].applied >= app.amount
    /\ Reads(k, [step |-> "REMOVE", settlement |-> app.settlement, application |-> a,
                 credit |-> app.credit, amount |-> app.amount,
                 drawn |-> settlement[app.settlement].credit,
                 applied |-> credit[app.credit].applied, active |-> {}])

AmountOfActive(S) == Cardinality(UNION {{a} \X (1..application[a].amount) : a \in S})

\* pay and cancel check that the settlement adds up before they touch it.
CloseReads(k, s, step) ==
    /\ step \in {"PAY", "CANCEL"}
    /\ settlement[s].status = "DRAFT"
    /\ AmountOfActive(ActiveOn(s)) = settlement[s].credit
    /\ step = "PAY" =>
          /\ Cardinality(MembersOf(s)) = settlement[s].count
          /\ \A p \in MembersOf(s) : payable[p].status = "OPEN"
          /\ PayableTotal(MembersOf(s)) = settlement[s].total
          /\ settlement[s].credit <= settlement[s].total
    /\ Reads(k, [IdleKeeper EXCEPT !.step = step, !.settlement = s,
                                   !.drawn = settlement[s].credit,
                                   !.active = IF step = "CANCEL" THEN ActiveOn(s) ELSE {}])

-----------------------------------------------------------------------------
(* Commits                                                                 *)

\* Mutant: the status of the settlement is not claimed.
TotalAsRead(k) == settlement[keeper[k].settlement].credit = keeper[k].drawn

\* The settlement is still a draft and its credit total the one read.
DraftAsRead(k) ==
    LET s == keeper[k].settlement IN
    settlement[s].status = "DRAFT" /\ settlement[s].credit = keeper[k].drawn

\* Mutant: the balance of the credit is not claimed.
CreditAsItIs(k) == credit[keeper[k].credit].status # "APPLIED"

CreditAsRead(k) == credit[keeper[k].credit].applied = keeper[k].applied

CreditStatus(c, applied) ==
    CASE applied = 0 -> "AVAILABLE"
      [] applied > 0 /\ applied = CreditAmount(c) -> "APPLIED"
      [] OTHER -> "PARTIALLY_APPLIED"

\* Mutant: what is applied is taken off the balance, and the reverse.
AppliedBackwards(c, n, read) ==
    [status |-> CreditStatus(c, read + n), applied |-> credit[c].applied - n]

\* The row of a credit after an amount has been added to what is applied of it (or
\* taken off); the status is computed from the balance that was read.
Applied(c, n, read) ==
    [status |-> CreditStatus(c, read + n), applied |-> credit[c].applied + n]

Commits(k, step) ==
    /\ keeper[k].step = step
    /\ keeper' = [keeper EXCEPT ![k] = IdleKeeper]
    /\ UNCHANGED returnVars

\* applyCredit; the idempotency key is unique.
ApplyCredit(k) ==
    LET read == keeper[k] IN
    /\ Commits(k, "APPLY")
    /\ application[read.application].status = "NONE"
    /\ DraftAsRead(k)
    /\ CreditAsRead(k)
    /\ credit[read.credit].status # "APPLIED"
    /\ settlement' = [settlement EXCEPT ![read.settlement].credit = @ + read.amount]
    /\ credit' = [credit EXCEPT ![read.credit] =
          Applied(read.credit, read.amount, read.applied)]
    /\ application' = [application EXCEPT ![read.application] =
          [status |-> "ACTIVE", credit |-> read.credit, settlement |-> read.settlement,
           amount |-> read.amount]]
    /\ UNCHANGED payable

StillActive(a) == application[a].status = "ACTIVE"

\* removeCredit
RemoveCredit(k) ==
    LET read == keeper[k] IN
    /\ Commits(k, "REMOVE")
    /\ DraftAsRead(k)
    /\ CreditAsRead(k)
    /\ StillActive(read.application)
    /\ settlement' = [settlement EXCEPT ![read.settlement].credit = @ - read.amount]
    /\ credit' = [credit EXCEPT ![read.credit] =
          Applied(read.credit, -read.amount, read.applied)]
    /\ application' = [application EXCEPT ![read.application].status = "REMOVED"]
    /\ UNCHANGED payable

OpenMembers(s) == {p \in MembersOf(s) : payable[p].status = "OPEN"}

\* pay
PaySettlement(k) ==
    LET s == keeper[k].settlement IN
    /\ Commits(k, "PAY")
    /\ DraftAsRead(k)
    /\ Cardinality(OpenMembers(s)) = settlement[s].count
    /\ payable' = [p \in Payable |->
          IF p \in OpenMembers(s) THEN [payable[p] EXCEPT !.status = "PAID"] ELSE payable[p]]
    /\ settlement' = [settlement EXCEPT ![s] = [settlement[s] EXCEPT
          !.status = "PAID", !.paid = settlement[s].total - keeper[k].drawn]]
    /\ UNCHANGED <<credit, application>>

\* What is given back to a credit when its applications of a set are removed.
GivenBack(c, S) == AmountOfActive({a \in S : application[a].credit = c})

\* Mutant: the credits applied to a cancelled settlement stay used.
CancelKeepsCredits(k) ==
    LET s == keeper[k].settlement IN
    /\ Commits(k, "CANCEL")
    /\ DraftAsRead(k)
    /\ payable' = [p \in Payable |->
          IF p \in OpenMembers(s) THEN [payable[p] EXCEPT !.settlement = NoOne] ELSE payable[p]]
    /\ settlement' = [settlement EXCEPT ![s] = [settlement[s] EXCEPT
          !.status = "CANCELLED", !.credit = 0]]
    /\ UNCHANGED <<credit, application>>

\* cancel: the payables and the credits are free again.
CancelSettlement(k) ==
    LET s == keeper[k].settlement
        gone == keeper[k].active IN
    /\ Commits(k, "CANCEL")
    /\ DraftAsRead(k)
    /\ Cardinality(OpenMembers(s)) = settlement[s].count
    /\ \A a \in gone : StillActive(a)
    /\ payable' = [p \in Payable |->
          IF p \in OpenMembers(s) THEN [payable[p] EXCEPT !.settlement = NoOne] ELSE payable[p]]
    /\ credit' = [c \in Credit |->
          IF GivenBack(c, gone) = 0 THEN credit[c]
          ELSE Applied(c, -GivenBack(c, gone), credit[c].applied)]
    /\ application' = [a \in Application |->
          IF a \in gone THEN [application[a] EXCEPT !.status = "REMOVED"] ELSE application[a]]
    /\ settlement' = [settlement EXCEPT ![s] = [settlement[s] EXCEPT
          !.status = "CANCELLED", !.credit = 0]]

KeeperEnds(k) ==
    /\ keeper[k].step # "IDLE"
    /\ keeper' = [keeper EXCEPT ![k] = IdleKeeper]
    /\ UNCHANGED <<returnVars, payable, settlement, credit, application>>

-----------------------------------------------------------------------------
(* Specification                                                           *)

KeeperReads(k) ==
    \/ \E a \in Application :
          \/ \E s \in Settlement, c \in Credit :
                \E n \in 1..CreditAmount(c) : ApplyReads(k, a, s, c, n)
          \/ RemoveReads(k, a)
    \/ \E s \in Settlement, step \in {"PAY", "CANCEL"} : CloseReads(k, s, step)

LedgerNext ==
    \/ ReturnsNext /\ UNCHANGED ledgerVars
    \/ \E p \in Payable : MarkPaid(p)
    \/ \E s \in Settlement, ps \in SUBSET Payable : CreateSettlement(s, ps)
    \/ \E k \in Keeper :
          \/ KeeperReads(k)
          \/ ApplyCredit(k) \/ RemoveCredit(k) \/ PaySettlement(k) \/ CancelSettlement(k)
          \/ KeeperEnds(k)

LedgerSpec == LedgerInit /\ [][LedgerNext]_ledgerAll

-----------------------------------------------------------------------------
(* Properties                                                              *)

\* A settlement is what its payables and credits make it: a draft holds open payables of
\* its total, a paid one has paid exactly them, with credit and money together, and a
\* cancelled one holds none, whatever payments, other settlements and changes of its
\* credits it raced with (create, pay, cancel, markPaid).
SettlementsAddUp ==
    \A s \in Settlement :
        /\ settlement[s].status \in {"DRAFT", "PAID"} =>
              /\ settlement[s].total = PayableTotal(MembersOf(s))
              /\ settlement[s].credit <= settlement[s].total
        /\ settlement[s].status \in {"NONE", "CANCELLED"} => MembersOf(s) = {}
        /\ settlement[s].status = "PAID" =>
              settlement[s].paid + settlement[s].credit = settlement[s].total
        /\ \A p \in MembersOf(s) :
              payable[p].status = IF settlement[s].status = "PAID" THEN "PAID" ELSE "OPEN"

ActiveFor(c) == {a \in Application : application[a].status = "ACTIVE"
                                     /\ application[a].credit = c}

\* What is applied of a credit, and the credit on a settlement, are both the sum of the
\* active applications, the credit's status says how much that is, and only credits of
\* items that have come back are applied (applyCredit, removeCredit, cancel, receive).
CreditsAddUp ==
    /\ \A c \in Credit :
          /\ credit[c].applied = AmountOfActive(ActiveFor(c))
          /\ credit[c].applied <= CreditAmount(c)
          /\ credit[c].status = CreditStatus(c, credit[c].applied)
          /\ credit[c].applied > 0 => c \in credits
    /\ \A s \in Settlement : settlement[s].credit = AmountOfActive(ActiveOn(s))

\* What has been paid stays paid: neither the payables nor the credits of a paid
\* settlement are ever free again, and a payable that was paid by itself is never
\* settled (pay, cancel, removeCredit, markPaid).
PaidIsFinal ==
    [][/\ \A p \in Payable : payable[p].status = "PAID" => payable'[p] = payable[p]
       /\ \A s \in Settlement : settlement[s].status \in {"PAID", "CANCELLED"} =>
             settlement'[s] = settlement[s] /\ ActiveOn(s)' = ActiveOn(s)]_ledgerAll

OnPaid(c) == {a \in ActiveFor(c) : settlement[application[a].settlement].status = "PAID"}

Voucher(c) == INSTANCE Allowance WITH
    Limit <- CreditAmount(c), promised <- credit[c].applied,
    redeemed <- AmountOfActive(OnPaid(c))

\* A credit is given out as Allowance says: applications promise parts of it, payment of
\* their settlement redeems them, removal and cancellation give them back.
CreditsKeepAllowance ==
    /\ \A c \in Credit : Voucher(c)!Init
    /\ [][\A c \in Credit :
            [Voucher(c)!Next]_<<credit[c].applied, AmountOfActive(OnPaid(c))>>]_ledgerAll

=============================================================================
