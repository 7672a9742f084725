---------------------------- MODULE CardFatura ----------------------------
(***************************************************************************)
(* Which fatura (card bill) a charge belongs to, when a fatura is closed,  *)
(* what it totals and whether it is paid: the trigger that attributes a    *)
(* card transaction to a month, the closing override, the plan of a        *)
(* purchase in parcels and the web page's closing form.                    *)
(*                                                                         *)
(* The members of one household work at the same time.  A request that     *)
(* writes one row is one action: its trigger reads the closures in the     *)
(* same transaction.  Those that read first and write in a later request   *)
(* (closing with a total, a purchase in parcels) are one action for the    *)
(* reads and one for the write, and the page a member looks at is as old   *)
(* as its rendering.                                                       *)
(***************************************************************************)
EXTENDS Integers, FiniteSets, Functions

CONSTANTS
  Cards, NoCard,          \* NoCard: a charge moved to an account
  LastMonth,              \* months members act on are 1 .. LastMonth
  MaxAdvance,             \* closed faturas a new charge may skip (24)
  MonthLength,            \* days of each month
  ClosingDays,            \* closing days a card may have; 0 is none
  MaxWebDay,              \* last closing day the web plans with (28)
  PurchaseDates,          \* dates of purchases
  Amounts,                \* amounts of charges
  Paids,                  \* amounts of payments
  Typed,                  \* totals a member types into the closing form
  Purchases,              \* [total, count] of purchases in parcels
  ChargeIds, PlanIds, PaymentIds,
  People,                 \* members at work on the web or with the bot
  NoMonth, NoTotal        \* absent values

Months     == 1 .. LastMonth
BillMonths == 0 .. LastMonth + MaxAdvance + 1

ASSUME FaturaAssumption ==
  /\ NoCard \notin Cards
  /\ LastMonth \in Nat \ {0}
  /\ MaxAdvance \in Nat
  /\ MonthLength \in [BillMonths -> Nat \ {0}]
  /\ ClosingDays \subseteq Nat
  /\ MaxWebDay \in Nat
  /\ \A d \in PurchaseDates :
       d.month \in Months /\ d.day \in 1 .. MonthLength[d.month]
  /\ Amounts \cup Paids \subseteq Nat \ {0}   \* the tables' check constraints
  /\ Purchases \subseteq [total : Nat \ {0}, count : Nat \ {0}]
  /\ Typed \subseteq Nat
  /\ NoMonth \notin BillMonths /\ NoTotal \notin Nat

VARIABLES
  today,      \* the date in Sao Paulo
  closing,    \* credit_cards.closing_day
  closures,   \* card_bill_closures
  charges,    \* card transactions, each with its invoice_month
  plans,      \* installment groups; their parcels follow from them
  payments,   \* transfers that pay a fatura
  desk        \* what each member's page or request holds

vars == <<today, closing, closures, charges, plans, payments, desk>>

------------------------------------------------------------------------
Bills == Cards \X BillMonths

Charge  == [id : ChargeIds, card : Cards \cup {NoCard}, date : PurchaseDates,
            month : BillMonths \cup {NoMonth}, amount : Amounts,
            imported : BOOLEAN]
Plan    == [id : PlanIds, card : Cards, start : BillMonths, what : Purchases]
Payment == [id : PaymentIds, bill : Bills, amount : Paids]

NoOverride == [state |-> "none", total |-> NoTotal]
Override(state, total) == [state |-> state, total |-> total]

Away == [step |-> "away"]

Unused(i, S) == \A r \in S : r.id # i

------------------------------------------------------------------------
(* Closed or open.                                                       *)

After(d, e) == d.month > e.month \/ (d.month = e.month /\ d.day > e.day)

ClosingDate(day, m) ==
  [month |-> m, day |-> IF day < MonthLength[m] THEN day ELSE MonthLength[m]]

\* A manual override wins; without one a fatura closes once today is past its
\* closing date.
IsClosed(c, m) ==
  \/ closures[<<c, m>>].state = "closed"
  \/ /\ closures[<<c, m>>].state = "none"
     /\ closing[c] # 0
     /\ After(today, ClosingDate(closing[c], m))

\* Mutants: one closed fatura is skipped and no more; the search starts a
\* month late.
FirstOpenOnce(c, m, n) == n = IF IsClosed(c, m) THEN m + 1 ELSE m
FirstOpenNext(c, m, n) ==
  /\ n \in m + 1 .. m + MaxAdvance
  /\ ~IsClosed(c, n)

\* The search for an open fatura from month m stops at n.  Where it finds none
\* there is no such n, and the request that searched fails.
FirstOpen(c, m, n) ==
  /\ n \in m .. m + MaxAdvance
  /\ ~IsClosed(c, n)
  /\ \A k \in m .. n - 1 : IsClosed(c, k)

------------------------------------------------------------------------
(* Totals and status.                                                    *)

ChargesOf(c, m)  == {r \in charges : r.card = c /\ r.month = m}
PlansOf(c, m)    == {g \in plans : g.card = c /\ m \in g.start .. g.start + g.what.count - 1}
PaymentsOf(c, m) == {p \in payments : p.bill = <<c, m>>}

\* splitCents: earlier parcels absorb the remainder.
Parcel(what, i) == (what.total \div what.count)
                   + (IF i <= what.total % what.count THEN 1 ELSE 0)

AmountOf    == [r \in Charge |-> r.amount]
ParcelIn(m) == [g \in Plan |-> Parcel(g.what, m - g.start + 1)]
PaidBy      == [p \in Payment |-> p.amount]

LiveTotal(c, m) == SumFunctionOnSet(AmountOf, ChargesOf(c, m))
                   + SumFunctionOnSet(ParcelIn(m), PlansOf(c, m))

Total(c, m) == IF IsClosed(c, m) /\ closures[<<c, m>>].total # NoTotal
               THEN closures[<<c, m>>].total
               ELSE LiveTotal(c, m)

Paid(c, m) == SumFunctionOnSet(PaidBy, PaymentsOf(c, m))

\* Mutant: what has nothing paid is unpaid, even when it totals nothing.
StatusOfZero(closed, total, paid) ==
  IF closed
  THEN IF paid = 0 THEN "closed_unpaid"
       ELSE IF paid < total THEN "closed_partial" ELSE "paid"
  ELSE IF paid = 0 THEN "open"
       ELSE IF paid < total THEN "open_partial" ELSE "open_covered"

StatusOf(closed, total, paid) ==
  IF closed
  THEN IF paid = 0 THEN IF total = 0 THEN "nothing_due" ELSE "closed_unpaid"
       ELSE IF paid < total THEN "closed_partial" ELSE "paid"
  ELSE IF paid = 0 THEN "open"
       ELSE IF paid < total THEN "open_partial" ELSE "open_covered"

Remaining(c, m) == IF Total(c, m) > Paid(c, m) THEN Total(c, m) - Paid(c, m) ELSE 0
Status(c, m)    == StatusOf(IsClosed(c, m), Total(c, m), Paid(c, m))

\* The fatura before the open one, surfaced only while something is due on it.
Pending(c, open) == IsClosed(c, open - 1)
                    /\ Status(c, open - 1) \in {"closed_unpaid", "closed_partial"}

------------------------------------------------------------------------
Init ==
  /\ today = [month |-> 1, day |-> 1]
  /\ closing \in [Cards -> ClosingDays]
  /\ closures = [b \in Bills |-> NoOverride]
  /\ charges = {}
  /\ plans = {}
  /\ payments = {}
  /\ desk = [p \in People |-> Away]

------------------------------------------------------------------------
(* Charges.  The trigger attributes them as it writes them.              *)

\* Mutant: a charge always stays in the month of its date.
AttributedByDate(c, d, imported, n) ==
  IF c = NoCard THEN n = NoMonth ELSE n = d.month

Attributed(c, d, imported, n) ==
  IF c = NoCard THEN n = NoMonth
  ELSE IF imported THEN n = d.month
  ELSE FirstOpen(c, d.month, n)

AddCharge ==
  /\ \E i \in ChargeIds, c \in Cards, d \in PurchaseDates, a \in Amounts,
        n \in BillMonths, imported \in BOOLEAN :
       /\ Unused(i, charges)
       /\ Attributed(c, d, imported, n)
       /\ charges' = charges \cup
            {[id |-> i, card |-> c, date |-> d, month |-> n, amount |-> a,
              imported |-> imported]}
  /\ UNCHANGED <<today, closing, closures, plans, payments, desk>>

\* Mutant: any edit attributes the charge anew.
MonthAfterAlways(r, c, d, n) == Attributed(c, d, r.imported, n)

\* The trigger's early return: the month is decided again only when the date
\* or the card changes.
MonthAfter(r, c, d, n) ==
  IF c = r.card /\ d = r.date THEN n = r.month
  ELSE Attributed(c, d, r.imported, n)

\* updateTransaction: any of amount, date and card or account.
UpdateCharge(r) ==
  /\ \E c \in Cards \cup {NoCard}, d \in PurchaseDates, a \in Amounts,
        n \in BillMonths \cup {NoMonth} :
       /\ MonthAfter(r, c, d, n)
       /\ charges' = (charges \ {r}) \cup
            {[r EXCEPT !.card = c, !.date = d, !.amount = a, !.month = n]}
  /\ UNCHANGED <<today, closing, closures, plans, payments, desk>>

DeleteCharge(r) ==
  /\ charges' = charges \ {r}
  /\ UNCHANGED <<today, closing, closures, plans, payments, desk>>

------------------------------------------------------------------------
(* Purchases in parcels: planned by one set of reads, saved by the RPC.  *)

\* The web plans with a closing day up to 28 only, the bot with any.
PlanningDay(c, web) == IF web /\ closing[c] > MaxWebDay THEN 0 ELSE closing[c]

\* Mutant: a purchase on the closing day goes to the next fatura.
OffsetEarly(c, d, web) ==
  IF PlanningDay(c, web) # 0
     /\ d.day >= ClosingDate(PlanningDay(c, web), d.month).day
  THEN 1 ELSE 0

\* createInstallmentPlan: buying after the closing day starts a month later.
Offset(c, d, web) ==
  IF PlanningDay(c, web) # 0
     /\ d.day > ClosingDate(PlanningDay(c, web), d.month).day
  THEN 1 ELSE 0

\* planWithOpenFaturas: the whole plan moves until its first parcel is in an
\* open fatura.
PlanStart(c, d, web, n) == FirstOpen(c, d.month + Offset(c, d, web), n)

PlanPurchase(p) ==
  /\ desk[p] = Away
  /\ \E c \in Cards, d \in PurchaseDates, what \in Purchases, web \in BOOLEAN,
        n \in BillMonths :
       /\ PlanStart(c, d, web, n)
       /\ desk' = [desk EXCEPT ![p] = [step |-> "plan", card |-> c,
                                       start |-> n, what |-> what]]
  /\ UNCHANGED <<today, closing, closures, charges, plans, payments>>

SavePlan(p) ==
  /\ desk[p].step = "plan"
  /\ \E i \in PlanIds :
       /\ Unused(i, plans)
       /\ plans' = plans \cup {[id |-> i, card |-> desk[p].card,
                                start |-> desk[p].start, what |-> desk[p].what]}
  /\ desk' = [desk EXCEPT ![p] = Away]
  /\ UNCHANGED <<today, closing, closures, charges, payments>>

------------------------------------------------------------------------
(* Closing, reopening and correcting the total.                          *)

\* The page shows whether the fatura is closed and its total at that time.
RenderForm(p) ==
  /\ desk[p] = Away
  /\ \E c \in Cards, m \in Months :
       desk' = [desk EXCEPT ![p] =
                  [step |-> "form", card |-> c, month |-> m,
                   closed |-> IsClosed(c, m), shown |-> Total(c, m)]]
  /\ UNCHANGED <<today, closing, closures, charges, plans, payments>>

\* normalizedCardBillTotal: a total equal to the charges is none.  "untouched"
\* notes a form of an open fatura sent as it was shown.
SubmitTotal(p) ==
  /\ desk[p].step = "form"
  /\ \E t \in Typed \cup {NoTotal, desk[p].shown} :
       desk' = [desk EXCEPT ![p] =
         [step |-> "write", card |-> desk[p].card, month |-> desk[p].month,
          total |-> IF t = LiveTotal(desk[p].card, desk[p].month)
                    THEN NoTotal ELSE t,
          untouched |-> ~desk[p].closed /\ t = desk[p].shown]]
  /\ UNCHANGED <<today, closing, closures, charges, plans, payments>>

\* closeCardBill and setCardBillTotal write the same row.
WriteTotal(p) ==
  /\ desk[p].step = "write"
  /\ closures' = [closures EXCEPT ![<<desk[p].card, desk[p].month>>] =
                    Override("closed", desk[p].total)]
  /\ desk' = [desk EXCEPT ![p] = Away]
  /\ UNCHANGED <<today, closing, charges, plans, payments>>

\* Mutant: reopening leaves the corrected total in the row.
ReopenedKeepsTotal(c, m) == Override("open", closures[<<c, m>>].total)

Reopened(c, m) == Override("open", NoTotal)

Reopen(p) ==
  /\ desk[p].step = "form"
  /\ desk[p].closed
  /\ closures' = [closures EXCEPT ![<<desk[p].card, desk[p].month>>] =
                    Reopened(desk[p].card, desk[p].month)]
  /\ desk' = [desk EXCEPT ![p] = Away]
  /\ UNCHANGED <<today, closing, charges, plans, payments>>

\* The page is left, or the request fails before it writes.
Leave(p) ==
  /\ desk[p] # Away
  /\ desk' = [desk EXCEPT ![p] = Away]
  /\ UNCHANGED <<today, closing, closures, charges, plans, payments>>

------------------------------------------------------------------------
(* Payments (any month, open or closed), the card and the calendar.      *)

Pay ==
  /\ \E i \in PaymentIds, c \in Cards, m \in Months, a \in Paids :
       /\ Unused(i, payments)
       /\ payments' = payments \cup {[id |-> i, bill |-> <<c, m>>, amount |-> a]}
  /\ UNCHANGED <<today, closing, closures, charges, plans, desk>>

UndoPayment(r) ==
  /\ payments' = payments \ {r}
  /\ UNCHANGED <<today, closing, closures, charges, plans, desk>>

SetClosingDay(c) ==
  /\ \E d \in ClosingDays : closing' = [closing EXCEPT ![c] = d]
  /\ UNCHANGED <<today, closures, charges, plans, payments, desk>>

NextDay ==
  /\ \/ /\ today.day < MonthLength[today.month]
        /\ today' = [today EXCEPT !.day = @ + 1]
     \/ /\ today.day = MonthLength[today.month]
        /\ today.month < LastMonth
        /\ today' = [month |-> today.month + 1, day |-> 1]
  /\ UNCHANGED <<closing, closures, charges, plans, payments, desk>>

------------------------------------------------------------------------
Next ==
  \/ AddCharge
  \/ \E r \in charges : UpdateCharge(r) \/ DeleteCharge(r)
  \/ \E p \in People : PlanPurchase(p) \/ SavePlan(p)
  \/ \E p \in People : RenderForm(p) \/ SubmitTotal(p) \/ WriteTotal(p)
  \/ \E p \in People : Reopen(p) \/ Leave(p)
  \/ Pay
  \/ \E r \in payments : UndoPayment(r)
  \/ \E c \in Cards : SetClosingDay(c)
  \/ NextDay

Spec == Init /\ [][Next]_vars

------------------------------------------------------------------------
(* Properties.                                                           *)

IsClosure(r) == /\ r.state \in {"none", "open", "closed"}
                /\ r.total # NoTotal => r.state = "closed"

IsDesk(d) ==
  /\ d.step \in {"away", "plan", "form", "write"}
  /\ d.step = "away" => d = Away
  /\ d.step = "plan" => d.card \in Cards /\ d.start \in BillMonths
                        /\ d.what \in Purchases
  /\ d.step \in {"form", "write"} => d.card \in Cards /\ d.month \in Months

\* Every variable holds a value of its kind; ids are not used twice; only a
\* closed fatura has a corrected total, and a charge has a month exactly when it
\* is on a card (the table's check constraints, which no request runs into).
TypeOK ==
  /\ today \in [month : Months, day : Nat]
  /\ closing \in [Cards -> ClosingDays]
  /\ closures = [b \in Bills |-> closures[b]]
  /\ \A b \in Bills : IsClosure(closures[b])
  /\ charges \subseteq Charge
  /\ \A r, s \in charges : r.id = s.id => r = s
  /\ \A r \in charges : r.card = NoCard <=> r.month = NoMonth
  /\ plans \subseteq Plan
  /\ payments \subseteq Payment
  /\ desk = [p \in People |-> desk[p]]
  /\ \A p \in People : IsDesk(desk[p])

LeavesClosedFrozen ==
  \A r \in charges' \ charges :
    r.card # NoCard /\ ~r.imported /\ IsClosed(r.card, r.month) =>
      \E s \in charges : s.id = r.id /\ s.card = r.card /\ s.month = r.month

\* "Once a fatura is closed its contents are frozen": no step of anyone puts a
\* manual charge into a fatura that is closed, whether it closed by date, early
\* or again after a reopening, and whether the charge is new, edited or moved.
ClosedStaysFrozen == [][LeavesClosedFrozen]_vars

SkipsClosedOnly ==
  \A r \in charges' \ charges :
    r.card # NoCard /\ ~r.imported
    /\ (\A s \in charges : s.id = r.id => s.card # r.card \/ s.date # r.date)
      => \A m \in r.date.month .. r.month - 1 : IsClosed(r.card, m)

\* A manual charge that lands after the month of its date has skipped closed
\* faturas only: none that was open is passed over.
NoFaturaSkipped == [][SkipsClosedOnly]_vars

\* Correcting an amount never moves a charge to another fatura.
CorrectionKeepsMonth ==
  [][\A r \in charges, s \in charges' :
       s.id = r.id /\ s.card = r.card /\ s.date = r.date => s.month = r.month]_vars

BillsWithPayment == {p.bill : p \in payments}

Amended(c, m) ==
  \/ \E r \in charges, s \in charges' : r.id = s.id /\ r.amount # s.amount
  \/ \E s \in charges' \ charges : s.card = c /\ s.month = m /\ s.imported
  \/ closures'[<<c, m>>] # closures[<<c, m>>]
  \/ \E r \in payments : r \notin payments'
  \/ closing'[c] # closing[c]

\* A paid fatura becomes due again only by what says so: a payment undone, an
\* amount or the total corrected, a reopening, another closing day, an import,
\* or a purchase in parcels.  A manual purchase and the calendar never do it.
PaidStaysPaid ==
  [][\A b \in BillsWithPayment :
       Status(b[1], b[2]) = "paid" /\ Status(b[1], b[2])' # "paid" =>
         Amended(b[1], b[2]) \/ plans' # plans]_vars

\* The same with no exception for parcels: a new purchase goes to the next
\* fatura and a closed one stays paid.
PurchaseKeepsPaid ==
  [][\A b \in BillsWithPayment :
       Status(b[1], b[2]) = "paid" /\ Status(b[1], b[2])' # "paid" =>
         Amended(b[1], b[2])]_vars

\* A purchase made by today goes to the same fatura at once as in parcels,
\* from the web and from the bot, unless its month was reopened: the trigger in
\* SQL and the plan in TypeScript decide it from different rules.
FirstParcelLandsWithCharge ==
  \A c \in Cards, d \in PurchaseDates, web \in BOOLEAN :
    ~After(d, today) /\ closures[<<c, d.month>>].state # "open" =>
      \A n \in BillMonths : FirstOpen(c, d.month, n) =>
        \A k \in BillMonths : PlanStart(c, d, web, k) => n = k

\* What "now" surfaces besides the open fatura is the one before it, exactly
\* when it is closed with something left to pay.
PendingIsOwed ==
  \A c \in Cards, n \in BillMonths :
    FirstOpen(c, today.month, n) =>
      (Pending(c, n) <=> IsClosed(c, n - 1) /\ Remaining(c, n - 1) > 0)

\* "Submitting the unchanged value stores no override."
UntouchedStoresNoOverride ==
  \A p \in People :
    desk[p].step = "write" /\ desk[p].untouched => desk[p].total = NoTotal

=============================================================================
