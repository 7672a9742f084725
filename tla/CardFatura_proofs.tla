------------------------ MODULE CardFatura_proofs ------------------------
(***************************************************************************)
(* Theorems about CardFatura, for any cards, calendar, closing days, ids   *)
(* and number of members at work.                                          *)
(***************************************************************************)
EXTENDS CardFatura, Sums

(***************************************************************************)
(* A search for an open fatura has one result.                             *)
(***************************************************************************)
LEMMA FirstOpenUnique ==
  ASSUME NEW c \in Cards, NEW m \in Int, NEW n \in Int, NEW p \in Int, NEW k \in Int,
         FirstOpen(c, m, n), FirstOpen(c, p, k), m <= k, p <= n
  PROVE  n = k
<1>1. /\ ~IsClosed(c, n) /\ ~IsClosed(c, k)
      /\ \A i \in m .. n - 1 : IsClosed(c, i)
      /\ \A i \in p .. k - 1 : IsClosed(c, i)
  BY DEF FirstOpen
<1>2. ~(n < k)
  BY <1>1
<1>3. ~(k < n)
  BY <1>1
<1> QED
  BY <1>2, <1>3

(***************************************************************************)
(* The closing status of a fatura says whether something is due on it.     *)
(***************************************************************************)
THEOREM StatusSaysWhatIsDue ==
  ASSUME NEW total \in Nat, NEW paid \in Nat
  PROVE  /\ StatusOf(TRUE, total, paid) \in {"closed_unpaid", "closed_partial"}
              <=> paid < total
         /\ StatusOf(TRUE, total, paid) = "paid" <=> paid > 0 /\ paid >= total
         /\ StatusOf(FALSE, total, paid)
              \in {"open", "open_partial", "open_covered"}
  BY DEF StatusOf

(***************************************************************************)
(* splitCents: the parcels of a purchase add up to its price.              *)
(***************************************************************************)

LEMMA DivMod ==
  ASSUME NEW t \in Nat, NEW n \in Nat \ {0}
  PROVE  /\ t \div n \in Nat /\ t % n \in 0 .. n - 1
         /\ t = n * (t \div n) + (t % n)
OBVIOUS

LEMMA OneMore == ASSUME NEW q \in Int, NEW k \in Int PROVE q + (k - 1) * q = k * q
OBVIOUS

\* Whatever the price and the number of parcels, what the faturas of its months
\* bill of a purchase is its price, to the cent ("always sum back to the original
\* total"); no two parcels differ by more than a cent, and no earlier one is
\* smaller than a later one ("earlier parts absorb the remainder").
THEOREM ParcelsAddUp ==
  ASSUME NEW g \in Plan
  PROVE  LET Bill   == [m \in Int |-> ParcelIn(m)[g]]
             Billed == g.start .. g.start + g.what.count - 1
         IN  /\ SumFunctionOnSet(Bill, Billed) = g.what.total
             /\ \A m, n \in Billed : m <= n => Bill[m] - Bill[n] \in {0, 1}
<1> DEFINE s    == g.start
           q    == g.what.total \div g.what.count
           r    == g.what.total % g.what.count
           Bill == [m \in Int |-> ParcelIn(m)[g]]
           Done(k) == SumFunctionOnSet(Bill, s .. s + k - 1)
           Low(k)  == IF k <= r THEN k ELSE r
           B == {k \in Nat : Done(k) = k * q + Low(k)}
<1>1. /\ s \in Int /\ g.what.total \in Nat /\ g.what.count \in Nat \ {0}
  BY FaturaAssumption DEF Plan, BillMonths
<1>2. /\ q \in Nat /\ r \in Nat /\ r < g.what.count
      /\ g.what.total = g.what.count * q + r
  <2>1. /\ q \in Nat /\ r \in 0 .. g.what.count - 1
        /\ g.what.total = g.what.count * q + r
    <3> HIDE DEF s, Bill
    <3> QED
      BY <1>1, DivMod
  <2> QED
    BY <1>1, <2>1
<1>3. \A m \in Int : Bill[m] = q + (IF m - s + 1 <= r THEN 1 ELSE 0)
  BY DEF ParcelIn, Parcel
<1> HIDE DEF q, r, s, Bill
<1>4. \A m \in Int : Bill[m] \in Int
  BY <1>2, <1>3
<1>5. ASSUME NEW k \in Nat, \A l \in Nat : l < k => l \in B
      PROVE  k \in B
  <2>1. CASE k = 0
    <3>1. s .. s + k - 1 = {}
      BY <1>1, <2>1
    <3>2. Done(k) = 0
      BY <3>1, SumOfNone
    <3> QED
      BY <1>2, <2>1, <3>2
  <2>2. CASE k # 0
    <3> DEFINE S == s .. s + (k - 1) - 1
               x == s + k - 1
    <3>1. /\ s .. s + k - 1 = S \cup {x} /\ x \notin S /\ x \in Int /\ S \subseteq Int
      BY <1>1, <2>2
    <3>2. IsFiniteSet(S)
      BY <1>1, <2>2, FS_Interval
    <3>3. Done(k) = Bill[x] + Done(k - 1)
      <4> HIDE DEF S, x
      <4>1. SumFunctionOnSet(Bill, S \cup {x}) = Bill[x] + SumFunctionOnSet(Bill, S)
        BY <1>4, <3>1, <3>2, SumWith
      <4> QED
        BY <4>1, <3>1 DEF S
    <3>4. Done(k - 1) = (k - 1) * q + Low(k - 1)
      BY <1>5, <2>2
    <3>5. Bill[x] = q + (IF k <= r THEN 1 ELSE 0)
      <4>1. x - s + 1 = k
        BY <1>1
      <4> QED
        BY <1>3, <3>1, <4>1
    <3> HIDE DEF Done, x
    <3>6. q + (k - 1) * q = k * q /\ (k - 1) * q \in Int
      BY <1>2, OneMore
    <3>7. (IF k <= r THEN 1 ELSE 0) + Low(k - 1) = Low(k)
      BY <1>2, <2>2
    <3>8. Low(k) \in Int /\ Low(k - 1) \in Int
      BY <1>2
    <3> HIDE DEF Low
    <3>9. Done(k) = k * q + Low(k)
      BY <1>2, <3>3, <3>4, <3>5, <3>6, <3>7, <3>8
    <3> QED
      BY <3>9
  <2> QED
    BY <2>1, <2>2
<1>6. \A k \in Nat : k \in B
  <2> HIDE DEF B
  <2> QED
    BY <1>5, AllNaturals
<1>7. Done(g.what.count) = g.what.total
  <2>1. g.what.count \in B
    BY <1>1, <1>6
  <2>2. Low(g.what.count) = r
    BY <1>1, <1>2
  <2> QED
    BY <2>1, <2>2, <1>2
<1>8. \A m, n \in s .. s + g.what.count - 1 : m <= n => Bill[m] - Bill[n] \in {0, 1}
  BY <1>1, <1>2, <1>3
<1> QED
  BY <1>7, <1>8 DEF Bill, s

------------------------------------------------------------------------
LEMMA TypeInit == Init => TypeOK
<1> SUFFICES ASSUME Init PROVE TypeOK
  OBVIOUS
<1>1. /\ today \in [month : Months, day : Nat]
      /\ closing \in [Cards -> ClosingDays]
  BY FaturaAssumption DEF Init, Months
<1>2. /\ closures = [b \in Bills |-> closures[b]]
      /\ \A b \in Bills : IsClosure(closures[b])
  BY DEF Init, IsClosure, NoOverride
<1>3. /\ desk = [p \in People |-> desk[p]]
      /\ \A p \in People : IsDesk(desk[p])
  BY DEF Init, IsDesk, Away
<1> QED
  BY <1>1, <1>2, <1>3 DEF TypeOK, Init

\* The parts of TypeOK that concern one table.
ChargesOK == /\ charges \subseteq Charge
             /\ \A r, s \in charges : r.id = s.id => r = s
             /\ \A r \in charges : r.card = NoCard <=> r.month = NoMonth
ClosuresOK == /\ closures = [b \in Bills |-> closures[b]]
              /\ \A b \in Bills : IsClosure(closures[b])
DeskOK == /\ desk = [p \in People |-> desk[p]]
          /\ \A p \in People : IsDesk(desk[p])

\* A step that changes one member's desk to a good value keeps all of them good.
LEMMA DeskStep ==
  ASSUME DeskOK, NEW p \in People, NEW d, IsDesk(d), desk' = [desk EXCEPT ![p] = d]
  PROVE  DeskOK'
  BY DEF DeskOK

LEMMA AwayIsDesk == IsDesk(Away)
  BY DEF IsDesk, Away

LEMMA ClosureStep ==
  ASSUME ClosuresOK, NEW b \in Bills, NEW r, IsClosure(r),
         closures' = [closures EXCEPT ![b] = r]
  PROVE  ClosuresOK'
  BY DEF ClosuresOK

\* Where the trigger puts a charge is a month of a fatura, or none.
LEMMA AttributedRange ==
  ASSUME TypeOK, NEW c \in Cards \cup {NoCard}, NEW d \in PurchaseDates,
         NEW i \in BOOLEAN, NEW n \in BillMonths \cup {NoMonth},
         Attributed(c, d, i, n)
  PROVE  c = NoCard <=> n = NoMonth
<1>1. CASE c = NoCard
  BY <1>1 DEF Attributed
<1>2. CASE c # NoCard
  <2>1. d.month \in Months /\ Months \subseteq BillMonths
    BY FaturaAssumption DEF Months, BillMonths
  <2>2. i => n \in BillMonths
    BY <1>2, <2>1 DEF Attributed
  <2>3. ~i => n \in d.month .. d.month + MaxAdvance
    BY <1>2 DEF Attributed, FirstOpen
  <2>4. ~i => n \in BillMonths
    BY <2>1, <2>3, FaturaAssumption DEF Months, BillMonths
  <2> QED
    BY <1>2, <2>2, <2>4, FaturaAssumption
<1> QED
  BY <1>1, <1>2

LEMMA ChargesStep ==
  ASSUME TypeOK, Next
  PROVE  ChargesOK'
<1>0. ChargesOK
  BY DEF TypeOK, ChargesOK
<1>1. CASE AddCharge
  <2>1. PICK i \in ChargeIds, c \in Cards, d \in PurchaseDates, a \in Amounts,
             n \in BillMonths, imported \in BOOLEAN :
          /\ Unused(i, charges)
          /\ Attributed(c, d, imported, n)
          /\ charges' = charges \cup
               {[id |-> i, card |-> c, date |-> d, month |-> n, amount |-> a,
                 imported |-> imported]}
    BY <1>1 DEF AddCharge
  <2>2. c # NoCard /\ n # NoMonth
    BY FaturaAssumption
  <2> QED
    BY <1>0, <2>1, <2>2 DEF ChargesOK, Charge, Unused
<1>2. CASE \E r \in charges : UpdateCharge(r)
  <2>1. PICK r \in charges, c \in Cards \cup {NoCard}, d \in PurchaseDates,
             a \in Amounts, n \in BillMonths \cup {NoMonth} :
          /\ MonthAfter(r, c, d, n)
          /\ charges' = (charges \ {r}) \cup
               {[r EXCEPT !.card = c, !.date = d, !.amount = a, !.month = n]}
    BY <1>2 DEF UpdateCharge
  <2> DEFINE s == [r EXCEPT !.card = c, !.date = d, !.amount = a, !.month = n]
  <2>2. r \in Charge
    BY <1>0 DEF ChargesOK
  <2>3. /\ s \in Charge /\ s.id = r.id /\ s.card = c /\ s.month = n
    BY <2>2 DEF Charge
  <2>4. c = NoCard <=> n = NoMonth
    <3>1. CASE c = r.card /\ d = r.date
      BY <2>1, <3>1, <1>0 DEF MonthAfter, ChargesOK
    <3>2. CASE ~(c = r.card /\ d = r.date)
      <4>1. Attributed(c, d, r.imported, n) /\ r.imported \in BOOLEAN
        BY <2>1, <2>2, <3>2 DEF MonthAfter, Charge
      <4> QED
        BY <4>1, AttributedRange
    <3> QED
      BY <3>1, <3>2
  <2> HIDE DEF s
  <2>5. charges' = (charges \ {r}) \cup {s}
    BY <2>1 DEF s
  <2> QED
    BY <1>0, <2>3, <2>4, <2>5 DEF ChargesOK
<1>3. CASE \E r \in charges : DeleteCharge(r)
  BY <1>0, <1>3 DEF DeleteCharge, ChargesOK
<1>4. CASE UNCHANGED charges
  BY <1>0, <1>4 DEF ChargesOK
<1> QED
  BY <1>1, <1>2, <1>3, <1>4
  DEF Next, PlanPurchase, SavePlan, RenderForm, SubmitTotal, WriteTotal, Reopen,
      Leave, Pay, UndoPayment, SetClosingDay, NextDay

LEMMA BillOf ==
  ASSUME NEW c \in Cards, NEW m \in Months
  PROVE  <<c, m>> \in Bills
<1>1. m \in BillMonths
  BY FaturaAssumption DEF Months, BillMonths
<1> QED
  BY <1>1 DEF Bills

LEMMA ClosuresAndDeskStep ==
  ASSUME TypeOK, Next
  PROVE  ClosuresOK' /\ DeskOK'
<1>0. ClosuresOK /\ DeskOK /\ \A p \in People : IsDesk(desk[p])
  BY DEF TypeOK, ClosuresOK, DeskOK
<1>1. ASSUME NEW p \in People, PlanPurchase(p) PROVE ClosuresOK' /\ DeskOK'
  <2>1. PICK c \in Cards, what \in Purchases, n \in BillMonths :
          desk' = [desk EXCEPT ![p] = [step |-> "plan", card |-> c,
                                       start |-> n, what |-> what]]
    BY <1>1 DEF PlanPurchase
  <2>2. IsDesk([step |-> "plan", card |-> c, start |-> n, what |-> what])
    BY DEF IsDesk
  <2> QED
    BY <1>0, <1>1, <2>1, <2>2, DeskStep DEF PlanPurchase, ClosuresOK
<1>2. ASSUME NEW p \in People, SavePlan(p) PROVE ClosuresOK' /\ DeskOK'
  BY <1>0, <1>2, DeskStep, AwayIsDesk DEF SavePlan, ClosuresOK
<1>3. ASSUME NEW p \in People, RenderForm(p) PROVE ClosuresOK' /\ DeskOK'
  <2>1. PICK c \in Cards, m \in Months :
          desk' = [desk EXCEPT ![p] =
                     [step |-> "form", card |-> c, month |-> m,
                      closed |-> IsClosed(c, m), shown |-> Total(c, m)]]
    BY <1>3 DEF RenderForm
  <2>2. IsDesk([step |-> "form", card |-> c, month |-> m,
                closed |-> IsClosed(c, m), shown |-> Total(c, m)])
    BY DEF IsDesk
  <2> QED
    BY <1>0, <1>3, <2>1, <2>2, DeskStep DEF RenderForm, ClosuresOK
<1>4. ASSUME NEW p \in People, SubmitTotal(p) PROVE ClosuresOK' /\ DeskOK'
  <2>1. desk[p].card \in Cards /\ desk[p].month \in Months
    BY <1>0, <1>4 DEF IsDesk, SubmitTotal
  <2>2. PICK t : desk' = [desk EXCEPT ![p] =
         [step |-> "write", card |-> desk[p].card, month |-> desk[p].month,
          total |-> IF t = LiveTotal(desk[p].card, desk[p].month)
                    THEN NoTotal ELSE t,
          untouched |-> ~desk[p].closed /\ t = desk[p].shown]]
    BY <1>4 DEF SubmitTotal
  <2> DEFINE d == [step |-> "write", card |-> desk[p].card, month |-> desk[p].month,
          total |-> IF t = LiveTotal(desk[p].card, desk[p].month)
                    THEN NoTotal ELSE t,
          untouched |-> ~desk[p].closed /\ t = desk[p].shown]
  <2>3. IsDesk(d)
    BY <2>1 DEF IsDesk
  <2> HIDE DEF d
  <2>4. desk' = [desk EXCEPT ![p] = d]
    BY <2>2 DEF d
  <2> QED
    BY <1>0, <1>4, <2>3, <2>4, DeskStep DEF SubmitTotal, ClosuresOK
<1>5. ASSUME NEW p \in People, WriteTotal(p) PROVE ClosuresOK' /\ DeskOK'
  <2>1. desk[p].card \in Cards /\ desk[p].month \in Months
    BY <1>0, <1>5 DEF IsDesk, WriteTotal
  <2>2. IsClosure(Override("closed", desk[p].total))
    BY DEF IsClosure, Override
  <2> QED
    BY <1>0, <1>5, <2>1, <2>2, BillOf, ClosureStep, DeskStep, AwayIsDesk
    DEF WriteTotal
<1>6. ASSUME NEW p \in People, Reopen(p) PROVE ClosuresOK' /\ DeskOK'
  <2>1. desk[p].card \in Cards /\ desk[p].month \in Months
    BY <1>0, <1>6 DEF IsDesk, Reopen
  <2>2. IsClosure(Reopened(desk[p].card, desk[p].month))
    BY DEF IsClosure, Override, Reopened
  <2> QED
    BY <1>0, <1>6, <2>1, <2>2, BillOf, ClosureStep, DeskStep, AwayIsDesk
    DEF Reopen
<1>7. ASSUME NEW p \in People, Leave(p) PROVE ClosuresOK' /\ DeskOK'
  BY <1>0, <1>7, DeskStep, AwayIsDesk DEF Leave, ClosuresOK
<1>8. CASE UNCHANGED <<closures, desk>>
  BY <1>0, <1>8 DEF ClosuresOK, DeskOK
<1> QED
  BY <1>1, <1>2, <1>3, <1>4, <1>5, <1>6, <1>7, <1>8
  DEF Next, AddCharge, UpdateCharge, DeleteCharge, Pay, UndoPayment,
      SetClosingDay, NextDay

LEMMA OthersStep ==
  ASSUME TypeOK, Next
  PROVE  /\ (today \in [month : Months, day : Nat])'
         /\ (closing \in [Cards -> ClosingDays])'
         /\ (plans \subseteq Plan)'
         /\ (payments \subseteq Payment)'
<1>0. /\ today \in [month : Months, day : Nat]
      /\ closing \in [Cards -> ClosingDays]
      /\ plans \subseteq Plan /\ payments \subseteq Payment
      /\ \A p \in People : IsDesk(desk[p])
  BY DEF TypeOK
<1>1. CASE \E p \in People : SavePlan(p)
  <2>1. PICK p \in People : SavePlan(p)
    BY <1>1
  <2>2. PICK i \in PlanIds :
          plans' = plans \cup {[id |-> i, card |-> desk[p].card,
                                start |-> desk[p].start, what |-> desk[p].what]}
    BY <2>1 DEF SavePlan
  <2>3. desk[p].card \in Cards /\ desk[p].start \in BillMonths
        /\ desk[p].what \in Purchases
    BY <1>0, <2>1 DEF IsDesk, SavePlan
  <2>4. plans' \subseteq Plan
    BY <1>0, <2>2, <2>3 DEF Plan
  <2> QED
    BY <1>0, <2>1, <2>4 DEF SavePlan
<1>2. CASE Pay
  <2>1. PICK i \in PaymentIds, c \in Cards, m \in Months, a \in Paids :
          payments' = payments \cup {[id |-> i, bill |-> <<c, m>>, amount |-> a]}
    BY <1>2 DEF Pay
  <2>2. payments' \subseteq Payment
    BY <1>0, <2>1, BillOf DEF Payment
  <2> QED
    BY <1>0, <1>2, <2>2 DEF Pay
<1>3. CASE \E r \in payments : UndoPayment(r)
  BY <1>0, <1>3 DEF UndoPayment
<1>4. CASE \E c \in Cards : SetClosingDay(c)
  BY <1>0, <1>4 DEF SetClosingDay
<1>5. CASE NextDay
  <2>1. CASE today.day < MonthLength[today.month]
             /\ today' = [today EXCEPT !.day = @ + 1]
    BY <1>0, <1>5, <2>1 DEF NextDay, Months
  <2>2. CASE today.month < LastMonth
             /\ today' = [month |-> today.month + 1, day |-> 1]
    BY <1>0, <1>5, <2>2, FaturaAssumption DEF NextDay, Months
  <2> QED
    BY <1>5, <2>1, <2>2 DEF NextDay
<1>6. CASE UNCHANGED <<today, closing, plans, payments>>
  BY <1>0, <1>6
<1> QED
  BY <1>1, <1>2, <1>3, <1>4, <1>5, <1>6
  DEF Next, AddCharge, UpdateCharge, DeleteCharge, PlanPurchase, RenderForm,
      SubmitTotal, WriteTotal, Reopen, Leave

LEMMA TypeStep == TypeOK /\ [Next]_vars => TypeOK'
<1> SUFFICES ASSUME TypeOK, [Next]_vars PROVE TypeOK'
  OBVIOUS
<1>1. CASE Next
  BY <1>1, ChargesStep, ClosuresAndDeskStep, OthersStep
  DEF TypeOK, ChargesOK, ClosuresOK, DeskOK
<1>2. CASE UNCHANGED vars
  BY <1>2 DEF vars, TypeOK, IsClosure, IsDesk
<1> QED
  BY <1>1, <1>2

(***************************************************************************)
(* Type correctness, with the check constraints of the tables.             *)
(***************************************************************************)
THEOREM FaturaTypeCorrect == Spec => []TypeOK
  BY TypeInit, TypeStep, PTL DEF Spec

------------------------------------------------------------------------
\* What a step does to the charges: nothing, one removed, one added, one edited.
LEMMA ChargeSteps ==
  ASSUME TypeOK, [Next]_vars, NEW s \in charges' \ charges
  PROVE  \/ /\ Unused(s.id, charges) /\ s.card \in Cards
            /\ Attributed(s.card, s.date, s.imported, s.month)
         \/ \E r \in charges : /\ s.id = r.id /\ s.imported = r.imported
                               /\ MonthAfter(r, s.card, s.date, s.month)
                               /\ charges' = (charges \ {r}) \cup {s}
<1>1. CASE AddCharge
  BY <1>1 DEF AddCharge
<1>2. CASE \E r \in charges : UpdateCharge(r)
  <2>1. PICK r \in charges, c \in Cards \cup {NoCard}, d \in PurchaseDates,
             a \in Amounts, n \in BillMonths \cup {NoMonth} :
          /\ MonthAfter(r, c, d, n)
          /\ charges' = (charges \ {r}) \cup
               {[r EXCEPT !.card = c, !.date = d, !.amount = a, !.month = n]}
    BY <1>2 DEF UpdateCharge
  <2>2. r \in Charge
    BY DEF TypeOK
  <2>3. s = [r EXCEPT !.card = c, !.date = d, !.amount = a, !.month = n]
    BY <2>1
  <2>4. /\ s.id = r.id /\ s.imported = r.imported /\ s.card = c /\ s.date = d
        /\ s.month = n
    BY <2>2, <2>3 DEF Charge
  <2> QED
    BY <2>1, <2>3, <2>4
<1>3. CASE \E r \in charges : DeleteCharge(r)
  BY <1>3 DEF DeleteCharge
<1>4. CASE UNCHANGED charges
  BY <1>4
<1> QED
  BY <1>1, <1>2, <1>3, <1>4
  DEF Next, vars, PlanPurchase, SavePlan, RenderForm, SubmitTotal, WriteTotal,
      Reopen, Leave, Pay, UndoPayment, SetClosingDay, NextDay

\* What the trigger decides anew for a manual charge is an open fatura, and every
\* one from the month of the date up to it is closed.
LEMMA LandsOpen ==
  ASSUME NEW c, NEW d, NEW n, c # NoCard, Attributed(c, d, FALSE, n)
  PROVE  ~IsClosed(c, n) /\ \A m \in d.month .. n - 1 : IsClosed(c, m)
  BY DEF Attributed, FirstOpen

\* The action behind ClosedStaysFrozen holds of every step.
LEMMA FrozenStep == TypeOK /\ [Next]_vars => LeavesClosedFrozen
<1> SUFFICES ASSUME TypeOK, [Next]_vars, NEW s \in charges' \ charges,
                    s.card # NoCard, ~s.imported, IsClosed(s.card, s.month)
             PROVE  \E r \in charges : r.id = s.id /\ r.card = s.card
                                       /\ r.month = s.month
  BY DEF LeavesClosedFrozen
<1>1. CASE Attributed(s.card, s.date, s.imported, s.month)
  <2>1. Attributed(s.card, s.date, FALSE, s.month)
    BY <1>1 DEF Attributed
  <2> QED
    BY <2>1, LandsOpen
<1>2. CASE \E r \in charges : /\ s.id = r.id /\ s.imported = r.imported
                              /\ MonthAfter(r, s.card, s.date, s.month)
  <2>1. PICK r \in charges : /\ s.id = r.id /\ s.imported = r.imported
                             /\ MonthAfter(r, s.card, s.date, s.month)
    BY <1>2
  <2>2. CASE s.card = r.card /\ s.date = r.date
    BY <2>1, <2>2 DEF MonthAfter
  <2>3. CASE ~(s.card = r.card /\ s.date = r.date)
    <3>1. Attributed(s.card, s.date, s.imported, s.month)
      BY <2>1, <2>3 DEF MonthAfter
    <3> QED
      BY <1>1, <3>1
  <2> QED
    BY <2>2, <2>3
<1> QED
  BY <1>1, <1>2, ChargeSteps

(***************************************************************************)
(* No step puts a manual charge into a fatura that is closed.              *)
(***************************************************************************)
THEOREM Frozen == Spec => ClosedStaysFrozen
<1>1. TypeOK /\ [Next]_vars => [LeavesClosedFrozen]_vars
  BY FrozenStep
<1> QED
  BY <1>1, FaturaTypeCorrect, PTL DEF Spec, ClosedStaysFrozen

(***************************************************************************)
(* A manual charge passes over closed faturas only.                        *)
(***************************************************************************)
THEOREM NotSkipped == Spec => NoFaturaSkipped
<1>1. TypeOK /\ [Next]_vars => [SkipsClosedOnly]_vars
  <2> SUFFICES ASSUME TypeOK, [Next]_vars, NEW s \in charges' \ charges,
                      s.card # NoCard, ~s.imported,
                      \A r \in charges :
                        r.id = s.id => r.card # s.card \/ r.date # s.date
               PROVE  \A m \in s.date.month .. s.month - 1 : IsClosed(s.card, m)
    BY DEF SkipsClosedOnly
  <2>1. Attributed(s.card, s.date, s.imported, s.month)
    BY ChargeSteps DEF MonthAfter
  <2>2. Attributed(s.card, s.date, FALSE, s.month)
    BY <2>1 DEF Attributed
  <2> QED
    BY <2>2, LandsOpen
<1> QED
  BY <1>1, FaturaTypeCorrect, PTL DEF Spec, NoFaturaSkipped

(***************************************************************************)
(* A charge whose date and card stay as they were stays in its fatura.     *)
(***************************************************************************)
THEOREM KeepsMonth == Spec => CorrectionKeepsMonth
<1>1. TypeOK /\ [Next]_vars =>
        [\A r \in charges, s \in charges' :
           s.id = r.id /\ s.card = r.card /\ s.date = r.date
             => s.month = r.month]_vars
  <2> SUFFICES ASSUME TypeOK, [Next]_vars, NEW r \in charges, NEW s \in charges',
                      s.id = r.id, s.card = r.card, s.date = r.date
               PROVE  s.month = r.month
    OBVIOUS
  <2>0. \A x, y \in charges : x.id = y.id => x = y
    BY DEF TypeOK
  <2>1. CASE s \in charges
    BY <2>0, <2>1
  <2>2. CASE s \notin charges
    <3>1. ~Unused(s.id, charges)
      BY DEF Unused
    <3>2. PICK x \in charges : s.id = x.id /\ MonthAfter(x, s.card, s.date, s.month)
      BY <2>2, <3>1, ChargeSteps
    <3>3. x = r
      BY <2>0, <3>2
    <3> QED
      BY <3>2, <3>3 DEF MonthAfter
  <2> QED
    BY <2>1, <2>2
<1> QED
  BY <1>1, FaturaTypeCorrect, PTL DEF Spec, CorrectionKeepsMonth

------------------------------------------------------------------------
(***************************************************************************)
(* At once or in parcels, a purchase made by today starts in one fatura.   *)
(***************************************************************************)
LEMMA SameStart ==
  ASSUME TypeOK, NEW c \in Cards, NEW d \in PurchaseDates, NEW web \in BOOLEAN,
         ~After(d, today), closures[<<c, d.month>>].state # "open",
         NEW n \in BillMonths, FirstOpen(c, d.month, n),
         NEW k \in BillMonths, PlanStart(c, d, web, k)
  PROVE  n = k
<1>0. /\ n \in Int /\ k \in Int /\ d.month \in Int /\ d.month \in Months
      /\ d.day \in Int /\ today.month \in Int /\ today.day \in Int
      /\ closing[c] \in Int /\ MaxAdvance \in Nat /\ MonthLength[d.month] \in Int
  <2>1. d.month \in Months /\ d.day \in 1 .. MonthLength[d.month]
    BY FaturaAssumption
  <2>2. /\ today.month \in Months /\ today.day \in Nat
        /\ closing[c] \in ClosingDays
    BY DEF TypeOK
  <2>3. d.month \in BillMonths
    BY <2>1, FaturaAssumption DEF Months, BillMonths
  <2>4. MonthLength[d.month] \in Nat
    BY <2>3, FaturaAssumption
  <2>5. d.day \in Int
    BY <2>1, <2>4
  <2>6. Months \subseteq Int /\ BillMonths \subseteq Int
    BY DEF Months, BillMonths
  <2>7. ClosingDays \subseteq Nat /\ MaxAdvance \in Nat
    BY FaturaAssumption
  <2>8. closing[c] \in Int
    <3>1. closing[c] \in ClosingDays
      BY <2>2
    <3>2. closing[c] \in Nat
      BY <2>7, <3>1
    <3> QED
      BY <3>2
  <2>9. n \in Int /\ k \in Int /\ d.month \in Int /\ today.month \in Int
    BY <2>1, <2>2, <2>6
  <2> QED
    BY <2>1, <2>2, <2>4, <2>5, <2>7, <2>8, <2>9
<1>1. CASE Offset(c, d, web) = 0
  <2>1. FirstOpen(c, d.month, k)
    BY <1>0, <1>1 DEF PlanStart
  <2>2. d.month <= k /\ d.month <= n
    BY <1>0, <2>1 DEF FirstOpen
  <2> QED
    BY <1>0, <2>1, <2>2, FirstOpenUnique
<1>2. CASE Offset(c, d, web) = 1
  <2>1. /\ closing[c] # 0
        /\ d.day > ClosingDate(closing[c], d.month).day
    BY <1>2 DEF Offset, PlanningDay
  <2> DEFINE e == ClosingDate(closing[c], d.month)
  <2>2. e.month = d.month /\ e.day \in Int
    BY <1>0 DEF ClosingDate
  <2> HIDE DEF e
  <2>3. After(today, e)
    BY <1>0, <2>1, <2>2 DEF After, e
  <2>4. IsClosed(c, d.month)
    <3>1. <<c, d.month>> \in Bills
      BY <1>0, BillOf
    <3>2. closures[<<c, d.month>>].state \in {"none", "closed"}
      BY <3>1 DEF TypeOK, IsClosure
    <3> QED
      BY <2>1, <2>3, <3>2 DEF IsClosed, e
  <2>5. n # d.month
    BY <2>4 DEF FirstOpen
  <2>6. FirstOpen(c, d.month + 1, k)
    BY <1>2 DEF PlanStart
  <2>7. d.month <= k /\ d.month + 1 <= n
    BY <1>0, <2>5, <2>6 DEF FirstOpen
  <2> QED
    BY <1>0, <2>6, <2>7, FirstOpenUnique
<1> QED
  BY <1>1, <1>2 DEF Offset

THEOREM ParcelsFollowCharges == Spec => []FirstParcelLandsWithCharge
<1>1. TypeOK => FirstParcelLandsWithCharge
  BY SameStart DEF FirstParcelLandsWithCharge
<1> QED
  BY <1>1, FaturaTypeCorrect, PTL

(***************************************************************************)
(* Money.  What sums and comparisons of amounts rest on: the tables are    *)
(* finite, and a corrected total, in its row or on its way there from a    *)
(* form, is an amount.                                                     *)
(***************************************************************************)
MoneyInv ==
  /\ IsFiniteSet(charges) /\ IsFiniteSet(plans) /\ IsFiniteSet(payments)
  /\ \A b \in Bills : closures[b].total \in Nat \cup {NoTotal}
  /\ \A p \in People :
       /\ desk[p].step = "form" => desk[p].shown \in Nat
       /\ desk[p].step = "write" => desk[p].total \in Nat \cup {NoTotal}

LEMMA ChargeAmounts ==
  ASSUME TypeOK, MoneyInv, NEW c, NEW m
  PROVE  /\ IsFiniteSet(ChargesOf(c, m))
         /\ ChargesOf(c, m) \subseteq Charge
         /\ \A r \in Charge : AmountOf[r] = r.amount /\ AmountOf[r] \in Nat
<1>1. charges \subseteq Charge /\ ChargesOf(c, m) \in SUBSET charges
  BY DEF TypeOK, ChargesOf
<1>2. IsFiniteSet(ChargesOf(c, m))
  BY <1>1, FS_Subset DEF MoneyInv
<1>3. Amounts \subseteq Nat
  BY FaturaAssumption
<1> QED
  BY <1>1, <1>2, <1>3 DEF AmountOf, Charge

LEMMA ParcelNat ==
  ASSUME NEW what \in Purchases, NEW i \in Int
  PROVE  Parcel(what, i) \in Nat
<1>1. what.total \in Nat /\ what.count \in Nat \ {0}
  BY FaturaAssumption
<1>2. what.total \div what.count \in Nat
  BY <1>1
<1> QED
  BY <1>2 DEF Parcel

LEMMA ParcelAmounts ==
  ASSUME TypeOK, MoneyInv, NEW c, NEW m \in Int
  PROVE  /\ IsFiniteSet(PlansOf(c, m))
         /\ \A g \in PlansOf(c, m) : ParcelIn(m)[g] \in Nat
<1>1. plans \subseteq Plan /\ PlansOf(c, m) \in SUBSET plans
  BY DEF TypeOK, PlansOf
<1>2. IsFiniteSet(PlansOf(c, m))
  BY <1>1, FS_Subset DEF MoneyInv
<1>3. ASSUME NEW g \in PlansOf(c, m) PROVE ParcelIn(m)[g] \in Nat
  <2>1. g \in Plan /\ g.what \in Purchases /\ g.start \in Int
    BY <1>1 DEF Plan, BillMonths
  <2>2. Parcel(g.what, m - g.start + 1) \in Nat
    BY <2>1, ParcelNat
  <2> QED
    BY <2>1, <2>2 DEF ParcelIn
<1> QED
  BY <1>2, <1>3

LEMMA PaymentAmounts ==
  ASSUME TypeOK, MoneyInv, NEW c, NEW m
  PROVE  /\ IsFiniteSet(PaymentsOf(c, m))
         /\ PaymentsOf(c, m) \subseteq Payment
         /\ \A p \in Payment : PaidBy[p] = p.amount /\ PaidBy[p] \in Nat
<1>1. payments \subseteq Payment /\ PaymentsOf(c, m) \in SUBSET payments
  BY DEF TypeOK, PaymentsOf
<1>2. IsFiniteSet(PaymentsOf(c, m))
  BY <1>1, FS_Subset DEF MoneyInv
<1>3. Paids \subseteq Nat
  BY FaturaAssumption
<1> QED
  BY <1>1, <1>2, <1>3 DEF PaidBy, Payment

LEMMA LiveTotalNat ==
  ASSUME TypeOK, MoneyInv, NEW c, NEW m \in Int
  PROVE  LiveTotal(c, m) \in Nat
<1>1. SumFunctionOnSet(AmountOf, ChargesOf(c, m)) \in Nat
  BY ChargeAmounts, SumNat
<1>2. SumFunctionOnSet(ParcelIn(m), PlansOf(c, m)) \in Nat
  BY ParcelAmounts, SumNat
<1> QED
  BY <1>1, <1>2 DEF LiveTotal

LEMMA TotalNat ==
  ASSUME TypeOK, MoneyInv, NEW c \in Cards, NEW m \in BillMonths
  PROVE  Total(c, m) \in Nat /\ Paid(c, m) \in Nat
<1>1. LiveTotal(c, m) \in Nat
  BY LiveTotalNat DEF BillMonths
<1>2. closures[<<c, m>>].total \in Nat \cup {NoTotal}
  BY DEF MoneyInv, Bills
<1>3. Paid(c, m) \in Nat
  BY PaymentAmounts, SumNat DEF Paid
<1> QED
  BY <1>1, <1>2, <1>3 DEF Total

TotalsNat == \A c \in Cards, m \in BillMonths : Total(c, m) \in Nat /\ Paid(c, m) \in Nat

LEMMA AllTotalsNat == TypeOK /\ MoneyInv => TotalsNat
  BY TotalNat DEF TotalsNat

LEMMA MoneyInit == Init => MoneyInv
  BY FS_EmptySet DEF Init, MoneyInv, NoOverride, Away

LEMMA TablesStayFinite ==
  ASSUME MoneyInv, [Next]_vars
  PROVE  IsFiniteSet(charges') /\ IsFiniteSet(plans') /\ IsFiniteSet(payments')
<1>0. IsFiniteSet(charges) /\ IsFiniteSet(plans) /\ IsFiniteSet(payments)
  BY DEF MoneyInv
<1>1. \A r, s : /\ IsFiniteSet(charges \cup {s}) /\ IsFiniteSet(charges \ {r})
                /\ IsFiniteSet((charges \ {r}) \cup {s})
                /\ IsFiniteSet(plans \cup {s})
                /\ IsFiniteSet(payments \cup {s}) /\ IsFiniteSet(payments \ {r})
  BY <1>0, FS_AddElement, FS_RemoveElement
<1>2. CASE AddCharge
  BY <1>0, <1>1, <1>2 DEF AddCharge
<1>3. CASE \E r \in charges : UpdateCharge(r)
  <2>1. PICK r \in charges : UpdateCharge(r)
    BY <1>3
  <2>2. PICK c \in Cards \cup {NoCard}, d \in PurchaseDates,
             a \in Amounts, n \in BillMonths \cup {NoMonth} :
          charges' = (charges \ {r}) \cup
            {[r EXCEPT !.card = c, !.date = d, !.amount = a, !.month = n]}
    BY <2>1 DEF UpdateCharge
  <2>3. IsFiniteSet(charges')
    BY <1>1, <2>2
  <2>4. plans' = plans /\ payments' = payments
    BY <2>1 DEF UpdateCharge
  <2> QED
    BY <1>0, <2>3, <2>4
<1>4. CASE \E r \in charges : DeleteCharge(r)
  BY <1>0, <1>1, <1>4 DEF DeleteCharge
<1>5. CASE \E p \in People : SavePlan(p)
  BY <1>0, <1>1, <1>5 DEF SavePlan
<1>6. CASE Pay
  BY <1>0, <1>1, <1>6 DEF Pay
<1>7. CASE \E r \in payments : UndoPayment(r)
  BY <1>0, <1>1, <1>7 DEF UndoPayment
<1>8. CASE UNCHANGED <<charges, plans, payments>>
  BY <1>0, <1>8
<1> QED
  BY <1>2, <1>3, <1>4, <1>5, <1>6, <1>7, <1>8
  DEF Next, vars, PlanPurchase, RenderForm, SubmitTotal, WriteTotal, Reopen, Leave,
      SetClosingDay, NextDay

\* The form shows an amount, and what is typed or left as shown is one.
LEMMA TotalsStep ==
  ASSUME TypeOK, MoneyInv, [Next]_vars
  PROVE  /\ \A b \in Bills : closures'[b].total \in Nat \cup {NoTotal}
         /\ \A p \in People :
              /\ desk'[p].step = "form" => desk'[p].shown \in Nat
              /\ desk'[p].step = "write" => desk'[p].total \in Nat \cup {NoTotal}
<1> DEFINE DeskMoney(d) == /\ d.step = "form" => d.shown \in Nat
                           /\ d.step = "write" => d.total \in Nat \cup {NoTotal}
<1>0. /\ \A b \in Bills : closures[b].total \in Nat \cup {NoTotal}
      /\ \A p \in People : DeskMoney(desk[p])
  BY DEF MoneyInv
<1>1. /\ closures = [b \in Bills |-> closures[b]]
      /\ desk = [p \in People |-> desk[p]]
      /\ \A p \in People : IsDesk(desk[p])
  BY DEF TypeOK
<1> SUFFICES /\ \A b \in Bills : closures'[b].total \in Nat \cup {NoTotal}
             /\ \A p \in People : DeskMoney(desk'[p])
  OBVIOUS
<1>2. ASSUME NEW p \in People, NEW d, DeskMoney(d), desk' = [desk EXCEPT ![p] = d]
      PROVE  \A q \in People : DeskMoney(desk'[q])
  <2> HIDE DEF DeskMoney
  <2> QED
    BY <1>0, <1>1, <1>2
<1>3. DeskMoney(Away)
  BY DEF Away
<1>4. ASSUME NEW p \in People, PlanPurchase(p)
      PROVE  \A q \in People : DeskMoney(desk'[q])
  <2>1. PICK c \in Cards, what \in Purchases, n \in BillMonths :
          desk' = [desk EXCEPT ![p] = [step |-> "plan", card |-> c,
                                       start |-> n, what |-> what]]
    BY <1>4 DEF PlanPurchase
  <2>2. DeskMoney([step |-> "plan", card |-> c, start |-> n, what |-> what])
    OBVIOUS
  <2> HIDE DEF DeskMoney
  <2> QED
    BY <1>2, <2>1, <2>2
<1>5. ASSUME NEW p \in People, RenderForm(p)
      PROVE  \A q \in People : DeskMoney(desk'[q])
  <2>1. PICK c \in Cards, m \in Months :
          desk' = [desk EXCEPT ![p] =
                     [step |-> "form", card |-> c, month |-> m,
                      closed |-> IsClosed(c, m), shown |-> Total(c, m)]]
    BY <1>5 DEF RenderForm
  <2>2. m \in BillMonths
    BY FaturaAssumption DEF Months, BillMonths
  <2>3. DeskMoney([step |-> "form", card |-> c, month |-> m,
                   closed |-> IsClosed(c, m), shown |-> Total(c, m)])
    BY <2>2, TotalNat
  <2> HIDE DEF DeskMoney
  <2> QED
    BY <1>2, <2>1, <2>3
<1>6. ASSUME NEW p \in People, SubmitTotal(p)
      PROVE  \A q \in People : DeskMoney(desk'[q])
  <2>1. PICK t \in Typed \cup {NoTotal, desk[p].shown} :
          desk' = [desk EXCEPT ![p] =
            [step |-> "write", card |-> desk[p].card, month |-> desk[p].month,
             total |-> IF t = LiveTotal(desk[p].card, desk[p].month)
                       THEN NoTotal ELSE t,
             untouched |-> ~desk[p].closed /\ t = desk[p].shown]]
    BY <1>6 DEF SubmitTotal
  <2>2. t \in Nat \cup {NoTotal}
    BY <1>0, <1>6, FaturaAssumption DEF SubmitTotal
  <2> DEFINE d == [step |-> "write", card |-> desk[p].card, month |-> desk[p].month,
             total |-> IF t = LiveTotal(desk[p].card, desk[p].month)
                       THEN NoTotal ELSE t,
             untouched |-> ~desk[p].closed /\ t = desk[p].shown]
  <2>3. DeskMoney(d)
    BY <2>2
  <2>4. desk' = [desk EXCEPT ![p] = d]
    BY <2>1
  <2> HIDE DEF DeskMoney, d
  <2> QED
    BY <1>2, <2>3, <2>4
<1>7. ASSUME NEW p \in People, WriteTotal(p)
      PROVE  /\ \A b \in Bills : closures'[b].total \in Nat \cup {NoTotal}
             /\ \A q \in People : DeskMoney(desk'[q])
  <2>1. /\ closures' = [closures EXCEPT ![<<desk[p].card, desk[p].month>>] =
                          Override("closed", desk[p].total)]
        /\ desk' = [desk EXCEPT ![p] = Away]
        /\ desk[p].total \in Nat \cup {NoTotal}
    BY <1>0, <1>7 DEF WriteTotal
  <2>2. Override("closed", desk[p].total).total = desk[p].total
    BY DEF Override
  <2>3. \A b \in Bills : closures'[b].total \in Nat \cup {NoTotal}
    BY <1>0, <1>1, <2>1, <2>2
  <2> HIDE DEF DeskMoney
  <2> QED
    BY <1>2, <1>3, <2>1, <2>3
<1>8. ASSUME NEW p \in People, Reopen(p)
      PROVE  /\ \A b \in Bills : closures'[b].total \in Nat \cup {NoTotal}
             /\ \A q \in People : DeskMoney(desk'[q])
  <2>1. /\ closures' = [closures EXCEPT ![<<desk[p].card, desk[p].month>>] =
                          Reopened(desk[p].card, desk[p].month)]
        /\ desk' = [desk EXCEPT ![p] = Away]
    BY <1>8 DEF Reopen
  <2>2. Reopened(desk[p].card, desk[p].month).total = NoTotal
    BY DEF Override, Reopened
  <2>3. \A b \in Bills : closures'[b].total \in Nat \cup {NoTotal}
    BY <1>0, <1>1, <2>1, <2>2
  <2> HIDE DEF DeskMoney
  <2> QED
    BY <1>2, <1>3, <2>1, <2>3
<1>9. ASSUME NEW p \in People, SavePlan(p) \/ Leave(p)
      PROVE  \A q \in People : DeskMoney(desk'[q])
  <2> HIDE DEF DeskMoney
  <2> QED
    BY <1>2, <1>3, <1>9 DEF SavePlan, Leave
<1> HIDE DEF DeskMoney
<1>10. CASE UNCHANGED <<closures, desk>>
  BY <1>0, <1>10
<1>11. CASE UNCHANGED closures /\ \A q \in People : DeskMoney(desk'[q])
  BY <1>0, <1>11
<1> QED
  BY <1>4, <1>5, <1>6, <1>7, <1>8, <1>9, <1>10, <1>11
  DEF Next, vars, AddCharge, UpdateCharge, DeleteCharge, PlanPurchase, SavePlan,
      RenderForm, SubmitTotal, Leave, Pay, UndoPayment, SetClosingDay, NextDay

LEMMA MoneyStep == TypeOK /\ MoneyInv /\ [Next]_vars => MoneyInv'
<1> SUFFICES ASSUME TypeOK, MoneyInv, [Next]_vars PROVE MoneyInv'
  OBVIOUS
<1> QED
  BY TablesStayFinite, TotalsStep DEF MoneyInv

LEMMA MoneyAlways == Spec => [](TypeOK /\ MoneyInv)
  BY TypeInit, TypeStep, MoneyInit, MoneyStep, PTL DEF Spec

(***************************************************************************)
(* The fatura before the open one is shown exactly when it is owed.        *)
(***************************************************************************)
THEOREM OwedIsPending == Spec => []PendingIsOwed
<1>1. TypeOK /\ MoneyInv => PendingIsOwed
  <2> SUFFICES ASSUME TypeOK, MoneyInv, NEW c \in Cards, NEW n \in BillMonths,
                      FirstOpen(c, today.month, n)
               PROVE  Pending(c, n) <=> IsClosed(c, n - 1) /\ Remaining(c, n - 1) > 0
    BY DEF PendingIsOwed
  <2>1. n - 1 \in BillMonths
    <3>1. today.month \in Months /\ n \in today.month .. today.month + MaxAdvance
      BY DEF TypeOK, FirstOpen
    <3> QED
      BY <3>1, FaturaAssumption DEF Months, BillMonths
  <2>2. Total(c, n - 1) \in Nat /\ Paid(c, n - 1) \in Nat
    BY <2>1, TotalNat
  <2>3. CASE IsClosed(c, n - 1)
    <3>1. Status(c, n - 1) = StatusOf(TRUE, Total(c, n - 1), Paid(c, n - 1))
      BY <2>3 DEF Status
    <3>2. Status(c, n - 1) \in {"closed_unpaid", "closed_partial"}
            <=> Paid(c, n - 1) < Total(c, n - 1)
      BY <2>2, <3>1, StatusSaysWhatIsDue
    <3>3. Remaining(c, n - 1) > 0 <=> Paid(c, n - 1) < Total(c, n - 1)
      BY <2>2 DEF Remaining
    <3> QED
      BY <2>3, <3>2, <3>3 DEF Pending
  <2>4. CASE ~IsClosed(c, n - 1)
    BY <2>4 DEF Pending
  <2> QED
    BY <2>3, <2>4
<1> QED
  BY <1>1, MoneyAlways, PTL
------------------------------------------------------------------------
(* A paid fatura stays paid.                                             *)

LEMMA MonthsOfCalendar ==
  ASSUME NEW m \in BillMonths
  PROVE  m \in Int /\ MonthLength[m] \in Nat
  BY FaturaAssumption DEF BillMonths

\* A fatura that is closed stays so unless it is reopened or its card gets
\* another closing day: the calendar does not turn back.
LEMMA StaysClosed ==
  ASSUME TypeOK, [Next]_vars, NEW c \in Cards, NEW m \in BillMonths, IsClosed(c, m),
         closures'[<<c, m>>] = closures[<<c, m>>], closing'[c] = closing[c]
  PROVE  IsClosed(c, m)'
<1> DEFINE e == ClosingDate(closing[c], m)
<1>1. /\ today.month \in Int /\ today.day \in Int
      /\ e.month \in Int /\ e.day \in Int
  <2>1. today.month \in Int /\ today.day \in Int /\ closing[c] \in Int
    BY FaturaAssumption DEF TypeOK, Months
  <2> QED
    BY <2>1, MonthsOfCalendar DEF ClosingDate
<1>2. After(today, e) => After(today', e)
  <2>1. CASE today' = today
    BY <2>1
  <2>2. CASE today' = [today EXCEPT !.day = @ + 1]
    <3>1. today'.month = today.month /\ today'.day = today.day + 1
      BY <2>2 DEF TypeOK
    <3> HIDE DEF e
    <3> QED
      BY <1>1, <3>1 DEF After
  <2>3. CASE today' = [month |-> today.month + 1, day |-> 1]
    <3> HIDE DEF e
    <3> QED
      BY <1>1, <2>3 DEF After
  <2> QED
    BY <2>1, <2>2, <2>3
    DEF Next, vars, NextDay, AddCharge, UpdateCharge, DeleteCharge, PlanPurchase,
        SavePlan, RenderForm, SubmitTotal, WriteTotal, Reopen, Leave, Pay,
        UndoPayment, SetClosingDay
<1> HIDE DEF e
<1>3. closures'[<<c, m>>].state = closures[<<c, m>>].state
  OBVIOUS
<1> QED
  BY <1>2, <1>3 DEF IsClosed, e

\* What was charged to a fatura that is closed does not grow by a manual
\* charge: the total of the charges stays as it is, or falls.
LEMMA ChargedNoMore ==
  ASSUME TypeOK, MoneyInv, [Next]_vars, NEW c \in Cards, NEW m \in BillMonths,
         IsClosed(c, m), ~Amended(c, m), TypeOK', MoneyInv'
  PROVE  SumFunctionOnSet(AmountOf, ChargesOf(c, m)')
           <= SumFunctionOnSet(AmountOf, ChargesOf(c, m))
<1> DEFINE S == ChargesOf(c, m)
           Total1(T) == SumFunctionOnSet(AmountOf, T)
<1>0. /\ IsFiniteSet(S) /\ S \subseteq Charge
      /\ \A r \in Charge : AmountOf[r] = r.amount /\ AmountOf[r] \in Nat
      /\ Total1(S) \in Nat
  <2>1. /\ IsFiniteSet(S) /\ S \subseteq Charge
        /\ \A r \in Charge : AmountOf[r] = r.amount /\ AmountOf[r] \in Nat
    BY ChargeAmounts
  <2> QED
    BY <2>1, SumNat
<1>1. CASE ChargesOf(c, m)' \subseteq S
  BY <1>0, <1>1, SumOfSubset
<1>2. CASE ~(ChargesOf(c, m)' \subseteq S)
  <2>1. PICK s \in charges' \ charges : s.card = c /\ s.month = m
    BY <1>2 DEF ChargesOf
  <2>2. s.card # NoCard /\ ~s.imported
    BY <2>1, FaturaAssumption DEF Amended
  <2>3. PICK q \in charges : q.id = s.id /\ q.card = c /\ q.month = m
    BY <2>1, <2>2, FrozenStep DEF LeavesClosedFrozen
  <2>4. PICK r \in charges : s.id = r.id /\ charges' = (charges \ {r}) \cup {s}
    BY <2>1, <2>3, ChargeSteps DEF Unused
  <2>5. r = q
    BY <2>3, <2>4 DEF TypeOK
  <2>6. r.amount = s.amount
    BY <2>1, <2>4 DEF Amended
  <2>7. r \in S /\ s \notin S /\ s \in Charge
    BY <2>1, <2>3, <2>5 DEF ChargesOf, TypeOK
  <2>8. ChargesOf(c, m)' = (S \ {r}) \cup {s}
    BY <2>1, <2>4 DEF ChargesOf
  <2>9. AmountOf[r] = AmountOf[s] /\ \A z \in S \cup {s} : AmountOf[z] \in Int
    BY <1>0, <2>6, <2>7
  <2>10. Total1((S \ {r}) \cup {s}) = Total1(S)
    <3> HIDE DEF S
    <3> QED
      BY <1>0, <2>7, <2>9, SumReplaced
  <2> HIDE DEF S
  <2> QED
    BY <1>0, <2>8, <2>10 DEF S
<1> QED
  BY <1>1, <1>2

\* A payment that is not undone counts as long as its fatura has it.
LEMMA PaidNoLess ==
  ASSUME TypeOK, MoneyInv, NEW c \in Cards, NEW m \in BillMonths,
         ~Amended(c, m), TypeOK', MoneyInv'
  PROVE  Paid(c, m) <= Paid(c, m)'
<1>1. PaymentsOf(c, m) \subseteq PaymentsOf(c, m)'
  BY DEF Amended, PaymentsOf
<1>2. /\ IsFiniteSet(PaymentsOf(c, m)') /\ PaymentsOf(c, m)' \subseteq Payment
      /\ \A p \in Payment : PaidBy[p] \in Nat
  <2>1. payments' \subseteq Payment /\ PaymentsOf(c, m)' \in SUBSET payments'
    BY DEF TypeOK, PaymentsOf
  <2>2. IsFiniteSet(PaymentsOf(c, m)')
    BY <2>1, FS_Subset DEF MoneyInv
  <2> QED
    BY <2>1, <2>2, PaymentAmounts
<1> QED
  BY <1>1, <1>2, SumOfSubset DEF Paid

LEMMA PaidStep ==
  ASSUME TypeOK, MoneyInv, [Next]_vars, TypeOK', MoneyInv', NEW c \in Cards,
         NEW m \in BillMonths, Status(c, m) = "paid", ~Amended(c, m), plans' = plans
  PROVE  Status(c, m)' = "paid"
<1>1. Total(c, m) \in Nat /\ Paid(c, m) \in Nat
  BY TotalNat
<1>2. Total(c, m)' \in Nat /\ Paid(c, m)' \in Nat
  <2>1. TotalsNat'
    BY AllTotalsNat, PTL
  <2> QED
    BY <2>1 DEF TotalsNat
<1>3. IsClosed(c, m) /\ Paid(c, m) > 0 /\ Paid(c, m) >= Total(c, m)
  BY <1>1 DEF Status, StatusOf
<1>4. /\ closures'[<<c, m>>] = closures[<<c, m>>]
      /\ closing'[c] = closing[c]
  BY DEF Amended
<1>5. IsClosed(c, m)'
  BY <1>3, <1>4, StaysClosed
<1>6. Total(c, m)' <= Total(c, m)
  <2>1. CASE closures[<<c, m>>].total # NoTotal
    BY <1>1, <1>3, <1>4, <1>5, <2>1 DEF Total
  <2>2. CASE closures[<<c, m>>].total = NoTotal
    <3>1. Total(c, m) = LiveTotal(c, m) /\ Total(c, m)' = LiveTotal(c, m)'
      BY <1>4, <2>2 DEF Total
    <3>2. PlansOf(c, m)' = PlansOf(c, m)
      BY DEF PlansOf
    <3>3. /\ SumFunctionOnSet(AmountOf, ChargesOf(c, m)) \in Nat
          /\ SumFunctionOnSet(ParcelIn(m), PlansOf(c, m)) \in Nat
      <4>1. m \in Int
        BY MonthsOfCalendar
      <4> QED
        BY <4>1, ChargeAmounts, ParcelAmounts, SumNat
    <3>4. SumFunctionOnSet(AmountOf, ChargesOf(c, m)')
            <= SumFunctionOnSet(AmountOf, ChargesOf(c, m))
      BY <1>3, ChargedNoMore
    <3>5. LiveTotal(c, m)' = SumFunctionOnSet(AmountOf, ChargesOf(c, m)')
                             + SumFunctionOnSet(ParcelIn(m), PlansOf(c, m))
      BY <3>2 DEF LiveTotal
    <3>6. SumFunctionOnSet(AmountOf, ChargesOf(c, m)') \in Nat
      <4>1. charges' \subseteq Charge /\ ChargesOf(c, m)' \in SUBSET charges'
        BY DEF TypeOK, ChargesOf
      <4>2. IsFiniteSet(ChargesOf(c, m)')
        BY <4>1, FS_Subset DEF MoneyInv
      <4> QED
        BY <4>1, <4>2, ChargeAmounts, SumNat
    <3> QED
      BY <3>1, <3>3, <3>4, <3>5, <3>6 DEF LiveTotal
  <2> QED
    BY <2>1, <2>2
<1>7. Paid(c, m)' >= Paid(c, m)
  BY <1>1, <1>2, PaidNoLess
<1> QED
  BY <1>1, <1>2, <1>3, <1>5, <1>6, <1>7 DEF Status, StatusOf

(***************************************************************************)
(* A paid fatura becomes due again only by what says so.                   *)
(***************************************************************************)
THEOREM StaysPaid == Spec => PaidStaysPaid
<1> DEFINE Keeps == \A b \in BillsWithPayment :
              Status(b[1], b[2]) = "paid" /\ Status(b[1], b[2])' # "paid" =>
                Amended(b[1], b[2]) \/ plans' # plans
<1>1. TypeOK /\ MoneyInv /\ [Next]_vars /\ TypeOK' /\ MoneyInv' => Keeps
  <2> SUFFICES ASSUME TypeOK, MoneyInv, [Next]_vars, TypeOK', MoneyInv',
                      NEW b \in BillsWithPayment, Status(b[1], b[2]) = "paid",
                      ~Amended(b[1], b[2]), plans' = plans
               PROVE  Status(b[1], b[2])' = "paid"
    OBVIOUS
  <2>1. b \in Bills
    BY DEF BillsWithPayment, TypeOK, Payment
  <2>2. b[1] \in Cards /\ b[2] \in BillMonths
    BY <2>1 DEF Bills
  <2> QED
    BY <2>2, PaidStep
<1>2. TypeOK /\ MoneyInv /\ [Next]_vars /\ TypeOK' /\ MoneyInv' => [Keeps]_vars
  BY <1>1
<1> HIDE DEF Keeps
<1>3. Spec => [][Keeps]_vars
  BY <1>2, MoneyAlways, PTL DEF Spec
<1> QED
  BY <1>3 DEF Keeps, PaidStaysPaid
=============================================================================
