--------------------- MODULE ObligationPayments_proofs ---------------------
(***************************************************************************)
(* Theorems about ObligationPayments, for any templates, amounts, months,  *)
(* terms and number of calls in flight.                                    *)
(***************************************************************************)
EXTENDS ObligationPayments, TLAPS

(***************************************************************************)
(* The inductive invariant.                                                *)
(***************************************************************************)

\* A month lies in the window of a template, whatever its status.
Covers(o, mo) ==
  /\ Exists(o)
  /\ MonthIndex(mo) >= MonthIndex(templates[o].start)
  /\ templates[o].term # NoTerm =>
       MonthIndex(mo) <= MonthIndex(templates[o].start) + templates[o].term - 1

\* What the phases of the conversation, the handler and the calls hold.
Shape ==
  /\ chat.status = "confirming" => chat.draft \in Template
  /\ settling.phase = "creating" => settling.draft \in Template
  /\ settling.phase \in {"listed", "waiting"} =>
       settling.o \in Obligations /\ settling.month \in DueMonths
  /\ settling.request # NoRequest => settling.phase = "waiting"
  /\ \A c \in requests : c.step = "read" => c.amount \in Values

\* What a call has read, and what is paid, is in the template's window.
InWindow ==
  /\ \A c \in requests : c.step = "read" => Covers(c.o, c.month)
  /\ \A p \in paid : Covers(p.o, p.month)

\* A listed candidate has the listed amount until it is edited.
ListedIsCurrent ==
  /\ \A o \in Obligations : chat.shown[o] # NoValue =>
       Exists(o) /\ (templates[o].amount = chat.shown[o] \/ o \in chat.edited)
  /\ settling.phase \in {"listed", "waiting"} =>
       /\ Exists(settling.o)
       /\ \/ templates[settling.o].amount = settling.shown
          \/ settling.o \in settling.edited

\* An amount the bot may name for v.
Named(v) == \/ SaidAmount(settling) = v
            \/ settling.amount = NoValue /\ settling.o \in settling.edited

\* The call the handler waits for is about what it will name.
CallIsOurs ==
  settling.phase = "waiting" =>
    \A c \in requests : c.name = settling.request =>
      /\ c.o = settling.o
      /\ c.step = "sent" => c.amount = settling.amount
      /\ c.step = "read" => Named(c.amount)

\* What was due stays in its window, and was read unless it is cancelled.
DueStays ==
  /\ pressure.month = NoMonth => pressure.due = {}
  /\ \A o \in pressure.due : Covers(o, pressure.month)
  /\ "templates" \in pressure.read =>
       \A o \in pressure.due :
         o \in pressure.active \/ templates[o].status = "canceled"

------------------------------------------------------------------------
(* Months.                                                               *)

LEMMA Division ==
  ASSUME NEW z \in Nat
  PROVE  z \div 12 \in Nat /\ z % 12 \in Nat /\ z = 12 * (z \div 12) + (z % 12)
  BY SMT

\* MonthDiff is the difference of the months' positions.
LEMMA DiffOfIndex ==
  ASSUME NEW a, NEW b, a.y \in Int, a.m \in Int, b.y \in Int, b.m \in Int
  PROVE  MonthDiff(a, b) = MonthIndex(b) - MonthIndex(a) /\ MonthIndex(a) \in Int
<1> DEFINE ay == a.y
           am == a.m
           by == b.y
           bm == b.m
<1>1. /\ MonthDiff(a, b) = (by - ay) * 12 + (bm - am)
      /\ MonthIndex(b) = 12 * by + bm - 1 /\ MonthIndex(a) = 12 * ay + am - 1
  BY DEF MonthDiff, MonthIndex
<1>2. ay \in Int /\ am \in Int /\ by \in Int /\ bm \in Int
  OBVIOUS
<1> HIDE DEF ay, am, by, bm
<1> QED
  BY <1>1, <1>2

LEMMA IndexOfSum ==
  ASSUME NEW mo, mo.y \in Nat, mo.m \in 1 .. 12, NEW k \in Nat
  PROVE  /\ AddMonthsYm(mo, k).y \in Int /\ AddMonthsYm(mo, k).m \in Int
         /\ MonthIndex(AddMonthsYm(mo, k)) = MonthIndex(mo) + k
<1> DEFINE y == mo.y
           m == mo.m
           z == m - 1 + k
           q == z \div 12
           r == z % 12
<1>1. AddMonthsYm(mo, k) = [y |-> y + q, m |-> r + 1]
  BY DEF AddMonthsYm
<1>2. /\ AddMonthsYm(mo, k).y = y + q /\ AddMonthsYm(mo, k).m = r + 1
      /\ MonthIndex(AddMonthsYm(mo, k)) = 12 * (y + q) + (r + 1) - 1
      /\ MonthIndex(mo) = 12 * y + m - 1
  BY <1>1 DEF MonthIndex
<1>3. y \in Nat /\ m \in 1 .. 12
  OBVIOUS
<1>4. z \in Nat /\ z = m - 1 + k
  BY <1>3
<1>5. q \in Nat /\ r \in Nat /\ z = 12 * q + r
  BY <1>4, Division
<1> HIDE DEF y, m, z, q, r
<1> QED
  BY <1>2, <1>3, <1>4, <1>5

\* The term's last month, counted in years and months, is the one counted
\* in months: the bot and the web agree with the database on every window.
THEOREM WindowsAgree ==
  ASSUME NEW t \in Template, NEW mo \in DueMonths
  PROVE  Projects(t, mo) <=> Payable(t, mo)
<1>1. /\ t.start.y \in Nat /\ t.start.m \in 1 .. 12
      /\ mo.y \in Nat /\ mo.m \in 1 .. 12
  BY ObligationAssumption DEF Template
<1>2. /\ MonthDiff(t.start, mo) = MonthIndex(mo) - MonthIndex(t.start)
      /\ MonthIndex(t.start) \in Int /\ MonthIndex(mo) \in Int
  BY <1>1, DiffOfIndex
<1>3. ASSUME t.term # NoTerm
      PROVE  /\ MonthDiff(mo, EndMonth(t))
                  = MonthIndex(t.start) + (t.term - 1) - MonthIndex(mo)
             /\ t.term \in Nat
  <2>1. t.term \in Nat \ {0}
    BY <1>3, ObligationAssumption DEF Template
  <2> DEFINE e == EndMonth(t)
  <2>2. e.y \in Int /\ e.m \in Int /\ MonthIndex(e) = MonthIndex(t.start) + (t.term - 1)
    BY <1>1, <2>1, IndexOfSum DEF EndMonth
  <2>3. MonthDiff(mo, e) = MonthIndex(e) - MonthIndex(mo)
    BY <1>1, <2>2, DiffOfIndex
  <2> HIDE DEF e
  <2>4. MonthDiff(mo, e) = MonthIndex(t.start) + (t.term - 1) - MonthIndex(mo)
    BY <1>2, <2>1, <2>2, <2>3
  <2> QED
    BY <2>1, <2>4 DEF e
<1> QED
  BY <1>2, <1>3 DEF Projects, Payable

------------------------------------------------------------------------
(* Types.                                                                *)

LEMMA Absent ==
  ClosedChat \in Chat /\ NoTask \in Task /\ ClosedChat.status = "closed"
  /\ NoTask.phase = "idle" /\ NoTask.request = NoRequest
  BY DEF ClosedChat, Chat, NoTask, Task

LEMMA NewRequestType ==
  ASSUME NEW r \in Requests, NEW o \in Obligations,
         NEW v \in Values \cup {NoValue}, NEW mo \in DueMonths
  PROVE  /\ NewRequest(r, o, v, mo) \in Request
         /\ NewRequest(r, o, v, mo).step = "sent"
  BY DEF NewRequest, Request

LEMMA AnswerType ==
  ASSUME ObligationTypeOK, NEW c \in requests, NEW v \in Values \cup {NoValue},
         NEW a \in {"paid", "already", "failed"}
  PROVE  AnswerTo(c, a, v) \in Task
<1> DEFINE s == [settling EXCEPT !.phase = "answered", !.answer = a,
                                 !.recorded = v, !.request = NoRequest]
<1>1. settling \in Task
  BY DEF ObligationTypeOK
<1>2. s \in Task
  BY <1>1 DEF Task
<1> QED
  BY <1>1, <1>2 DEF AnswerTo

LEMMA TypeInit == ObligationInit => ObligationTypeOK /\ Shape
  BY Absent DEF ObligationInit, ObligationTypeOK, Quiet, Shape

LEMMA TemplatesStep ==
  ASSUME ObligationTypeOK, Shape, [ObligationNext]_obligationVars
  PROVE  templates' \in [Obligations -> Template \cup {NoTemplate}]
<1>1. CASE \E o \in Obligations : SaveDraft(o)
  BY <1>1 DEF SaveDraft, ObligationTypeOK, Shape
<1>2. CASE \E o \in Obligations, t \in NewTemplates : CreateTemplate(o, t)
  BY <1>2 DEF CreateTemplate, NewTemplates, ObligationTypeOK
<1>3. CASE \E o \in Obligations, v \in Values : EditTemplate(o, v)
  BY <1>3 DEF EditTemplate, Exists, Template, ObligationTypeOK
<1>4. CASE \E o \in Obligations : CancelTemplate(o)
  BY <1>4 DEF CancelTemplate, Exists, Template, ObligationTypeOK
<1>5. CASE UNCHANGED templates
  BY <1>5 DEF ObligationTypeOK
<1> QED
  BY <1>1, <1>2, <1>3, <1>4, <1>5
  DEF ObligationNext, ObligationBot, ObligationWeb, ObligationDashboard,
      ObligationDatabase, obligationVars, MentionPayment, ChooseObligation, DropChat,
      SendPayment, GiveUpOnAnswer, ReplyPayment, SettlingStops, ReadTemplate,
      InsertPayment, LoseRequest, DescribeTemplate, CorrectDraft, ConfirmDraft,
      PayOnWeb, UndoObligationPayment, EditObligationPayment, AskPressure,
      ReadActive, ReadSettled
LEMMA PaidStep ==
  ASSUME ObligationTypeOK, Shape, [ObligationNext]_obligationVars
  PROVE  paid' \in SUBSET Payment
<1>1. CASE \E c \in requests : InsertPayment(c)
  BY <1>1 DEF InsertPayment, AsPayment, Shape, ObligationTypeOK, Request, Payment
<1>2. CASE \E p \in paid : UndoObligationPayment(p)
  BY <1>2 DEF UndoObligationPayment, ObligationTypeOK
<1>3. CASE \E p \in paid, v \in Values : EditObligationPayment(p, v)
  BY <1>3 DEF EditObligationPayment, ObligationTypeOK, Payment
<1>4. CASE UNCHANGED paid
  BY <1>4 DEF ObligationTypeOK
<1> QED
  BY <1>1, <1>2, <1>3, <1>4
  DEF ObligationNext, ObligationBot, ObligationWeb, ObligationDashboard,
      ObligationDatabase, obligationVars, MentionPayment, ChooseObligation, DropChat,
      SendPayment, GiveUpOnAnswer, ReplyPayment, SettlingStops, ReadTemplate,
      LoseRequest, DescribeTemplate, CorrectDraft, ConfirmDraft, SaveDraft,
      CreateTemplate, EditTemplate, CancelTemplate, PayOnWeb, AskPressure,
      ReadActive, ReadSettled

\* A new picker, and its listing.
LEMMA PickerType ==
  ASSUME ObligationTypeOK, NEW found \in SUBSET ActiveIds, NEW v \in Values \cup {NoValue},
         NEW mo \in DueMonths \cup {NoMonth}
  PROVE  Picker(found, v, mo) \in Chat
<1>1. Candidates(found) \in [Obligations -> Values \cup {NoValue}]
  BY DEF Candidates, ActiveIds, Exists, ObligationTypeOK, Template
<1> QED
  BY <1>1, Absent DEF Picker, Chat

LEMMA ChatStep ==
  ASSUME ObligationTypeOK, Shape, [ObligationNext]_obligationVars
  PROVE  /\ chat' \in Chat
         /\ chat'.status = "confirming" => chat'.draft \in Template
<1>0. chat \in Chat
  BY DEF ObligationTypeOK
<1>1. ASSUME NEW found \in SUBSET Obligations, NEW v \in Values \cup {NoValue},
             NEW mo \in DueMonths, MentionPayment(found, v, mo),
             NEW given \in {mo, NoMonth}, chat' = Picker(found, v, given)
      PROVE  chat' \in Chat /\ chat'.status = "choosing"
  <2>1. found \in SUBSET ActiveIds
    BY <1>1 DEF MentionPayment
  <2>2. chat' \in Chat
    BY <1>1, <2>1, PickerType
  <2> QED
    BY <1>1, <2>2 DEF Picker, ClosedChat
<1>2. CASE \E t \in NewTemplates : DescribeTemplate(t)
  <2>1. PICK t \in Template : chat' = [ClosedChat EXCEPT !.status = "confirming", !.draft = t]
    BY <1>2 DEF DescribeTemplate, TemplateDraft, NewTemplates
  <2> QED
    BY <2>1, Absent DEF Chat
<1>3. CASE \E v \in Values : CorrectDraft(v)
  <2>1. PICK v \in Values : CorrectDraft(v)
    BY <1>3
  <2>2. chat.draft \in Template /\ chat.status = "confirming"
    BY <2>1 DEF CorrectDraft, Shape
  <2> DEFINE d == [chat.draft EXCEPT !.amount = v]
  <2>3. d \in Template
    BY <2>2 DEF Template
  <2>4. chat' = [chat EXCEPT !.draft = d]
    BY <2>1 DEF CorrectDraft
  <2> HIDE DEF d
  <2> QED
    BY <1>0, <2>2, <2>3, <2>4 DEF Chat
<1>4. CASE \E o \in Obligations, v \in Values : EditTemplate(o, v)
  BY <1>0, <1>4 DEF EditTemplate, Shape, Chat
<1>5. CASE chat' = ClosedChat
  BY <1>5, Absent
<1>6. CASE UNCHANGED chat
  BY <1>0, <1>6 DEF Shape
<1> QED
  BY <1>1, <1>2, <1>3, <1>4, <1>5, <1>6
  DEF ObligationNext, ObligationBot, ObligationWeb, ObligationDashboard,
      ObligationDatabase, obligationVars, MentionPayment, ChooseObligation, DropChat,
      SendPayment, GiveUpOnAnswer, ReplyPayment, SettlingStops, ReadTemplate,
      InsertPayment, LoseRequest, ConfirmDraft, SaveDraft, CreateTemplate,
      CancelTemplate, PayOnWeb, UndoObligationPayment, EditObligationPayment,
      AskPressure, ReadActive, ReadSettled

LEMMA RequestsStep ==
  ASSUME ObligationTypeOK, Shape, [ObligationNext]_obligationVars
  PROVE  /\ requests' \in SUBSET Request
         /\ \A c \in requests' : c.step = "read" => c.amount \in Values
<1>0. requests \in SUBSET Request
  BY DEF ObligationTypeOK
<1>1. CASE \E r \in Requests : SendPayment(r)
  <2>1. PICK r \in Requests : SendPayment(r)
    BY <1>1
  <2>2. settling.o \in Obligations /\ settling.month \in DueMonths
        /\ settling.amount \in Values \cup {NoValue}
    BY <2>1 DEF SendPayment, Shape, ObligationTypeOK, Task
  <2> QED
    BY <1>0, <2>1, <2>2, NewRequestType DEF SendPayment, Shape
<1>2. CASE \E r \in Requests, o \in Obligations, v \in Values, mo \in DueMonths :
             PayOnWeb(r, o, v, mo)
  BY <1>0, <1>2, NewRequestType DEF PayOnWeb, Shape
<1>3. ASSUME NEW c \in requests, ReadTemplate(c)
      PROVE  /\ requests' \in SUBSET Request
             /\ \A x \in requests' : x.step = "read" => x.amount \in Values
  <2>1. CASE Exists(c.o) /\ Payable(templates[c.o], c.month)
    <3> DEFINE d == [c EXCEPT !.step = "read", !.amount = Effective(c)]
    <3>1. c \in Request /\ templates[c.o] \in Template
      BY <1>0, <2>1 DEF Exists, Request, ObligationTypeOK
    <3>2. Effective(c) \in Values
      BY <3>1 DEF Effective, Request, Template
    <3>3. d \in Request /\ d.amount \in Values
      BY <3>1, <3>2 DEF Request
    <3>4. requests' = (requests \ {c}) \cup {d}
      BY <1>3, <2>1 DEF ReadTemplate
    <3> HIDE DEF d
    <3> QED
      BY <1>0, <3>3, <3>4 DEF Shape
  <2>2. CASE ~(Exists(c.o) /\ Payable(templates[c.o], c.month))
    BY <1>0, <1>3, <2>2 DEF ReadTemplate, Shape
  <2> QED
    BY <2>1, <2>2
<1>4. CASE \E c \in requests : requests' = requests \ {c}
  BY <1>0, <1>4 DEF Shape
<1>5. CASE UNCHANGED requests
  BY <1>0, <1>5 DEF Shape
<1> QED
  BY <1>1, <1>2, <1>3, <1>4, <1>5
  DEF ObligationNext, ObligationBot, ObligationWeb, ObligationDashboard,
      ObligationDatabase, obligationVars, MentionPayment, ChooseObligation, DropChat,
      GiveUpOnAnswer, ReplyPayment, SettlingStops, InsertPayment, LoseRequest,
      DescribeTemplate, CorrectDraft, ConfirmDraft, SaveDraft, CreateTemplate,
      EditTemplate, CancelTemplate, UndoObligationPayment, EditObligationPayment,
      AskPressure, ReadActive, ReadSettled

\* What Shape says of the handler.
TaskShape(k) ==
  /\ k.phase = "creating" => k.draft \in Template
  /\ k.phase \in {"listed", "waiting"} => k.o \in Obligations /\ k.month \in DueMonths
  /\ k.request # NoRequest => k.phase = "waiting"

LEMMA SettlingType ==
  ASSUME NEW o \in Obligations, NEW w \in Values, NEW v \in Values \cup {NoValue},
         NEW mo \in DueMonths, NEW e \in SUBSET Obligations
  PROVE  Settling(o, w, v, mo, e) \in Task /\ TaskShape(Settling(o, w, v, mo, e))
<1> DEFINE s == Settling(o, w, v, mo, e)
<1>1. s \in Task
  BY Absent DEF Settling, Task
<1>2. s.phase = "listed" /\ s.o = o /\ s.month = mo /\ s.request = NoRequest
  BY DEF Settling, NoTask
<1> QED
  BY <1>1, <1>2 DEF TaskShape

LEMMA AnsweredShape ==
  ASSUME ObligationTypeOK, TaskShape(settling), NEW c \in requests,
         NEW v \in Values \cup {NoValue}, NEW a \in {"paid", "already", "failed"},
         settling' = AnswerTo(c, a, v)
  PROVE  settling' \in Task /\ TaskShape(settling')
<1>1. settling' \in Task
  BY AnswerType
<1>2. TaskShape(settling')
  <2>1. CASE settling.request = c.name
    <3>1. settling'.phase = "answered" /\ settling'.request = NoRequest
      BY <2>1 DEF AnswerTo, ObligationTypeOK, Task
    <3> QED BY <3>1 DEF TaskShape
  <2>2. CASE settling.request # c.name
    BY <2>2 DEF AnswerTo
  <2> QED BY <2>1, <2>2
<1> QED
  BY <1>1, <1>2

LEMMA SettlingStep ==
  ASSUME ObligationTypeOK, Shape, [ObligationNext]_obligationVars
  PROVE  settling' \in Task /\ TaskShape(settling')
<1>0. settling \in Task /\ TaskShape(settling)
  BY DEF ObligationTypeOK, Shape, TaskShape
<1>1. ASSUME NEW found \in SUBSET Obligations, NEW v \in Values \cup {NoValue},
             NEW mo \in DueMonths, MentionPayment(found, v, mo)
      PROVE  settling' \in Task /\ TaskShape(settling')
  <2>1. CASE UNCHANGED settling
    BY <1>0, <2>1
  <2>2. ASSUME NEW o \in found, settling' = Settling(o, templates[o].amount, v, mo, {})
        PROVE  settling' \in Task /\ TaskShape(settling')
    <3>1. o \in Obligations /\ templates[o].amount \in Values
      BY <1>1 DEF MentionPayment, ActiveIds, Exists, ObligationTypeOK, Template
    <3> QED
      BY <2>2, <3>1, SettlingType
  <2> QED
    BY <1>1, <2>1, <2>2 DEF MentionPayment
<1>2. CASE \E o \in Obligations : ChooseObligation(o)
  <2>1. PICK o \in Obligations : ChooseObligation(o)
    BY <1>2
  <2>2. /\ chat.shown[o] \in Values /\ chat.amount \in Values \cup {NoValue}
        /\ chat.month \in DueMonths \cup {NoMonth} /\ chat.edited \in SUBSET Obligations
    BY <2>1 DEF ChooseObligation, ObligationTypeOK, Chat
  <2>3. PICK mo \in DueMonths :
          settling' = Settling(o, chat.shown[o], chat.amount, mo, chat.edited)
    BY <2>1, <2>2 DEF ChooseObligation
  <2> QED
    BY <2>2, <2>3, SettlingType
<1>3. CASE \E r \in Requests : SendPayment(r)
  <2>1. PICK r \in Requests : SendPayment(r)
    BY <1>3
  <2>2. settling' = [settling EXCEPT !.phase = "waiting", !.request = r]
        /\ settling.phase = "listed"
    BY <2>1 DEF SendPayment
  <2> QED
    BY <1>0, <2>2 DEF Task, TaskShape
<1>4. CASE GiveUpOnAnswer
  <2>1. settling' = [settling EXCEPT !.phase = "answered", !.answer = "failed",
                                     !.request = NoRequest]
    BY <1>4 DEF GiveUpOnAnswer
  <2> QED
    BY <1>0, <2>1 DEF Task, TaskShape
<1>5. CASE settling' = NoTask
  BY <1>5, Absent DEF TaskShape
<1>6. CASE ConfirmDraft
  <2>1. chat.draft \in Template
    BY <1>6 DEF ConfirmDraft, Shape
  <2>2. settling' = [NoTask EXCEPT !.phase = "creating", !.draft = chat.draft]
    BY <1>6 DEF ConfirmDraft
  <2> QED
    BY <2>1, <2>2, Absent DEF Task, TaskShape
<1>7. CASE \E o \in Obligations : SaveDraft(o)
  <2>1. settling' = [settling EXCEPT !.phase = "created"] /\ settling.phase = "creating"
    BY <1>7 DEF SaveDraft
  <2> QED
    BY <1>0, <2>1 DEF Task, TaskShape
<1>8. CASE \E o \in Obligations, v \in Values : EditTemplate(o, v)
  <2>1. PICK o \in Obligations, v \in Values : EditTemplate(o, v)
    BY <1>8
  <2>2. CASE settling.o = o
    <3>1. settling' = [settling EXCEPT !.edited = @ \cup {o}]
      BY <2>1, <2>2 DEF EditTemplate
    <3> QED BY <1>0, <3>1 DEF Task, TaskShape
  <2>3. CASE settling.o # o
    BY <1>0, <2>1, <2>3 DEF EditTemplate
  <2> QED BY <2>2, <2>3
<1>9. ASSUME NEW c \in requests, ReadTemplate(c) \/ InsertPayment(c)
      PROVE  settling' \in Task /\ TaskShape(settling')
  <2>1. CASE UNCHANGED settling
    BY <1>0, <2>1
  <2>2. CASE settling' = AnswerTo(c, "failed", NoValue) \/ settling' = AnswerTo(c, "already", NoValue)
    BY <1>0, <2>2, AnsweredShape
  <2>3. CASE InsertPayment(c) /\ settling' = AnswerTo(c, "paid", c.amount)
    <3>1. c.amount \in Values
      BY <2>3 DEF InsertPayment, Shape
    <3> QED BY <1>0, <2>3, <3>1, AnsweredShape
  <2> QED
    BY <1>9, <2>1, <2>2, <2>3 DEF ReadTemplate, InsertPayment
<1>10. CASE UNCHANGED settling
  BY <1>0, <1>10
<1> QED
  BY <1>1, <1>2, <1>3, <1>4, <1>5, <1>6, <1>7, <1>8, <1>9, <1>10
  DEF ObligationNext, ObligationBot, ObligationWeb, ObligationDashboard,
      ObligationDatabase, obligationVars, DropChat, ReplyPayment, SettlingStops,
      LoseRequest, DescribeTemplate, CorrectDraft, CreateTemplate, CancelTemplate,
      PayOnWeb, UndoObligationPayment, EditObligationPayment, AskPressure,
      ReadActive, ReadSettled

LEMMA PressureStep ==
  ASSUME ObligationTypeOK, [ObligationNext]_obligationVars
  PROVE  pressure' \in [active : SUBSET Obligations, settled : SUBSET Obligations,
                        read : SUBSET {"templates", "payments"},
                        month : DueMonths \cup {NoMonth}, due : SUBSET Obligations]
<1>0. \A mo : HittingIn(mo) \subseteq Obligations /\ PaidIn(mo) \subseteq Obligations
  BY DEF HittingIn, PaidIn, ActiveIds
<1>1. CASE \E mo \in DueMonths : AskPressure(mo)
  BY <1>0, <1>1 DEF AskPressure, Quiet
<1>2. CASE ReadActive
  <2>1. pressure' = [pressure EXCEPT !.read = @ \cup {"templates"},
                                     !.active = HittingIn(pressure.month)]
    BY <1>2 DEF ReadActive
  <2> QED
    BY <1>0, <2>1 DEF ObligationTypeOK
<1>4. CASE ReadSettled
  <2>1. pressure' = [pressure EXCEPT !.read = @ \cup {"payments"},
                                     !.settled = PaidIn(pressure.month)]
    BY <1>4 DEF ReadSettled
  <2> QED
    BY <1>0, <2>1 DEF ObligationTypeOK
<1>3. CASE UNCHANGED pressure
  BY <1>3 DEF ObligationTypeOK
<1> QED
  BY <1>1, <1>2, <1>3, <1>4
  DEF ObligationNext, ObligationBot, ObligationWeb, ObligationDashboard,
      ObligationDatabase, obligationVars, MentionPayment, ChooseObligation, DropChat,
      SendPayment, GiveUpOnAnswer, ReplyPayment, SettlingStops, ReadTemplate,
      InsertPayment, LoseRequest, DescribeTemplate, CorrectDraft, ConfirmDraft,
      SaveDraft, CreateTemplate, EditTemplate, CancelTemplate, PayOnWeb,
      UndoObligationPayment, EditObligationPayment

LEMMA TypeStep ==
  ObligationTypeOK /\ Shape /\ [ObligationNext]_obligationVars
    => ObligationTypeOK' /\ Shape'
<1> SUFFICES ASSUME ObligationTypeOK, Shape, [ObligationNext]_obligationVars
             PROVE  ObligationTypeOK' /\ Shape'
  OBVIOUS
<1>1. ObligationTypeOK'
  BY TemplatesStep, PaidStep, ChatStep, SettlingStep, RequestsStep, PressureStep
  DEF ObligationTypeOK
<1>2. Shape'
  BY ChatStep, SettlingStep, RequestsStep DEF Shape, TaskShape
<1> QED
  BY <1>1, <1>2

\* Every variable has its type.
THEOREM TypeCorrect == ObligationSpec => [](ObligationTypeOK /\ Shape)
  BY TypeInit, TypeStep, PTL DEF ObligationSpec
------------------------------------------------------------------------
(* One payment for an occurrence.                                        *)

LEMMA OnceStep ==
  OccurrencePaidOnce /\ ObligationTypeOK /\ [ObligationNext]_obligationVars
    => OccurrencePaidOnce'
<1> SUFFICES ASSUME OccurrencePaidOnce, ObligationTypeOK, [ObligationNext]_obligationVars
             PROVE  OccurrencePaidOnce'
  OBVIOUS
<1>1. CASE \E c \in requests : InsertPayment(c)
  <2>1. PICK c \in requests : InsertPayment(c)
    BY <1>1
  <2>2. CASE Conflicts(c)
    BY <2>1, <2>2 DEF InsertPayment, OccurrencePaidOnce
  <2>3. CASE ~Conflicts(c)
    <3>1. paid' = paid \cup {AsPayment(c)}
      BY <2>1, <2>3 DEF InsertPayment
    <3>2. c.o \in Obligations
      BY DEF ObligationTypeOK, Request
    <3>3. \A p \in paid : ~(p.o = c.o /\ p.month = c.month)
      BY <2>3, <3>2 DEF Conflicts, PaidIn
    <3>4. AsPayment(c).o = c.o /\ AsPayment(c).month = c.month
      BY DEF AsPayment
    <3> QED
      BY <3>1, <3>3, <3>4 DEF OccurrencePaidOnce
  <2> QED
    BY <2>2, <2>3
<1>2. CASE \E p \in paid : UndoObligationPayment(p)
  BY <1>2 DEF UndoObligationPayment, OccurrencePaidOnce
<1>3. CASE \E p \in paid, v \in Values : EditObligationPayment(p, v)
  <2>1. PICK p \in paid, v \in Values : EditObligationPayment(p, v)
    BY <1>3
  <2> DEFINE q == [p EXCEPT !.amount = v]
  <2>2. q.o = p.o /\ q.month = p.month
    BY DEF ObligationTypeOK, Payment
  <2>3. paid' = (paid \ {p}) \cup {q}
    BY <2>1 DEF EditObligationPayment
  <2> HIDE DEF q
  <2> QED
    BY <2>2, <2>3 DEF OccurrencePaidOnce
<1>4. CASE UNCHANGED paid
  BY <1>4 DEF OccurrencePaidOnce
<1> QED
  BY <1>1, <1>2, <1>3, <1>4
  DEF ObligationNext, ObligationBot, ObligationWeb, ObligationDashboard,
      ObligationDatabase, obligationVars, MentionPayment, ChooseObligation, DropChat,
      SendPayment, GiveUpOnAnswer, ReplyPayment, SettlingStops, ReadTemplate,
      LoseRequest, DescribeTemplate, CorrectDraft, ConfirmDraft, SaveDraft,
      CreateTemplate, EditTemplate, CancelTemplate, PayOnWeb, AskPressure,
      ReadActive, ReadSettled

\* The bot, the web and retries pay a month of an obligation once.
THEOREM PaidOnce == ObligationSpec => []OccurrencePaidOnce
<1>1. ObligationInit => OccurrencePaidOnce
  BY DEF ObligationInit, OccurrencePaidOnce
<1> QED
  BY <1>1, OnceStep, TypeCorrect, PTL DEF ObligationSpec

\* What is shown as due is what the RPC accepts, whatever the template.
THEOREM DueIsPayable == ObligationSpec => []ProjectedIsPayable
<1>1. ObligationTypeOK => ProjectedIsPayable
  BY WindowsAgree DEF ObligationTypeOK, ProjectedIsPayable, Exists
<1> QED
  BY <1>1, TypeCorrect, PTL

------------------------------------------------------------------------
(* Windows never change.                                                 *)

\* A template stays, with its window; once cancelled it stays cancelled.
LEMMA WindowsKept ==
  ASSUME ObligationTypeOK, Shape, [ObligationNext]_obligationVars,
         NEW o \in Obligations, Exists(o)
  PROVE  /\ Exists(o)'
         /\ templates'[o].start = templates[o].start
         /\ templates'[o].term = templates[o].term
         /\ templates[o].status = "canceled" => templates'[o].status = "canceled"
<1>0. templates[o] \in Template
  BY DEF Exists, ObligationTypeOK
<1>1. CASE \E x \in Obligations : SaveDraft(x)
  BY <1>1 DEF SaveDraft, Exists, ObligationTypeOK
<1>2. CASE \E x \in Obligations, t \in NewTemplates : CreateTemplate(x, t)
  BY <1>2 DEF CreateTemplate, Exists, ObligationTypeOK
<1>3. CASE \E x \in Obligations, v \in Values : EditTemplate(x, v)
  <2>1. PICK x \in Obligations, v \in Values :
          templates' = [templates EXCEPT ![x].amount = v]
    BY <1>3 DEF EditTemplate
  <2>2. \/ templates'[o] = templates[o]
        \/ templates'[o] = [templates[o] EXCEPT !.amount = v]
    BY <2>1 DEF ObligationTypeOK
  <2>3. templates'[o] \in Template
    BY <1>0, <2>2 DEF Template
  <2> QED
    BY <1>0, <2>2, <2>3, TemplateAssumption DEF Exists, Template
<1>4. CASE \E x \in Obligations : CancelTemplate(x)
  <2>1. PICK x \in Obligations : templates' = [templates EXCEPT ![x].status = "canceled"]
    BY <1>4 DEF CancelTemplate
  <2>2. \/ templates'[o] = templates[o]
        \/ templates'[o] = [templates[o] EXCEPT !.status = "canceled"]
    BY <2>1 DEF ObligationTypeOK
  <2>3. templates'[o] \in Template
    BY <1>0, <2>2 DEF Template
  <2> QED
    BY <1>0, <2>2, <2>3, TemplateAssumption DEF Exists, Template
<1>5. CASE UNCHANGED templates
  BY <1>5 DEF Exists
<1> QED
  BY <1>1, <1>2, <1>3, <1>4, <1>5
  DEF ObligationNext, ObligationBot, ObligationWeb, ObligationDashboard,
      ObligationDatabase, obligationVars, MentionPayment, ChooseObligation, DropChat,
      SendPayment, GiveUpOnAnswer, ReplyPayment, SettlingStops, ReadTemplate,
      InsertPayment, LoseRequest, DescribeTemplate, CorrectDraft, ConfirmDraft,
      PayOnWeb, UndoObligationPayment, EditObligationPayment, AskPressure,
      ReadActive, ReadSettled

LEMMA CoversKept ==
  ASSUME ObligationTypeOK, Shape, [ObligationNext]_obligationVars,
         NEW o \in Obligations, NEW mo, Covers(o, mo)
  PROVE  Covers(o, mo)'
<1>1. Exists(o)
  BY DEF Covers
<1> QED
  BY <1>1, WindowsKept DEF Covers

LEMMA PayableCovers ==
  ASSUME NEW o \in Obligations, NEW mo, Exists(o), Payable(templates[o], mo)
  PROVE  Covers(o, mo)
  BY DEF Payable, Covers

\* A call is an old one, a new one, or one that has just read the template.
LEMMA CallsAfter ==
  ASSUME ObligationTypeOK, Shape, [ObligationNext]_obligationVars, NEW c \in requests'
  PROVE  \/ c \in requests
         \/ /\ c.step = "sent"
            /\ \/ \E r \in Requests : SendPayment(r) /\ c.name = r
               \/ c.name # settling.request /\ UNCHANGED <<settling, templates>>
         \/ \E d \in requests :
              /\ d.step = "sent" /\ Exists(d.o) /\ Payable(templates[d.o], d.month)
              /\ c = [d EXCEPT !.step = "read", !.amount = Effective(d)]
              /\ UNCHANGED <<settling, templates>>
<1>1. ASSUME NEW r \in Requests, SendPayment(r), c \notin requests
      PROVE  c.step = "sent" /\ c.name = r
  BY <1>1 DEF SendPayment, NewRequest
<1>2. ASSUME NEW r \in Requests, NEW o \in Obligations, NEW v \in Values,
             NEW mo \in DueMonths, PayOnWeb(r, o, v, mo), c \notin requests
      PROVE  /\ c.step = "sent" /\ c.name # settling.request
             /\ UNCHANGED <<settling, templates>>
  BY <1>2 DEF PayOnWeb, NewRequest, NameFree
<1>3. ASSUME NEW d \in requests, ReadTemplate(d), c \notin requests
      PROVE  /\ d.step = "sent" /\ Exists(d.o) /\ Payable(templates[d.o], d.month)
             /\ c = [d EXCEPT !.step = "read", !.amount = Effective(d)]
             /\ UNCHANGED <<settling, templates>>
  BY <1>3 DEF ReadTemplate
<1>4. CASE requests' \subseteq requests
  BY <1>4
<1> QED
  BY <1>1, <1>2, <1>3, <1>4
  DEF ObligationNext, ObligationBot, ObligationWeb, ObligationDashboard,
      ObligationDatabase, obligationVars, MentionPayment, ChooseObligation, DropChat,
      GiveUpOnAnswer, ReplyPayment, SettlingStops, InsertPayment, LoseRequest,
      DescribeTemplate, CorrectDraft, ConfirmDraft, SaveDraft, CreateTemplate,
      EditTemplate, CancelTemplate, UndoObligationPayment, EditObligationPayment,
      AskPressure, ReadActive, ReadSettled

LEMMA WindowStep ==
  InWindow /\ ObligationTypeOK /\ Shape /\ [ObligationNext]_obligationVars
    => InWindow'
<1> SUFFICES ASSUME InWindow, ObligationTypeOK, Shape, [ObligationNext]_obligationVars
             PROVE  InWindow'
  OBVIOUS
<1>1. ASSUME NEW c \in requests', c.step = "read"
      PROVE  Covers(c.o, c.month)'
  <2>1. CASE c \in requests
    <3>1. c.o \in Obligations /\ Covers(c.o, c.month)
      BY <1>1, <2>1 DEF InWindow, ObligationTypeOK, Request
    <3> QED BY <3>1, CoversKept
  <2>2. CASE c \notin requests
    <3>1. PICK d \in requests :
            /\ Exists(d.o) /\ Payable(templates[d.o], d.month)
            /\ c = [d EXCEPT !.step = "read", !.amount = Effective(d)]
      BY <1>1, <2>2, CallsAfter
    <3>2. d.o \in Obligations /\ c.o = d.o /\ c.month = d.month
      BY <3>1 DEF ObligationTypeOK, Request
    <3> QED BY <3>1, <3>2, PayableCovers, CoversKept
  <2> QED BY <2>1, <2>2
<1>2. ASSUME NEW p \in paid'
      PROVE  Covers(p.o, p.month)'
  <2>1. CASE p \in paid
    <3>1. p.o \in Obligations /\ Covers(p.o, p.month)
      BY <2>1 DEF InWindow, ObligationTypeOK, Payment
    <3> QED BY <3>1, CoversKept
  <2>2. CASE \E c \in requests : InsertPayment(c) /\ p = AsPayment(c)
    <3>1. PICK c \in requests : InsertPayment(c) /\ p = AsPayment(c)
      BY <2>2
    <3>2. /\ c.o \in Obligations /\ Covers(c.o, c.month)
          /\ p.o = c.o /\ p.month = c.month
      BY <3>1 DEF InWindow, InsertPayment, ObligationTypeOK, Request, AsPayment
    <3> QED BY <3>2, CoversKept
  <2>3. CASE \E q \in paid, v \in Values : p = [q EXCEPT !.amount = v]
    <3>1. PICK q \in paid, v \in Values : p = [q EXCEPT !.amount = v]
      BY <2>3
    <3>2. q.o \in Obligations /\ Covers(q.o, q.month) /\ p.o = q.o /\ p.month = q.month
      BY <3>1 DEF InWindow, ObligationTypeOK, Payment
    <3> QED BY <3>2, CoversKept
  <2> QED
    BY <2>1, <2>2, <2>3
    DEF ObligationNext, ObligationBot, ObligationWeb, ObligationDashboard,
        ObligationDatabase, obligationVars, MentionPayment, ChooseObligation,
        DropChat, SendPayment, GiveUpOnAnswer, ReplyPayment, SettlingStops,
        ReadTemplate, InsertPayment, LoseRequest, DescribeTemplate, CorrectDraft,
        ConfirmDraft, SaveDraft, CreateTemplate, EditTemplate, CancelTemplate,
        PayOnWeb, UndoObligationPayment, EditObligationPayment, AskPressure,
        ReadActive, ReadSettled
<1> QED
  BY <1>1, <1>2 DEF InWindow
------------------------------------------------------------------------
(* The dashboard.                                                        *)

LEMMA DueStep ==
  DueStays /\ InWindow /\ ObligationTypeOK /\ Shape /\ [ObligationNext]_obligationVars
    => DueStays'
<1> SUFFICES ASSUME DueStays, InWindow, ObligationTypeOK, Shape,
                    [ObligationNext]_obligationVars
             PROVE  DueStays'
  OBVIOUS
<1>0. pressure.due \subseteq Obligations
  BY DEF ObligationTypeOK
<1>1. ASSUME NEW o \in pressure.due, UNCHANGED pressure
      PROVE  Covers(o, pressure.month)'
  <2>1. Covers(o, pressure.month) /\ o \in Obligations
    BY <1>0 DEF DueStays
  <2>2. \A mo : Covers(o, mo) => Covers(o, mo)'
    BY <2>1, CoversKept
  <2> QED
    BY <1>1, <2>1, <2>2
<1>6. ASSUME NEW o \in pressure.due, templates[o].status = "canceled"
      PROVE  templates'[o].status = "canceled"
  BY <1>0, <1>6, WindowsKept DEF DueStays, Covers
<1>2. CASE \E mo \in DueMonths : AskPressure(mo)
  <2>1. PICK mo \in DueMonths : AskPressure(mo)
    BY <1>2
  <2>2. /\ pressure'.month = mo /\ mo # NoMonth /\ pressure'.read = {}
        /\ pressure'.due = HittingIn(mo) \cup PaidIn(mo) /\ UNCHANGED templates
    BY <2>1, ObligationAssumption DEF AskPressure, Quiet
  <2>3. \A o \in HittingIn(mo) : Covers(o, mo)
    <3> SUFFICES ASSUME NEW o \in HittingIn(mo)
                 PROVE  Covers(o, mo)
      OBVIOUS
    <3>1. /\ o \in Obligations /\ Exists(o) /\ templates[o] \in Template
          /\ Projects(templates[o], mo)
      BY DEF HittingIn, ActiveIds, Exists, ObligationTypeOK
    <3> QED BY <3>1, WindowsAgree, PayableCovers
  <2>4. \A o \in PaidIn(mo) : Covers(o, mo)
    BY DEF PaidIn, InWindow
  <2> QED
    BY <2>2, <2>3, <2>4 DEF DueStays, Covers, Exists
<1>3. CASE ReadActive
  <2>1. /\ pressure'.due = pressure.due /\ pressure'.month = pressure.month
        /\ pressure'.active = HittingIn(pressure.month)
        /\ pressure.month \in DueMonths /\ UNCHANGED templates
    BY <1>3 DEF ReadActive, ObligationTypeOK
  <2>2. ASSUME NEW o \in pressure.due, templates[o].status # "canceled"
        PROVE  o \in HittingIn(pressure.month)
    <3>1. Covers(o, pressure.month) /\ o \in Obligations /\ templates[o] \in Template
      BY <1>0 DEF DueStays, Covers, Exists, ObligationTypeOK
    <3>2. templates[o].status = "active"
      BY <2>2, <3>1 DEF Template
    <3>3. Payable(templates[o], pressure.month)
      BY <3>1, <3>2 DEF Payable, Covers
    <3> QED
      BY <2>1, <3>1, <3>2, <3>3, WindowsAgree DEF HittingIn, ActiveIds, Covers
  <2> QED
    BY <2>1, <2>2 DEF DueStays, Covers, Exists
<1>4. CASE ReadSettled
  <2>1. /\ pressure'.due = pressure.due /\ pressure'.month = pressure.month
        /\ pressure'.active = pressure.active /\ UNCHANGED templates
        /\ "templates" \in pressure'.read => "templates" \in pressure.read
        /\ pressure.month # NoMonth
    BY <1>4 DEF ReadSettled, ObligationTypeOK
  <2> QED
    BY <2>1 DEF DueStays, Covers, Exists
<1>5. CASE UNCHANGED pressure
  BY <1>1, <1>5, <1>6 DEF DueStays
<1> QED
  BY <1>2, <1>3, <1>4, <1>5
  DEF ObligationNext, ObligationBot, ObligationWeb, ObligationDashboard,
      ObligationDatabase, obligationVars, MentionPayment, ChooseObligation, DropChat,
      SendPayment, GiveUpOnAnswer, ReplyPayment, SettlingStops, ReadTemplate,
      InsertPayment, LoseRequest, DescribeTemplate, CorrectDraft, ConfirmDraft,
      SaveDraft, CreateTemplate, EditTemplate, CancelTemplate, PayOnWeb,
      UndoObligationPayment, EditObligationPayment

\* Nothing due when it was asked drops out of the dashboard's total,
\* however the two queries interleave with payments and undos.
THEOREM TotalIsComplete == ObligationSpec => []NothingDropsOut
<1>1. ObligationInit => DueStays /\ InWindow
  BY DEF ObligationInit, DueStays, InWindow, Quiet
<1>2. DueStays => NothingDropsOut
  BY DEF DueStays, NothingDropsOut
<1> QED
  BY <1>1, <1>2, DueStep, WindowStep, TypeCorrect, PTL DEF ObligationSpec

------------------------------------------------------------------------
(* What the bot names.                                                   *)

\* An amount that changes is an edit, which the handler and the chat note.
LEMMA AmountAfter ==
  ASSUME ObligationTypeOK, Shape, [ObligationNext]_obligationVars,
         NEW o \in Obligations, Exists(o)
  PROVE  \/ templates'[o].amount = templates[o].amount
         \/ /\ chat.shown[o] # NoValue => o \in chat'.edited
            /\ settling.o = o => o \in settling'.edited
<1>1. CASE \E x \in Obligations : SaveDraft(x)
  BY <1>1 DEF SaveDraft, Exists, ObligationTypeOK
<1>2. CASE \E x \in Obligations, t \in NewTemplates : CreateTemplate(x, t)
  BY <1>2 DEF CreateTemplate, Exists, ObligationTypeOK
<1>3. CASE \E x \in Obligations, v \in Values : EditTemplate(x, v)
  <2>1. PICK x \in Obligations, v \in Values : EditTemplate(x, v)
    BY <1>3
  <2>2. CASE x = o
    <3>1. chat.shown[o] # NoValue => chat' = [chat EXCEPT !.edited = @ \cup {o}]
      BY <2>1, <2>2 DEF EditTemplate
    <3>2. settling.o = o => settling' = [settling EXCEPT !.edited = @ \cup {o}]
      BY <2>1, <2>2 DEF EditTemplate
    <3> QED
      BY <3>1, <3>2 DEF ObligationTypeOK, Chat, Task
  <2>3. CASE x # o
    BY <2>1, <2>3 DEF EditTemplate, ObligationTypeOK
  <2> QED
    BY <2>2, <2>3
<1>4. CASE \E x \in Obligations : CancelTemplate(x)
  <2>1. PICK x \in Obligations : templates' = [templates EXCEPT ![x].status = "canceled"]
    BY <1>4 DEF CancelTemplate
  <2>2. templates[o] \in Template
    BY DEF Exists, ObligationTypeOK
  <2> QED
    BY <2>1, <2>2 DEF ObligationTypeOK, Template
<1>5. CASE UNCHANGED templates
  BY <1>5
<1> QED
  BY <1>1, <1>2, <1>3, <1>4, <1>5
  DEF ObligationNext, ObligationBot, ObligationWeb, ObligationDashboard,
      ObligationDatabase, obligationVars, MentionPayment, ChooseObligation, DropChat,
      SendPayment, GiveUpOnAnswer, ReplyPayment, SettlingStops, ReadTemplate,
      InsertPayment, LoseRequest, DescribeTemplate, CorrectDraft, ConfirmDraft,
      PayOnWeb, UndoObligationPayment, EditObligationPayment, AskPressure,
      ReadActive, ReadSettled

\* Where an amount in the conversation comes from.
LEMMA ShownAfter ==
  ASSUME ObligationTypeOK, Shape, [ObligationNext]_obligationVars,
         NEW o \in Obligations, chat'.shown[o] # NoValue
  PROVE  \/ chat.shown[o] = chat'.shown[o] /\ chat.edited \subseteq chat'.edited
         \/ /\ Exists(o) /\ chat'.shown[o] = templates[o].amount
            /\ UNCHANGED templates
<1>0. chat \in Chat
  BY DEF ObligationTypeOK
<1>1. ASSUME NEW found \in SUBSET Obligations, NEW v \in Values \cup {NoValue},
             NEW mo \in DueMonths, MentionPayment(found, v, mo),
             NEW given \in {mo, NoMonth}, chat' = Picker(found, v, given)
      PROVE  /\ Exists(o) /\ chat'.shown[o] = templates[o].amount
             /\ UNCHANGED templates
  <2>1. chat'.shown = Candidates(found) /\ found \subseteq ActiveIds
    BY <1>1 DEF MentionPayment, Picker, ClosedChat
  <2> QED
    BY <1>1, <2>1 DEF MentionPayment, Candidates, ActiveIds
<1>2. CASE chat' = ClosedChat \/ \E t \in NewTemplates : chat' = TemplateDraft(t)
  <2>1. ClosedChat.shown = [x \in Obligations |-> NoValue]
    BY DEF ClosedChat
  <2>2. chat'.shown = ClosedChat.shown
    BY <1>2, Absent DEF TemplateDraft, Chat
  <2> QED
    BY <2>1, <2>2
<1>3. CASE \E v \in Values : CorrectDraft(v)
  BY <1>0, <1>3 DEF CorrectDraft, Chat
<1>4. CASE \E x \in Obligations, v \in Values : EditTemplate(x, v)
  BY <1>0, <1>4 DEF EditTemplate, Chat
<1>5. CASE UNCHANGED chat
  BY <1>5
<1> QED
  BY <1>1, <1>2, <1>3, <1>4, <1>5
  DEF ObligationNext, ObligationBot, ObligationWeb, ObligationDashboard,
      ObligationDatabase, obligationVars, MentionPayment, ChooseObligation, DropChat,
      SendPayment, GiveUpOnAnswer, ReplyPayment, SettlingStops, ReadTemplate,
      InsertPayment, LoseRequest, DescribeTemplate, ConfirmDraft, SaveDraft,
      CreateTemplate, CancelTemplate, PayOnWeb, UndoObligationPayment,
      EditObligationPayment, AskPressure, ReadActive, ReadSettled

\* Where the handler's amount comes from.
LEMMA TaskAfter ==
  ASSUME ObligationTypeOK, Shape, [ObligationNext]_obligationVars,
         settling'.phase \in {"listed", "waiting"}
  PROVE  \/ /\ settling.phase \in {"listed", "waiting"}
            /\ settling'.o = settling.o /\ settling'.shown = settling.shown
            /\ settling'.amount = settling.amount
            /\ settling.edited \subseteq settling'.edited
         \/ /\ settling'.o \in Obligations /\ UNCHANGED templates
            /\ settling'.phase = "listed"
            /\ \/ /\ Exists(settling'.o)
                  /\ settling'.shown = templates[settling'.o].amount
               \/ /\ settling'.shown = chat.shown[settling'.o]
                  /\ settling'.shown # NoValue /\ settling'.edited = chat.edited
<1>0. settling \in Task
  BY DEF ObligationTypeOK
<1>1. ASSUME NEW found \in SUBSET Obligations, NEW v \in Values \cup {NoValue},
             NEW mo \in DueMonths, MentionPayment(found, v, mo), settling' # settling
      PROVE  /\ settling'.o \in Obligations /\ UNCHANGED templates
             /\ settling'.phase = "listed" /\ Exists(settling'.o)
             /\ settling'.shown = templates[settling'.o].amount
  <2>1. PICK o \in found : settling' = Settling(o, templates[o].amount, v, mo, {})
    BY <1>1 DEF MentionPayment
  <2>2. Exists(o) /\ o \in Obligations /\ UNCHANGED templates
    BY <1>1 DEF MentionPayment, ActiveIds
  <2> QED
    BY <2>1, <2>2 DEF Settling, NoTask
<1>2. CASE \E o \in Obligations : ChooseObligation(o)
  BY <1>2 DEF ChooseObligation, Settling, NoTask
<1>3. CASE \E r \in Requests : SendPayment(r)
  BY <1>0, <1>3 DEF SendPayment, Task
<1>4. CASE GiveUpOnAnswer \/ settling' = NoTask \/ ConfirmDraft
           \/ \E o \in Obligations : SaveDraft(o)
  <2>1. settling'.phase \in {"answered", "idle", "creating", "created"}
    <3>1. CASE GiveUpOnAnswer
      BY <1>0, <3>1 DEF GiveUpOnAnswer, Task
    <3>2. CASE settling' = NoTask
      BY <3>2, Absent
    <3>3. CASE ConfirmDraft
      BY <3>3, Absent DEF ConfirmDraft, Task
    <3>4. CASE \E o \in Obligations : SaveDraft(o)
      BY <1>0, <3>4 DEF SaveDraft, Task
    <3> QED
      BY <1>4, <3>1, <3>2, <3>3, <3>4
  <2> QED
    BY <2>1
<1>5. CASE \E o \in Obligations, v \in Values : EditTemplate(o, v)
  BY <1>0, <1>5 DEF EditTemplate, Task
<1>6. ASSUME NEW c \in requests, NEW a, NEW v, settling' = AnswerTo(c, a, v)
      PROVE  UNCHANGED settling
  BY <1>0, <1>6 DEF AnswerTo, Task
<1>7. CASE UNCHANGED settling
  BY <1>7
<1> QED
  BY <1>1, <1>2, <1>3, <1>4, <1>5, <1>6, <1>7
  DEF ObligationNext, ObligationBot, ObligationWeb, ObligationDashboard,
      ObligationDatabase, obligationVars, DropChat, ReplyPayment, SettlingStops,
      ReadTemplate, InsertPayment, LoseRequest, DescribeTemplate, CorrectDraft,
      CreateTemplate, CancelTemplate, PayOnWeb, UndoObligationPayment,
      EditObligationPayment, AskPressure, ReadActive, ReadSettled

LEMMA ListedStep ==
  ListedIsCurrent /\ ObligationTypeOK /\ Shape /\ [ObligationNext]_obligationVars
    => ListedIsCurrent'
<1> SUFFICES ASSUME ListedIsCurrent, ObligationTypeOK, Shape,
                    [ObligationNext]_obligationVars
             PROVE  ListedIsCurrent'
  OBVIOUS
<1>1. ASSUME NEW o \in Obligations, chat'.shown[o] # NoValue
      PROVE  /\ Exists(o)'
             /\ templates'[o].amount = chat'.shown[o] \/ o \in chat'.edited
  BY <1>1, ShownAfter, AmountAfter, WindowsKept DEF ListedIsCurrent, Exists
<1>2. ASSUME settling'.phase \in {"listed", "waiting"}
      PROVE  /\ Exists(settling.o)'
             /\ \/ templates'[settling'.o].amount = settling'.shown
                \/ settling'.o \in settling'.edited
  <2>1. CASE /\ settling.phase \in {"listed", "waiting"}
             /\ settling'.o = settling.o /\ settling'.shown = settling.shown
             /\ settling.edited \subseteq settling'.edited
    <3>1. /\ settling.o \in Obligations /\ Exists(settling.o)
          /\ \/ templates[settling.o].amount = settling.shown
             \/ settling.o \in settling.edited
      BY <2>1 DEF Shape, ListedIsCurrent
    <3> QED
      BY <2>1, <3>1, AmountAfter, WindowsKept DEF Exists
  <2>2. CASE /\ settling'.o \in Obligations /\ UNCHANGED templates
             /\ \/ /\ Exists(settling'.o)
                   /\ settling'.shown = templates[settling'.o].amount
                \/ /\ settling'.shown = chat.shown[settling'.o]
                   /\ settling'.shown # NoValue /\ settling'.edited = chat.edited
    BY <2>2 DEF ListedIsCurrent, Exists
  <2> QED
    BY <1>2, <2>1, <2>2, TaskAfter
<1> QED
  BY <1>1, <1>2 DEF ListedIsCurrent
\* The handler keeps waiting for the call it has sent.
LEMMA WaitingAfter ==
  ASSUME ObligationTypeOK, Shape, [ObligationNext]_obligationVars,
         settling'.phase = "waiting", ~\E r \in Requests : SendPayment(r)
  PROVE  /\ settling.phase = "waiting" /\ settling'.request = settling.request
         /\ settling'.o = settling.o /\ settling'.shown = settling.shown
         /\ settling'.amount = settling.amount
         /\ settling.edited \subseteq settling'.edited
<1>0. settling \in Task
  BY DEF ObligationTypeOK
<1>1. ASSUME NEW o, NEW k, NEW v, NEW mo, NEW e, settling' = Settling(o, k, v, mo, e)
      PROVE  FALSE
  BY <1>1, Absent DEF Settling, Task
<1>2. CASE GiveUpOnAnswer \/ settling' = NoTask \/ ConfirmDraft
           \/ \E o \in Obligations : SaveDraft(o)
  <2>1. CASE GiveUpOnAnswer
    BY <1>0, <2>1 DEF GiveUpOnAnswer, Task
  <2>2. CASE settling' = NoTask
    BY <2>2, Absent
  <2>3. CASE ConfirmDraft
    BY <2>3, Absent DEF ConfirmDraft, Task
  <2>4. CASE \E o \in Obligations : SaveDraft(o)
    BY <1>0, <2>4 DEF SaveDraft, Task
  <2> QED
    BY <1>2, <2>1, <2>2, <2>3, <2>4
<1>3. CASE \E o \in Obligations, v \in Values : EditTemplate(o, v)
  BY <1>0, <1>3 DEF EditTemplate, Task
<1>4. ASSUME NEW c \in requests, NEW a, NEW v, settling' = AnswerTo(c, a, v)
      PROVE  UNCHANGED settling
  BY <1>0, <1>4 DEF AnswerTo, Task
<1>5. CASE UNCHANGED settling
  BY <1>5
<1> QED
  BY <1>1, <1>2, <1>3, <1>4, <1>5
  DEF ObligationNext, ObligationBot, ObligationWeb, ObligationDashboard,
      ObligationDatabase, obligationVars, MentionPayment, ChooseObligation, DropChat,
      ReplyPayment, SettlingStops, ReadTemplate, InsertPayment, LoseRequest,
      DescribeTemplate, CorrectDraft, CreateTemplate, CancelTemplate, PayOnWeb,
      UndoObligationPayment, EditObligationPayment, AskPressure, ReadActive,
      ReadSettled

LEMMA OurCallStep ==
  CallIsOurs /\ ListedIsCurrent /\ ObligationTypeOK /\ Shape
    /\ [ObligationNext]_obligationVars => CallIsOurs'
<1> SUFFICES ASSUME CallIsOurs, ListedIsCurrent, ObligationTypeOK, Shape,
                    [ObligationNext]_obligationVars, settling'.phase = "waiting",
                    NEW c \in requests', c.name = settling'.request
             PROVE  /\ c.o = settling'.o
                    /\ c.step = "sent" => c.amount = settling'.amount
                    /\ c.step = "read" => Named(c.amount)'
  BY DEF CallIsOurs
<1>0. settling \in Task /\ settling' \in Task
  BY SettlingStep DEF ObligationTypeOK
<1>1. CASE \E r \in Requests : SendPayment(r)
  <2>1. PICK r \in Requests : SendPayment(r)
    BY <1>1
  <2>2. settling' = [settling EXCEPT !.phase = "waiting", !.request = r]
    BY <2>1 DEF SendPayment
  <2>3. settling'.request = r /\ settling'.o = settling.o /\ settling'.amount = settling.amount
    BY <1>0, <2>2 DEF Task
  <2>4. c = NewRequest(r, settling.o, settling.amount, settling.month)
    BY <2>1, <2>3 DEF SendPayment, NameFree
  <2> QED
    BY <2>3, <2>4 DEF NewRequest
<1>2. CASE ~\E r \in Requests : SendPayment(r)
  <2>1. /\ settling.phase = "waiting" /\ settling'.request = settling.request
        /\ settling'.o = settling.o /\ settling'.shown = settling.shown
        /\ settling'.amount = settling.amount
        /\ settling.edited \subseteq settling'.edited
    BY <1>2, WaitingAfter
  <2>2. \A v : Named(v) => Named(v)'
    BY <2>1 DEF Named, SaidAmount
  <2>3. CASE c \in requests
    BY <2>1, <2>2, <2>3 DEF CallIsOurs
  <2>4. ASSUME NEW d \in requests, Exists(d.o), UNCHANGED <<settling, templates>>,
               c = [d EXCEPT !.step = "read", !.amount = Effective(d)],
               d.step = "sent"
        PROVE  c.o = settling'.o /\ c.step = "read" /\ Named(c.amount)'
    <3>1. d \in Request
      BY DEF ObligationTypeOK
    <3>2. /\ c.name = d.name /\ c.o = d.o /\ c.step = "read" /\ c.amount = Effective(d)
      BY <2>4, <3>1 DEF Request
    <3>3. d.o = settling.o /\ d.amount = settling.amount
      BY <2>1, <2>4, <3>2 DEF CallIsOurs
    <3>4. Named(Effective(d))
      BY <2>1, <3>3 DEF Named, SaidAmount, Effective, ListedIsCurrent
    <3> QED
      BY <2>1, <2>2, <3>2, <3>3, <3>4
  <2> QED
    BY <1>2, <2>1, <2>3, <2>4, CallsAfter
<1> QED
  BY <1>1, <1>2

LEMMA ReplyStep ==
  ReplyNamesWhatIsPaid /\ CallIsOurs /\ ObligationTypeOK /\ Shape
    /\ [ObligationNext]_obligationVars => ReplyNamesWhatIsPaid'
<1> SUFFICES ASSUME ReplyNamesWhatIsPaid, CallIsOurs, ObligationTypeOK, Shape,
                    [ObligationNext]_obligationVars,
                    settling'.phase = "answered", settling'.answer = "paid"
             PROVE  Named(settling.recorded)'
  BY DEF ReplyNamesWhatIsPaid, Named
<1>0. settling \in Task
  BY DEF ObligationTypeOK
<1>1. ASSUME settling.phase = "answered", settling.answer = "paid"
      PROVE  Named(settling.recorded)
  BY <1>1 DEF ReplyNamesWhatIsPaid, Named
<1>2. ASSUME NEW c \in requests, settling' = AnswerTo(c, "paid", c.amount), c.step = "read"
      PROVE  Named(settling.recorded)'
  <2>1. CASE settling.request = c.name
    <3>1. settling.phase = "waiting"
      BY <2>1, ObligationAssumption DEF Shape, ObligationTypeOK, Request
    <3>2. Named(c.amount)
      BY <1>2, <2>1, <3>1 DEF CallIsOurs
    <3>3. /\ settling'.recorded = c.amount /\ settling'.amount = settling.amount
          /\ settling'.shown = settling.shown /\ settling'.o = settling.o
          /\ settling'.edited = settling.edited
      BY <1>0, <1>2, <2>1 DEF AnswerTo, Task
    <3> QED
      BY <3>2, <3>3 DEF Named, SaidAmount
  <2>2. CASE settling.request # c.name
    <3>1. UNCHANGED settling
      BY <1>2, <2>2 DEF AnswerTo
    <3> QED
      BY <1>1, <3>1 DEF Named, SaidAmount
  <2> QED
    BY <2>1, <2>2
<1>3. ASSUME NEW c \in requests, NEW a, a # "paid", settling' = AnswerTo(c, a, NoValue)
      PROVE  UNCHANGED settling
  BY <1>0, <1>3 DEF AnswerTo, Task
<1>4. ASSUME NEW o, NEW k, NEW v, NEW mo, NEW e, settling' = Settling(o, k, v, mo, e)
      PROVE  FALSE
  BY <1>4, Absent DEF Settling, Task
<1>5. CASE GiveUpOnAnswer
  BY <1>0, <1>5 DEF GiveUpOnAnswer, Task
<1>6. CASE settling' = NoTask
  BY <1>6, Absent
<1>7. CASE ConfirmDraft
  BY <1>7, Absent DEF ConfirmDraft, Task
<1>8. CASE \E o \in Obligations : SaveDraft(o)
  BY <1>0, <1>8 DEF SaveDraft, Task
<1>9. CASE \E r \in Requests : SendPayment(r)
  BY <1>0, <1>9 DEF SendPayment, Task
<1>10. CASE \E o \in Obligations, v \in Values : EditTemplate(o, v)
  <2>1. /\ settling'.recorded = settling.recorded /\ settling'.amount = settling.amount
        /\ settling'.shown = settling.shown /\ settling'.o = settling.o
        /\ settling'.phase = settling.phase /\ settling'.answer = settling.answer
        /\ settling.edited \subseteq settling'.edited
    BY <1>0, <1>10 DEF EditTemplate, Task
  <2> QED
    BY <1>1, <2>1 DEF Named, SaidAmount
<1>11. CASE UNCHANGED settling
  BY <1>1, <1>11 DEF Named, SaidAmount
<1> QED
  BY <1>2, <1>3, <1>4, <1>5, <1>6, <1>7, <1>8, <1>9, <1>10, <1>11
  DEF ObligationNext, ObligationBot, ObligationWeb, ObligationDashboard,
      ObligationDatabase, obligationVars, MentionPayment, ChooseObligation, DropChat,
      ReplyPayment, SettlingStops, ReadTemplate, InsertPayment, LoseRequest,
      DescribeTemplate, CorrectDraft, CreateTemplate, CancelTemplate, PayOnWeb,
      UndoObligationPayment, EditObligationPayment, AskPressure, ReadActive,
      ReadSettled

\* "Pago! R$ x" names what is recorded, unless the template was edited
\* after the bot listed it: the call in flight is about what was listed.
THEOREM ReplyIsTrue == ObligationSpec => []ReplyNamesWhatIsPaid
<1>1. ObligationInit => ListedIsCurrent /\ CallIsOurs /\ ReplyNamesWhatIsPaid
  <2>1. ClosedChat.shown = [o \in Obligations |-> NoValue]
    BY DEF ClosedChat
  <2> QED
    BY <2>1, Absent DEF ObligationInit, ListedIsCurrent, CallIsOurs, ReplyNamesWhatIsPaid
<1> QED
  BY <1>1, ListedStep, OurCallStep, ReplyStep, TypeCorrect, PTL DEF ObligationSpec
=============================================================================
