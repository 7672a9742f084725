------------------------ MODULE ObligationPayments ------------------------
(***************************************************************************)
(* Recurring obligations: a template holds a monthly amount, a start and a *)
(* term; marking a month paid makes one transaction linked to it.  The bot *)
(* (a picker when several templates match, a draft when a new one is       *)
(* described) and the web call the same RPC, which reads the template and  *)
(* inserts the payment in two statements: other transactions may commit    *)
(* between them, as none of its reads locks a row.                         *)
(*                                                                         *)
(* One household, one chat.  Accounts, categories and responsibility only  *)
(* decide whether a request is refused; such a refusal is LoseRequest.     *)
(***************************************************************************)
EXTENDS Integers, FiniteSets

CONSTANTS
  Obligations,   \* ids of obligation templates
  Values,        \* monthly amounts and amounts paid
  DueMonths,     \* months of the run, records [y, m]
  Terms,         \* fixed terms, in months
  NoTerm,        \* an obligation without end
  Requests,      \* names of RPC requests in flight, reused once they are gone
  NoValue, NoMonth, NoTemplate, NoObligation, NoRequest   \* absent values

ASSUME ObligationAssumption ==
  /\ DueMonths \subseteq [y : Nat, m : 1 .. 12]
  /\ Terms \subseteq Nat \ {0}
  /\ NoTerm \notin Terms
  /\ NoValue \notin Values
  /\ NoMonth \notin DueMonths
  /\ NoObligation \notin Obligations
  /\ NoRequest \notin Requests

VARIABLES
  templates,  \* obligations
  paid,       \* transactions with an obligation_id and obligation_month
  chat,       \* bot_conversations: nothing, a picker or a template draft
  settling,   \* the webhook handler at work
  requests,   \* materialize_obligation_payment calls not finished
  pressure    \* a dashboard request that reads templates and payments

obligationVars == <<templates, paid, chat, settling, requests, pressure>>

------------------------------------------------------------------------
(* Months, in the two ways the code counts them.                         *)

\* PostgreSQL: first days of months as dates, make_interval(months => n).
MonthIndex(mo) == 12 * mo.y + mo.m - 1

\* TypeScript: addMonthsYm and monthDiff on the parts of "YYYY-MM".
AddMonthsYm(mo, offset) ==
  LET zeroBasedTotal == mo.m - 1 + offset
  IN [y |-> mo.y + zeroBasedTotal \div 12, m |-> (zeroBasedTotal % 12) + 1]
MonthDiff(a, b) == (b.y - a.y) * 12 + (b.m - a.m)

\* Mutant: the term counts the months after the first one.
EndMonthLate(t) == AddMonthsYm(t.start, t.term)
EndMonth(t) == AddMonthsYm(t.start, t.term - 1)

\* projectObligations: the template hits the month.
Projects(t, mo) == /\ t.status = "active"
                   /\ MonthDiff(t.start, mo) >= 0
                   /\ t.term # NoTerm => MonthDiff(mo, EndMonth(t)) >= 0

\* What materialize_obligation_payment accepts.
Payable(t, mo) ==
  /\ t.status = "active"
  /\ MonthIndex(mo) >= MonthIndex(t.start)
  /\ t.term # NoTerm => MonthIndex(mo) <= MonthIndex(t.start) + t.term - 1

------------------------------------------------------------------------
(* Records.                                                              *)

Template == [status : {"active", "canceled"}, amount : Values,
             start : DueMonths, term : Terms \cup {NoTerm}]
Payment  == [o : Obligations, month : DueMonths, amount : Values]

ASSUME TemplateAssumption == NoTemplate \notin Template

\* "sent" until the template is read; then the amount to record is known.
Request == [name : Requests, o : Obligations, month : DueMonths,
            amount : Values \cup {NoValue}, step : {"sent", "read"}]

Exists(o)    == templates[o] # NoTemplate
ActiveIds    == {o \in Obligations : Exists(o) /\ templates[o].status = "active"}
PaidIn(mo)   == {o \in Obligations : \E p \in paid : p.o = o /\ p.month = mo}
HittingIn(mo) == {o \in ActiveIds : Projects(templates[o], mo)}

\* The amounts the candidates had when they were listed.
Candidates(found) ==
  [o \in Obligations |-> IF o \in found THEN templates[o].amount ELSE NoValue]

\* edited is history: candidates whose template was edited since the listing.
ClosedChat == [status |-> "closed", shown |-> [o \in Obligations |-> NoValue],
               amount |-> NoValue, month |-> NoMonth, draft |-> NoTemplate,
               edited |-> {}]
Picker(found, v, mo) ==
  [ClosedChat EXCEPT !.status = "choosing", !.shown = Candidates(found),
                     !.amount = v, !.month = mo]
TemplateDraft(t) == [ClosedChat EXCEPT !.status = "confirming", !.draft = t]

NoTask == [phase |-> "idle", o |-> NoObligation, shown |-> NoValue,
           amount |-> NoValue, month |-> NoMonth, request |-> NoRequest,
           answer |-> "none", recorded |-> NoValue, draft |-> NoTemplate,
           edited |-> {}]
Settling(o, shown, v, mo, edited) ==
  [NoTask EXCEPT !.phase = "listed", !.o = o, !.shown = shown,
                 !.amount = v, !.month = mo, !.edited = edited]

NameFree(r) == r # settling.request /\ \A c \in requests : c.name # r

\* Mutant: the reply names the template's amount even if another was given.
SaidTemplateAmount(k) == k.shown

\* The amount obligationPaidMessage names.
SaidAmount(k) == IF k.amount = NoValue THEN k.shown ELSE k.amount

Quiet == [active |-> {}, settled |-> {}, read |-> {}, month |-> NoMonth,
          due |-> {}]

------------------------------------------------------------------------
(* The bot: saying that an obligation is paid.                           *)

\* mark_paid: active obligations are listed and matched with the keyword.
\* One match of a discriminating keyword is settled; otherwise the bot asks,
\* and keeps the month only if the message gave a date.
MentionPayment(found, v, mo) ==
  /\ settling.phase = "idle"
  /\ found # {} /\ found \subseteq ActiveIds
  /\ \/ \E o \in found :
          /\ found = {o}
          /\ settling' = Settling(o, templates[o].amount, v, mo, {})
          /\ UNCHANGED chat
     \/ /\ \E given \in {mo, NoMonth} : chat' = Picker(found, v, given)
        /\ UNCHANGED settling
  /\ UNCHANGED <<templates, paid, requests, pressure>>

\* applyMarkPaidChoice: the reply names one of the candidates.  Without a
\* date in the first message, the month is the one of the reply.
ChooseObligation(o) ==
  /\ settling.phase = "idle"
  /\ chat.status = "choosing"
  /\ chat.shown[o] # NoValue
  /\ \E today \in DueMonths : LET mo == IF chat.month = NoMonth THEN today ELSE chat.month
     IN settling' = Settling(o, chat.shown[o], chat.amount, mo, chat.edited)
  /\ UNCHANGED <<templates, paid, chat, requests, pressure>>

\* Cancelled, expired, or replaced by another flow.
DropChat ==
  /\ settling.phase = "idle"
  /\ chat.status # "closed"
  /\ chat' = ClosedChat
  /\ UNCHANGED <<templates, paid, settling, requests, pressure>>

NewRequest(r, o, v, mo) ==
  [name |-> r, o |-> o, month |-> mo, amount |-> v, step |-> "sent"]

\* settleObligation: the RPC call.
SendPayment(r) ==
  /\ settling.phase = "listed"
  /\ NameFree(r)
  /\ requests' = requests \cup
       {NewRequest(r, settling.o, settling.amount, settling.month)}
  /\ settling' = [settling EXCEPT !.phase = "waiting", !.request = r]
  /\ UNCHANGED <<templates, paid, chat, pressure>>

\* Any error of the call, including a reply that is lost after the commit,
\* is answered with obligationSettleFailedMessage.
GiveUpOnAnswer ==
  /\ settling.phase = "waiting"
  /\ settling' = [settling EXCEPT !.phase = "answered", !.answer = "failed",
                                  !.request = NoRequest]
  /\ UNCHANGED <<templates, paid, chat, requests, pressure>>

\* The reply is sent and the conversation saved as saved or cancelled.
ReplyPayment ==
  /\ settling.phase \in {"answered", "created"}
  /\ settling' = NoTask
  /\ chat' = ClosedChat
  /\ UNCHANGED <<templates, paid, requests, pressure>>

\* The process dies, or logInteraction or the save fails, at any point.
SettlingStops ==
  /\ settling.phase # "idle"
  /\ settling' = NoTask
  /\ UNCHANGED <<templates, paid, chat, requests, pressure>>

------------------------------------------------------------------------
(* materialize_obligation_payment, in two statements.                    *)

AnswerTo(c, answer, v) ==
  IF settling.request = c.name
  THEN [settling EXCEPT !.phase = "answered", !.answer = answer,
                        !.recorded = v, !.request = NoRequest]
  ELSE settling

\* Mutant: the amount of the call, if any.
Effective0(c) == c.amount

\* coalesce(target_amount_cents, obligation.amount_cents)
Effective(c) == IF c.amount = NoValue THEN templates[c.o].amount ELSE c.amount

\* The template is read and the month compared with its window.
ReadTemplate(c) ==
  /\ c \in requests /\ c.step = "sent"
  /\ \/ /\ Exists(c.o) /\ Payable(templates[c.o], c.month)
        /\ requests' = (requests \ {c}) \cup
             {[c EXCEPT !.step = "read", !.amount = Effective(c)]}
        /\ UNCHANGED settling
     \/ /\ ~(Exists(c.o) /\ Payable(templates[c.o], c.month))
        /\ requests' = requests \ {c}
        /\ settling' = AnswerTo(c, "failed", NoValue)
  /\ UNCHANGED <<templates, paid, chat, pressure>>

AsPayment(c) == [o |-> c.o, month |-> c.month, amount |-> c.amount]

\* Mutant: what ReadTemplate saw is trusted, there is no unique index.
Conflicts0(c) == AsPayment(c) \in paid

\* transactions_obligation_month_uniq
Conflicts(c) == c.o \in PaidIn(c.month)

\* insert ... on conflict do nothing
InsertPayment(c) ==
  /\ c \in requests /\ c.step = "read"
  /\ \/ /\ Conflicts(c)
        /\ settling' = AnswerTo(c, "already", NoValue)
        /\ UNCHANGED paid
     \/ /\ ~Conflicts(c)
        /\ paid' = paid \cup {AsPayment(c)}
        /\ settling' = AnswerTo(c, "paid", c.amount)
  /\ requests' = requests \ {c}
  /\ UNCHANGED <<templates, chat, pressure>>

\* Lost on the way, or refused for the caller, the account or the amount.
LoseRequest(c) ==
  /\ c \in requests
  /\ requests' = requests \ {c}
  /\ UNCHANGED <<templates, paid, chat, settling, pressure>>

------------------------------------------------------------------------
(* Templates.                                                            *)

\* A message describes an obligation; the draft awaits confirmation.
DescribeTemplate(t) ==
  /\ settling.phase = "idle"
  /\ chat' = TemplateDraft(t)
  /\ UNCHANGED <<templates, paid, settling, requests, pressure>>

\* applyObligationMessage: "valor"
CorrectDraft(v) ==
  /\ settling.phase = "idle"
  /\ chat.status = "confirming"
  /\ chat' = [chat EXCEPT !.draft.amount = v]
  /\ UNCHANGED <<templates, paid, settling, requests, pressure>>

ConfirmDraft ==
  /\ settling.phase = "idle"
  /\ chat.status = "confirming"
  /\ settling' = [NoTask EXCEPT !.phase = "creating", !.draft = chat.draft]
  /\ UNCHANGED <<templates, paid, chat, requests, pressure>>

\* createObligation: an insert without a key of its own, so that a draft
\* confirmed again after SettlingStops makes a second template.
SaveDraft(o) ==
  /\ settling.phase = "creating"
  /\ ~Exists(o)
  /\ templates' = [templates EXCEPT ![o] = settling.draft]
  /\ settling' = [settling EXCEPT !.phase = "created"]
  /\ UNCHANGED <<paid, chat, requests, pressure>>

CreateTemplate(o, t) ==
  /\ ~Exists(o)
  /\ templates' = [templates EXCEPT ![o] = t]
  /\ UNCHANGED <<paid, chat, settling, requests, pressure>>

EditTemplate(o, v) ==
  /\ Exists(o)
  /\ templates' = [templates EXCEPT ![o].amount = v]
  /\ chat' = IF chat.shown[o] # NoValue
             THEN [chat EXCEPT !.edited = @ \cup {o}] ELSE chat
  /\ settling' = IF settling.o = o
                 THEN [settling EXCEPT !.edited = @ \cup {o}] ELSE settling
  /\ UNCHANGED <<paid, requests, pressure>>

CancelTemplate(o) ==
  /\ Exists(o)
  /\ templates' = [templates EXCEPT ![o].status = "canceled"]
  /\ UNCHANGED <<paid, chat, settling, requests, pressure>>

------------------------------------------------------------------------
(* The web: paying, undoing, editing a payment, reading the dashboard.   *)

\* The page may be old: the template can have changed in any way since.
PayOnWeb(r, o, v, mo) ==
  /\ Exists(o)
  /\ NameFree(r)
  /\ requests' = requests \cup {NewRequest(r, o, v, mo)}
  /\ UNCHANGED <<templates, paid, chat, settling, pressure>>

\* By the id of the transaction: a page older than it removes nothing.
UndoObligationPayment(p) ==
  /\ p \in paid
  /\ paid' = paid \ {p}
  /\ UNCHANGED <<templates, chat, settling, requests, pressure>>

EditObligationPayment(p, v) ==
  /\ p \in paid
  /\ paid' = (paid \ {p}) \cup {[p EXCEPT !.amount = v]}
  /\ UNCHANGED <<templates, chat, settling, requests, pressure>>

\* getObligationsPressure: two queries that run at the same time.
AskPressure(mo) ==
  /\ pressure' = [Quiet EXCEPT !.month = mo,
                               !.due = HittingIn(mo) \cup PaidIn(mo)]
  /\ UNCHANGED <<templates, paid, chat, settling, requests>>

\* Mutant: only templates still to be paid are asked for.
ReadUnpaid ==
  /\ pressure.month # NoMonth /\ "templates" \notin pressure.read
  /\ pressure' = [pressure EXCEPT !.read = @ \cup {"templates"},
                    !.active = HittingIn(pressure.month) \ PaidIn(pressure.month)]
  /\ UNCHANGED <<templates, paid, chat, settling, requests>>

ReadActive ==
  /\ pressure.month # NoMonth /\ "templates" \notin pressure.read
  /\ pressure' = [pressure EXCEPT !.read = @ \cup {"templates"},
                                  !.active = HittingIn(pressure.month)]
  /\ UNCHANGED <<templates, paid, chat, settling, requests>>

ReadSettled ==
  /\ pressure.month # NoMonth /\ "payments" \notin pressure.read
  /\ pressure' = [pressure EXCEPT !.read = @ \cup {"payments"},
                                  !.settled = PaidIn(pressure.month)]
  /\ UNCHANGED <<templates, paid, chat, settling, requests>>

------------------------------------------------------------------------
ObligationInit ==
  /\ templates = [o \in Obligations |-> NoTemplate]
  /\ paid = {}
  /\ chat = ClosedChat
  /\ settling = NoTask
  /\ requests = {}
  /\ pressure = Quiet

NewTemplates == {t \in Template : t.status = "active"}

ObligationBot ==
  \/ \E found \in SUBSET Obligations, v \in Values \cup {NoValue},
        mo \in DueMonths : MentionPayment(found, v, mo)
  \/ \E o \in Obligations : ChooseObligation(o) \/ SaveDraft(o)
  \/ \E r \in Requests : SendPayment(r)
  \/ \E t \in NewTemplates : DescribeTemplate(t)
  \/ \E v \in Values : CorrectDraft(v)
  \/ ConfirmDraft \/ DropChat \/ GiveUpOnAnswer \/ ReplyPayment
  \/ SettlingStops

ObligationWeb ==
  \/ \E r \in Requests, o \in Obligations, v \in Values, mo \in DueMonths :
       PayOnWeb(r, o, v, mo)
  \/ \E o \in Obligations, t \in NewTemplates : CreateTemplate(o, t)
  \/ \E o \in Obligations, v \in Values : EditTemplate(o, v)
  \/ \E o \in Obligations : CancelTemplate(o)
  \/ \E p \in paid : UndoObligationPayment(p)
  \/ \E p \in paid, v \in Values : EditObligationPayment(p, v)

ObligationDashboard ==
  \/ \E mo \in DueMonths : AskPressure(mo)
  \/ ReadActive \/ ReadSettled

ObligationDatabase ==
  \E c \in requests : ReadTemplate(c) \/ InsertPayment(c) \/ LoseRequest(c)

ObligationNext == \/ ObligationBot \/ ObligationWeb
                  \/ ObligationDashboard \/ ObligationDatabase

ObligationSpec == ObligationInit /\ [][ObligationNext]_obligationVars

------------------------------------------------------------------------
(* Properties.                                                           *)

Task == [phase : {"idle", "listed", "waiting", "answered", "creating", "created"},
         o : Obligations \cup {NoObligation}, shown : Values \cup {NoValue},
         amount : Values \cup {NoValue}, month : DueMonths \cup {NoMonth},
         request : Requests \cup {NoRequest},
         answer : {"none", "paid", "already", "failed"},
         recorded : Values \cup {NoValue}, draft : Template \cup {NoTemplate},
         edited : SUBSET Obligations]
Chat == [status : {"closed", "choosing", "confirming"},
         shown : [Obligations -> Values \cup {NoValue}],
         amount : Values \cup {NoValue}, month : DueMonths \cup {NoMonth},
         draft : Template \cup {NoTemplate}, edited : SUBSET Obligations]

\* Every variable has its type.
ObligationTypeOK ==
  /\ templates \in [Obligations -> Template \cup {NoTemplate}]
  /\ paid \in SUBSET Payment
  /\ chat \in Chat
  /\ settling \in Task
  /\ requests \in SUBSET Request
  /\ pressure \in [active : SUBSET Obligations, settled : SUBSET Obligations,
                   read : SUBSET {"templates", "payments"},
                   month : DueMonths \cup {NoMonth}, due : SUBSET Obligations]

\* Whatever the bot, the web and retries do at once, a month of an
\* obligation is paid by at most one transaction.
OccurrencePaidOnce ==
  \A p, q \in paid : (p.o = q.o /\ p.month = q.month) => p = q

\* "Pago! R$ x": the amount the bot names is the one recorded, unless the
\* template was edited after the bot listed it (settleObligation names the
\* candidate's amount, the RPC records the template's).
ReplyNamesWhatIsPaid ==
  (settling.phase = "answered" /\ settling.answer = "paid")
     => \/ SaidAmount(settling) = settling.recorded
        \/ settling.amount = NoValue /\ settling.o \in settling.edited

\* What the dashboard and the obligations page show as due (TypeScript) is
\* what the RPC lets the member pay (SQL), and conversely.
ProjectedIsPayable ==
  \A o \in {x \in Obligations : Exists(x)}, mo \in DueMonths :
    Projects(templates[o], mo) <=> Payable(templates[o], mo)

\* The dashboard reads templates and payments with two requests.  However
\* payments and undos fall between them, no obligation due when it was
\* asked drops out of the month's total, unless it was cancelled.
NothingDropsOut ==
  pressure.read = {"templates", "payments"} =>
    \A o \in pressure.due :
      \/ o \in pressure.active \cup pressure.settled
      \/ templates[o].status = "canceled"
=============================================================================
