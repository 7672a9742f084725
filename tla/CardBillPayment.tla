------------------------- MODULE CardBillPayment -------------------------
(***************************************************************************)
(* Paying a card bill (fatura): the Telegram bot's conversation, the      *)
(* webhook handler that advances it, the settle_card_bill RPC, the web    *)
(* payment form and the edits the web allows on a recorded payment.       *)
(*                                                                         *)
(* One chat of one Telegram user in one household.  The bot is a single   *)
(* process that serialises a chat's updates (withChatQueue), so one        *)
(* handler runs at a time; the process may crash between any two of its    *)
(* steps, and a request it has sent to the database may still execute     *)
(* afterwards.  Every step that reaches the database or the conversation   *)
(* store is an action of its own.                                         *)
(*                                                                         *)
(* A status other than awaiting_card_bill_confirmation or                  *)
(* card_bill_submission_started (no row, saved, cancelled, another flow)   *)
(* is "closed": no card-bill draft is open.  A draft carries its id, which *)
(* no code reads: it names the member's intention across keys.             *)
(***************************************************************************)
EXTENDS Integers, FiniteSets

CONSTANTS
  Members,      \* household members the Telegram account may be linked to
  Accounts,     \* accounts a payment may leave from
  Bills,        \* (card, month) pairs; deleting the card removes the bill
  Amounts,      \* payment values
  MaxDay,       \* last day of the run; days are 0..MaxDay
  Drafts,       \* intentions: bot drafts and rendered web forms
  Keys,         \* what randomUUID can return
  RowIds,       \* ids of transfer rows
  Tags,         \* names of requests in flight, reused once they are gone
  NoOne, NoKey, NoBill, NoAmount, NoDraft, NoTag,   \* absent values
  WithLegacy,   \* whether the run may start from a draft without a key
  WithWebForm,  \* whether the web payment form is used
  MayEdit       \* whether someone edits a recorded payment on the web

Days == 0 .. MaxDay

ASSUME ConstantsAssumption ==
  /\ MaxDay \in Nat
  /\ NoOne \notin Members
  /\ NoKey \notin Keys
  /\ NoBill \notin Bills
  /\ NoAmount \notin Amounts
  /\ NoTag \notin Tags
  /\ {WithLegacy, WithWebForm, MayEdit} \subseteq BOOLEAN

VARIABLES
  rows,      \* transactions of kind transfer with a bill month
  accounts,  \* accounts that exist
  bills,     \* bills whose card exists
  active,    \* members whose membership is active
  linked,    \* the member the Telegram account resolves to, or NoOne
  today,     \* current household date
  conv,      \* bot_conversations: status and draft
  task,      \* the webhook handler at work on this chat
  calls,     \* settle_card_bill requests the database has not executed
  form,      \* the payment form the web page shows
  usedKeys,  \* keys handed out by randomUUID
  fate,      \* what the bot told the member of each draft
  ever       \* payments that have been recorded at some time

dbVars  == <<rows, accounts, bills, active, linked, today>>
botVars == <<conv, task>>
vars    == <<dbVars, botVars, calls, form, usedKeys, fate, ever>>

------------------------------------------------------------------------
(* Records.                                                              *)

Draft == [id : Drafts, key : Keys \cup {NoKey}, bill : Bills \cup {NoBill},
          account : Accounts, amount : Amounts \cup {NoAmount},
          paidOn : Days, by : Members]

Payment == [bill : Bills, account : Accounts, amount : Amounts,
            paidOn : Days, by : Members]

Row  == [rid : RowIds, id : Drafts, key : Keys \cup {NoKey}, pay : Payment]
Call == [tag : Tags, id : Drafts, key : Keys, pay : Payment]

PaymentOf(d) == [bill |-> d.bill, account |-> d.account,
                 amount |-> d.amount, paidOn |-> d.paidOn, by |-> d.by]

Closed      == [status |-> "closed", draft |-> NoDraft]
Awaiting(d) == [status |-> "awaiting", draft |-> d]
Started(d)  == [status |-> "started", draft |-> d]

Phases  == {"idle", "queued", "submitting", "ready", "waiting",
            "answered", "concluding"}
Asks    == {"confirm", "cancel", "other"}
Vias    == {"text", "tap", "voice"}
Answers == {"none", "settled", "replayed", "definitive", "error"}

Idle == [phase |-> "idle", via |-> "text", ask |-> "other", who |-> NoOne,
         next |-> "closed", draft |-> NoDraft, tag |-> NoTag,
         answer |-> "none"]

WithCard(d, b, m) == [d EXCEPT !.bill = b, !.amount = m]
WithKey(d, k)     == [d EXCEPT !.key = k]

\* A handler with a draft in hand.
Busy(phase, next, d) == [Idle EXCEPT !.phase = phase, !.who = task.who,
                                     !.next = next, !.draft = d]

\* Mutant: the amount is not asked for.
CompleteCardOnly(d) == d.bill # NoBill

Complete(d) == d.bill # NoBill /\ d.amount # NoAmount

UnusedRid == CHOOSE i \in RowIds : \A r \in rows : r.rid # i
FreeRid   == \E i \in RowIds : \A r \in rows : r.rid # i
TagFree(t) == t # task.tag /\ \A c \in calls : c.tag # t
FreeTag   == CHOOSE t \in Tags : TagFree(t)
HasTag    == \E t \in Tags : TagFree(t)
FreshIds  == {d \in Drafts : fate[d] = "unused"}
FreshKeys == Keys \ usedKeys

------------------------------------------------------------------------
(* settle_card_bill against the state of the database.                   *)

SameKey(c)  == {r \in rows : r.key = c.key}
Refused(c)  == c.pay.by \notin active
Invalid(c)  == \/ c.pay.paidOn > today
               \/ c.pay.bill \notin bills
               \/ c.pay.account \notin accounts

\* Mutant: a key already used is an error, whatever it was used for.
SettleAnswerOnce(c) ==
  IF Refused(c) \/ SameKey(c) # {} THEN "error"
  ELSE IF Invalid(c) THEN "definitive" ELSE "settled"

\* The answer the RPC gives: a key already used is inspected before the
\* request is validated, and only validation carries the no-write marker.
SettleAnswer(c) ==
  IF Refused(c) THEN "error"
  ELSE IF SameKey(c) # {}
       THEN IF \A r \in SameKey(c) : r.pay = c.pay THEN "replayed" ELSE "error"
  ELSE IF Invalid(c) THEN "definitive"
  ELSE "settled"

NewRow(c) == [rid |-> UnusedRid, id |-> c.id, key |-> c.key, pay |-> c.pay]

\* reconcile_legacy_card_bill_payment for a draft that has no key.
LegacyRows(d) == {r \in rows : r.key = NoKey /\ r.pay.bill = d.bill}
LegacyStatusUnchecked(d) == "none"  \* mutant: nobody looks
LegacyStatus(d) ==
  IF LegacyRows(d) = {} THEN "none"
  ELSE IF \E r \in rows : LegacyRows(d) = {r} /\ r.pay = PaymentOf(d)
  THEN "matched"
  ELSE "ambiguous"

------------------------------------------------------------------------
(* Initial states: nothing open, or a draft saved by an earlier version of *)
(* the bot, which gave drafts no key and may already have recorded them.  *)

LegacyDraft(d, p) == [id |-> d, key |-> NoKey, bill |-> p.bill,
                      account |-> p.account, amount |-> p.amount,
                      paidOn |-> p.paidOn, by |-> p.by]
LegacyRow(i, d, p) == [rid |-> i, id |-> d, key |-> NoKey, pay |-> p]

StartsClean == /\ rows = {}
               /\ conv = Closed
               /\ fate = [d \in Drafts |-> "unused"]

\* The draft's own payment may be recorded, or that of an earlier intention.
StartsLegacy ==
  \E d \in Drafts, p \in Payment :
    /\ p.paidOn = 0
    /\ conv = Awaiting(LegacyDraft(d, p))
    /\ \/ /\ rows = {}
          /\ fate = [x \in Drafts |-> IF x = d THEN "open" ELSE "unused"]
       \/ \E i \in RowIds :
            /\ rows = {LegacyRow(i, d, p)}
            /\ fate = [x \in Drafts |-> IF x = d THEN "open" ELSE "unused"]
       \/ \E i \in RowIds, e \in Drafts \ {d}, q \in Payment :
            /\ q.paidOn = 0
            /\ rows = {LegacyRow(i, e, q)}
            /\ fate = [x \in Drafts |-> IF x = d THEN "open"
                                        ELSE IF x = e THEN "paid" ELSE "unused"]

Init ==
  /\ StartsClean \/ (WithLegacy /\ StartsLegacy)
  /\ accounts = Accounts
  /\ bills = Bills
  /\ active = Members
  /\ linked \in Members
  /\ today = 0
  /\ task = Idle
  /\ calls = {}
  /\ form = NoDraft
  /\ usedKeys = {}
  /\ ever = {r.pay : r \in rows}

------------------------------------------------------------------------
(* The webhook handler.                                                  *)

\* The sender is resolved to a member before the update joins the chat's
\* queue, so the link may change before the handler loads the conversation.
Receive(via, ask) ==
  /\ task.phase = "idle"
  /\ linked \in active
  /\ via = "voice" => ask = "other"
  /\ task' = [Idle EXCEPT !.phase = "queued", !.via = via, !.ask = ask,
                          !.who = linked]
  /\ UNCHANGED <<dbVars, conv, calls, form, usedKeys, fate, ever>>

Queued(ask) == task.phase = "queued" /\ task.ask = ask
Mine        == conv.status # "closed" /\ conv.draft.by = task.who
OnMine      == task.via \in {"text", "tap"} /\ Mine

\* What becomes of the open draft when a new conversation replaces it.
LetGo(f) == IF conv.status = "closed" THEN f
            ELSE [f EXCEPT ![conv.draft.id] =
                    IF conv.status = "awaiting" THEN "released" ELSE "orphaned"]

\* store.load: a row older than a day is deleted unless it is durable.
ExpireOnLoad ==
  /\ task.phase = "queued"
  /\ conv.status = "awaiting"
  /\ conv' = Closed
  /\ fate' = LetGo(fate)
  /\ UNCHANGED <<dbVars, task, calls, form, usedKeys, ever>>

\* Mutant: a voice note replaces a draft that is being settled.
ReplacesAny == task.via = "voice" \/ (task.via = "text" /\ ~Mine)

\* A voice note replaces whatever is not being settled; a text replaces a
\* closed conversation and one whose draft another member created.
Replaces == \/ task.via = "voice" /\ conv.status # "started"
            \/ task.via = "text" /\ ~Mine

NewDraft(d, k, b, a, m, day) ==
  [id |-> d, key |-> k, bill |-> b, account |-> a, amount |-> m,
   paidOn |-> day, by |-> task.who]

\* startCardBillIntent: the key is minted with the draft.  The card may still
\* be open (picker) and the amount too (extra payment of a covered bill).
StartDraft ==
  /\ Queued("other")
  /\ Replaces
  /\ \E d \in FreshIds, k \in FreshKeys, b \in bills \cup {NoBill},
        a \in accounts, m \in Amounts \cup {NoAmount}, day \in Days :
       /\ b = NoBill => m = NoAmount
       /\ conv' = Awaiting(NewDraft(d, k, b, a, m, day))
       /\ usedKeys' = usedKeys \cup {k}
       /\ fate' = [LetGo(fate) EXCEPT ![d] = "open"]
  /\ task' = Idle
  /\ UNCHANGED <<dbVars, calls, form, ever>>

\* The message opens another flow, or is refused before a draft exists.
StartElsewhere ==
  /\ task.phase = "queued"
  /\ Replaces
  /\ conv' = Closed
  /\ fate' = LetGo(fate)
  /\ task' = Idle
  /\ UNCHANGED <<dbVars, calls, form, usedKeys, ever>>

\* resolveBillCard: the month's remaining amount is read; a bill with
\* nothing to pay ends the conversation.
ChooseCard ==
  /\ Queued("other")
  /\ OnMine
  /\ conv.status = "awaiting"
  /\ conv.draft.bill = NoBill
  /\ \/ \E b \in bills, m \in Amounts \cup {NoAmount} :
          /\ conv' = Awaiting(WithCard(conv.draft, b, m))
          /\ fate' = fate
     \/ conv' = Closed /\ fate' = LetGo(fate)
  /\ task' = Idle
  /\ UNCHANGED <<dbVars, calls, form, usedKeys, ever>>

\* applyCardBillMessage: "valor", "conta" and "data" corrections.
EditDraft ==
  /\ Queued("other")
  /\ OnMine /\ task.via = "text"
  /\ conv.status = "awaiting"
  /\ conv.draft.bill # NoBill
  /\ \/ \E m \in Amounts : conv' = Awaiting([conv.draft EXCEPT !.amount = m])
     \/ \E a \in accounts : conv' = Awaiting([conv.draft EXCEPT !.account = a])
     \/ \E day \in 0 .. today :
          conv' = Awaiting([conv.draft EXCEPT !.paidOn = day])
  /\ task' = Idle
  /\ UNCHANGED <<dbVars, calls, form, usedKeys, fate, ever>>

Cancel ==
  /\ Queued("cancel")
  /\ OnMine
  /\ conv.status = "awaiting"
  /\ conv' = Closed
  /\ fate' = LetGo(fate)
  /\ task' = Idle
  /\ UNCHANGED <<dbVars, calls, form, usedKeys, ever>>

\* The handler answers and leaves the conversation as it was.
Refuse ==
  /\ task.phase = "queued"
  /\ \/ conv.status = "closed"
     \/ task.via = "tap" /\ ~Mine
     \/ conv.status = "awaiting" /\ task.ask = "other"
     \/ conv.status = "awaiting" /\ task.ask = "confirm" /\ Mine
        /\ (~Complete(conv.draft) \/ conv.draft.paidOn > today)
     \/ conv.status = "started" /\ (task.via = "voice" \/ task.ask # "confirm")
        /\ (task.via = "text" => Mine)
  /\ task' = Idle
  /\ UNCHANGED <<dbVars, conv, calls, form, usedKeys, fate, ever>>

------------------------------------------------------------------------
(* Confirming: the draft is pinned and saved as started before the RPC.  *)

CanSubmit == /\ Queued("confirm")
             /\ OnMine
             /\ conv.status = "awaiting"
             /\ Complete(conv.draft)
             /\ conv.draft.paidOn <= today

Submit(d)           == task' = Busy("submitting", "started", d)
Conclusion(next, d) == Busy("concluding", next, d)

\* prepareCardBillSubmission for a draft that has its key.
PrepareKeyed ==
  /\ CanSubmit
  /\ conv.draft.key # NoKey
  /\ Submit(conv.draft)
  /\ UNCHANGED <<dbVars, conv, calls, form, usedKeys, fate, ever>>

\* The same for an older draft: only when no keyless payment of the bill is
\* recorded does it get a key; an exact one ends it, any other blocks it.
PrepareLegacy ==
  /\ CanSubmit
  /\ conv.draft.key = NoKey
  /\ task.who \in active
  /\ \/ /\ LegacyStatus(conv.draft) = "none"
        /\ \E k \in FreshKeys :
             /\ Submit(WithKey(conv.draft, k))
             /\ usedKeys' = usedKeys \cup {k}
     \/ /\ LegacyStatus(conv.draft) = "matched"
        /\ task' = Conclusion("paid", conv.draft)
        /\ usedKeys' = usedKeys
     \/ /\ LegacyStatus(conv.draft) = "ambiguous"
        /\ task' = Idle
        /\ usedKeys' = usedKeys
  /\ UNCHANGED <<dbVars, conv, calls, form, fate, ever>>

\* Mutant: the RPC is called before the draft is saved as started.
SaveSubmissionLate ==
  /\ task.phase = "submitting"
  /\ task' = [task EXCEPT !.phase = "ready"]
  /\ UNCHANGED <<dbVars, conv, calls, form, usedKeys, fate, ever>>

SaveSubmission ==
  /\ task.phase = "submitting"
  /\ conv' = Started(task.draft)
  /\ task' = [task EXCEPT !.phase = "ready"]
  /\ UNCHANGED <<dbVars, calls, form, usedKeys, fate, ever>>

\* A started draft can only be confirmed again, with the draft as saved.
ConfirmStarted ==
  /\ Queued("confirm")
  /\ OnMine
  /\ conv.status = "started"
  /\ task' = Busy("ready", "started", conv.draft)
  /\ UNCHANGED <<dbVars, conv, calls, form, usedKeys, fate, ever>>

Request(t, d) == [tag |-> t, id |-> d.id, key |-> d.key, pay |-> PaymentOf(d)]

CallSettle ==
  /\ task.phase = "ready"
  /\ HasTag
  /\ calls' = calls \cup {Request(FreeTag, task.draft)}
  /\ task' = [task EXCEPT !.phase = "waiting", !.tag = FreeTag]
  /\ UNCHANGED <<dbVars, conv, form, usedKeys, fate, ever>>

\* The database executes a request, whether or not anyone still waits for it.
ExecuteSettle(c) ==
  /\ c \in calls
  /\ \/ /\ SettleAnswer(c) = "settled"
        /\ FreeRid
        /\ rows' = rows \cup {NewRow(c)}
        /\ ever' = ever \cup {c.pay}
     \/ /\ SettleAnswer(c) # "settled"
        /\ UNCHANGED <<rows, ever>>
  /\ calls' = calls \ {c}
  /\ task' = IF task.phase = "waiting" /\ task.tag = c.tag
             THEN [task EXCEPT !.phase = "answered", !.tag = NoTag,
                               !.answer = SettleAnswer(c)]
             ELSE task
  /\ UNCHANGED <<accounts, bills, active, linked, today, conv, form, usedKeys,
                 fate>>

\* The request is dropped on the way, or its transaction is rolled back.
LoseCall(c) ==
  /\ c \in calls
  /\ calls' = calls \ {c}
  /\ UNCHANGED <<dbVars, botVars, form, usedKeys, fate, ever>>

\* Mutants: any failure reopens the draft; any answer without the no-write
\* marker counts as success.
VerdictReopens(answer) == IF answer \in {"settled", "replayed"} THEN "paid" ELSE "awaiting"
VerdictTrusts(answer)  == IF answer = "definitive" THEN "awaiting" ELSE "paid"

\* What the handler makes of an answer: success ends the conversation, proof
\* that nothing was written reopens the draft, anything else is uncertain.
Verdict(answer) == CASE answer \in {"settled", "replayed"} -> "paid"
                     [] answer = "definitive" -> "awaiting"
                     [] OTHER -> "started"

TakeAnswer ==
  /\ task.phase = "answered"
  /\ task' = Conclusion(Verdict(task.answer), task.draft)
  /\ UNCHANGED <<dbVars, conv, calls, form, usedKeys, fate, ever>>

\* Mutant: a timeout is taken for a failure.
AnswerLostReopens ==
  /\ task.phase \in {"waiting", "answered"}
  /\ task' = Conclusion("awaiting", task.draft)
  /\ UNCHANGED <<dbVars, conv, calls, form, usedKeys, fate, ever>>

\* The reply is lost, or the client gives up before there is one.
AnswerLost ==
  /\ task.phase \in {"waiting", "answered"}
  /\ task' = Conclusion("started", task.draft)
  /\ UNCHANGED <<dbVars, conv, calls, form, usedKeys, fate, ever>>

\* Mutant: an uncertain outcome ends the conversation.
ConcludeForgets ==
  /\ task.phase = "concluding"
  /\ conv' = IF task.next = "awaiting" THEN Awaiting(task.draft) ELSE Closed
  /\ fate' = IF task.next = "paid" THEN [fate EXCEPT ![task.draft.id] = "paid"]
             ELSE fate
  /\ task' = Idle
  /\ UNCHANGED <<dbVars, calls, form, usedKeys, ever>>

Conclude ==
  /\ task.phase = "concluding"
  /\ conv' = CASE task.next = "paid" -> Closed
               [] task.next = "awaiting" -> Awaiting(task.draft)
               [] OTHER -> Started(task.draft)
  /\ fate' = IF task.next = "paid" THEN [fate EXCEPT ![task.draft.id] = "paid"]
             ELSE fate
  /\ task' = Idle
  /\ UNCHANGED <<dbVars, calls, form, usedKeys, ever>>

\* The process crashes, or a store, database or Telegram call of the handler
\* throws.  Requests already sent stay in flight.
HandlerStops ==
  /\ task.phase # "idle"
  /\ task' = Idle
  /\ UNCHANGED <<dbVars, conv, calls, form, usedKeys, fate, ever>>

------------------------------------------------------------------------
(* The web: the payment form, undoing and editing a payment, deleting.   *)

\* Each render of the page carries a key of its own.
RenderForm ==
  /\ WithWebForm
  /\ \E d \in FreshIds, k \in FreshKeys, b \in bills :
       /\ form' = [id |-> d, key |-> k, bill |-> b]
       /\ usedKeys' = usedKeys \cup {k}
       /\ fate' = [fate EXCEPT ![d] = "web"]
  /\ UNCHANGED <<dbVars, botVars, calls, ever>>

\* payCardBillAction, again and with other values if the member likes.
SubmitForm ==
  /\ form # NoDraft
  /\ HasTag
  /\ \E p \in Payment :
       /\ p.bill = form.bill /\ p.paidOn <= today
       /\ calls' = calls \cup {[tag |-> FreeTag, id |-> form.id,
                                key |-> form.key, pay |-> p]}
  /\ UNCHANGED <<dbVars, botVars, form, usedKeys, fate, ever>>

UndoPayment(r) ==
  /\ r \in rows
  /\ rows' = rows \ {r}
  /\ UNCHANGED <<accounts, bills, active, linked, today, botVars, calls, form,
                 usedKeys, fate, ever>>

Edited(r, m, day) == [r EXCEPT !.pay.amount = m, !.pay.paidOn = day]

\* updateTransaction lets the amount and the date of a transfer change, and
\* neither its account nor its card.
EditPayment(r) ==
  /\ MayEdit
  /\ r \in rows
  /\ \E m \in Amounts, day \in Days :
       /\ rows' = (rows \ {r}) \cup {Edited(r, m, day)}
       /\ ever' = ever \cup {Edited(r, m, day).pay}
  /\ UNCHANGED <<accounts, bills, active, linked, today, botVars, calls, form,
                 usedKeys, fate>>

\* Foreign keys restrict both deletions to what no payment refers to.
DeleteAccount(a) ==
  /\ a \in accounts
  /\ \A r \in rows : r.pay.account # a
  /\ accounts' = accounts \ {a}
  /\ UNCHANGED <<rows, bills, active, linked, today, botVars, calls, form,
                 usedKeys, fate, ever>>

DeleteCard(b) ==
  /\ b \in bills
  /\ \A r \in rows : r.pay.bill # b
  /\ bills' = bills \ {b}
  /\ UNCHANGED <<rows, accounts, active, linked, today, botVars, calls, form,
                 usedKeys, fate, ever>>

------------------------------------------------------------------------
(* Membership, the Telegram link and the calendar.                       *)

SetMembership(m) ==
  /\ active' = IF m \in active THEN active \ {m} ELSE active \cup {m}
  /\ UNCHANGED <<rows, accounts, bills, linked, today, botVars, calls, form,
                 usedKeys, fate, ever>>

Unlink ==
  /\ linked \in active
  /\ linked' = NoOne
  /\ UNCHANGED <<rows, accounts, bills, active, today, botVars, calls, form,
                 usedKeys, fate, ever>>

Link(m) ==
  /\ linked = NoOne
  /\ m \in active
  /\ linked' = m
  /\ UNCHANGED <<rows, accounts, bills, active, today, botVars, calls, form,
                 usedKeys, fate, ever>>

NextDay ==
  /\ today < MaxDay
  /\ today' = today + 1
  /\ UNCHANGED <<rows, accounts, bills, active, linked, botVars, calls, form,
                 usedKeys, fate, ever>>

------------------------------------------------------------------------
Handler == \/ ExpireOnLoad \/ StartDraft \/ StartElsewhere \/ ChooseCard
           \/ EditDraft \/ Cancel \/ Refuse
           \/ PrepareKeyed \/ PrepareLegacy \/ SaveSubmission
           \/ ConfirmStarted \/ CallSettle \/ TakeAnswer \/ AnswerLost
           \/ Conclude \/ HandlerStops

Database == \E c \in calls : ExecuteSettle(c) \/ LoseCall(c)

Web == \/ RenderForm \/ SubmitForm
       \/ \E r \in rows : UndoPayment(r) \/ EditPayment(r)
       \/ \E a \in accounts : DeleteAccount(a)
       \/ \E b \in bills : DeleteCard(b)

World == \/ \E m \in Members : SetMembership(m) \/ Link(m)
         \/ Unlink \/ NextDay

Next == \/ \E via \in Vias, ask \in Asks : Receive(via, ask)
        \/ Handler \/ Database \/ Web \/ World

Spec == Init /\ [][Next]_vars

------------------------------------------------------------------------
(* Properties.                                                           *)

Task == [phase : Phases, via : Vias, ask : Asks, who : Members \cup {NoOne},
         next : {"closed", "awaiting", "started", "paid"},
         draft : Draft \cup {NoDraft}, tag : Tags \cup {NoTag},
         answer : Answers]

\* Every variable holds a value of its kind, and an open conversation or a
\* submission has a draft.
TypeOK ==
  /\ rows \subseteq Row
  /\ accounts \subseteq Accounts
  /\ bills \subseteq Bills
  /\ active \subseteq Members
  /\ linked \in Members \cup {NoOne}
  /\ today \in Days
  /\ \/ conv = Closed
     \/ conv \in [status : {"awaiting", "started"}, draft : Draft]
  /\ task \in Task
  /\ task.phase \notin {"idle", "queued"} => task.draft \in Draft
  /\ task.phase \notin {"idle"} => task.who \in Members
  /\ calls \subseteq Call
  /\ form \in [id : Drafts, key : Keys, bill : Bills] \cup {NoDraft}
  /\ usedKeys \subseteq Keys
  /\ fate \in [Drafts -> {"unused", "open", "paid", "released", "orphaned",
                          "web"}]
  /\ ever \subseteq Payment

\* A request that can never write: its card or its account is gone, and
\* neither id comes back.
Dead(c) == c.pay.bill \notin bills \/ c.pay.account \notin accounts

\* One intention, one payment: however often a draft is confirmed, a form
\* submitted, a reply lost or the process restarted, no two recorded payments
\* come from the same draft or the same form.
OnePaymentPerDraft == \A r, s \in rows : r.id = s.id => r = s

\* "O pagamento não foi registrado": while the bot lets the member edit or
\* cancel a draft that has a key, no payment of that key is recorded and no
\* request still on its way can record one.
EditableMeansUnpaid ==
  conv.status = "awaiting" /\ conv.draft.key # NoKey =>
    /\ \A r \in rows : r.key # conv.draft.key
    /\ \A c \in calls : c.key = conv.draft.key => Dead(c)

\* A draft the bot has let go of (cancelled, expired, replaced by a voice
\* note) never turns into a payment afterwards.
ReleasedStaysUnpaid ==
  \A d \in Drafts : fate[d] = "released" =>
    /\ \A r \in rows : r.id = d => r.key = NoKey
    /\ \A c \in calls : c.id = d => Dead(c)

\* Every request that could still write belongs to a draft whose key the bot
\* still holds, whose outcome it has reported, or to a web form: a crash at
\* any step leaves nothing that a later confirmation would record twice.
WritesAreRecoverable ==
  \A c \in calls :
    \/ Dead(c)
    \/ fate[c.id] \in {"paid", "orphaned", "web"}
    \/ conv = Started(conv.draft) /\ conv.draft.id = c.id
       /\ conv.draft.key = c.key /\ PaymentOf(conv.draft) = c.pay

\* The bot says "paga" only of a payment that has been recorded exactly as
\* the draft describes it.
ReportsOnlyRecorded ==
  [][\A d \in Drafts : fate[d] # "paid" /\ fate'[d] = "paid" =>
       task.draft.id = d /\ PaymentOf(task.draft) \in ever]_vars

\* A started draft is kept, unchanged, until its payment is reported or shown
\* not to exist (store.ts: uncertainty is retained until it is reconciled).
UncertaintyRetained ==
  [][conv.status = "started" /\ conv' # conv =>
       \/ fate'[conv.draft.id] = "paid"
       \/ conv' = Awaiting(conv.draft)]_vars

------------------------------------------------------------------------
(* The inductive invariant, in parts.                                    *)

InTask == task.phase \notin {"idle", "queued"}

\* Key k is held in the name of draft d somewhere in the system.
Holds(d, k) ==
  \/ \E r \in rows : r.id = d /\ r.key = k
  \/ \E c \in calls : c.id = d /\ c.key = k
  \/ conv.status # "closed" /\ conv.draft.id = d /\ conv.draft.key = k
  \/ InTask /\ task.draft.id = d /\ task.draft.key = k
  \/ form # NoDraft /\ form.id = d /\ form.key = k

\* A draft has one key and a key one draft, and neither is new.
KeyNamesDraft ==
  /\ \A d, e \in Drafts, k, l \in Keys :
       Holds(d, k) /\ Holds(e, l) => (d = e <=> k = l)
  /\ \A d \in Drafts, k \in Keys :
       Holds(d, k) => k \in usedKeys /\ fate[d] # "unused"

\* The unique index on the key; of keyless rows there was one to begin with.
RowPerKey == \A r, s \in rows : r.key = s.key => r = s

\* A keyless payment stands in the way of a key for its draft.
KeylessRows ==
  \A r \in rows : r.key = NoKey =>
    /\ fate[r.id] # "unused"
    /\ \A k \in Keys : ~Holds(r.id, k)
    /\ conv.status # "closed" /\ conv.draft.id = r.id
         => conv.draft.bill = r.pay.bill

KeylessDraft ==
  conv.status # "closed" /\ conv.draft.key = NoKey =>
    /\ conv.status = "awaiting"
    /\ \A c \in calls : c.id # conv.draft.id
    /\ \A r \in rows : r.id = conv.draft.id => r.key = NoKey

OpenDraft ==
  /\ \A d \in Drafts :
       fate[d] = "open" <=> conv.status # "closed" /\ conv.draft.id = d
  /\ form # NoDraft => fate[form.id] = "web"

\* What is on its way for a started draft is that draft, or can never write.
StartedCalls ==
  conv.status = "started" =>
    /\ Complete(conv.draft)
    /\ \A c \in calls :
         c.id = conv.draft.id => c.pay = PaymentOf(conv.draft) \/ Dead(c)

NoFutureDates ==
  /\ conv.status = "started" => conv.draft.paidOn <= today
  /\ \A c \in calls : c.pay.paidOn <= today

\* The handler works on the draft the conversation holds.
TaskOnConv ==
  /\ task.phase = "submitting" =>
       /\ conv.status = "awaiting"
       /\ Complete(task.draft)
       /\ task.draft.paidOn <= today
       /\ task.draft.key # NoKey
       /\ task.draft = WithKey(conv.draft, task.draft.key)
       /\ conv.draft.key \in {NoKey, task.draft.key}
  /\ task.phase \in {"ready", "waiting", "answered"} =>
       conv = Started(task.draft)
  /\ task.phase = "concluding" =>
       \/ conv = Started(task.draft)
       \/ conv = Awaiting(task.draft) /\ task.next = "paid"
  /\ task.phase = "waiting" =>
       \A c \in calls : c.tag = task.tag =>
         c.id = task.draft.id /\ c.pay = PaymentOf(task.draft)

\* What the handler has learnt is true, and stays true until it is saved.
SaysPaid   == \/ task.phase = "answered" /\ task.answer \in {"settled", "replayed"}
              \/ task.phase = "concluding" /\ task.next = "paid"
SaysUnpaid == \/ task.phase = "answered" /\ task.answer = "definitive"
              \/ task.phase = "concluding" /\ task.next = "awaiting"
AnswerHolds ==
  /\ SaysPaid => PaymentOf(task.draft) \in ever
  /\ SaysUnpaid =>
       /\ \A r \in rows : r.key # task.draft.key
       /\ \A c \in calls : c.key = task.draft.key => Dead(c)
  /\ \A r \in rows : r.pay \in ever

\* Together these are preserved by every step: the reasons why a draft is
\* paid once, an editable one is unpaid and a released one stays unpaid.
IInv ==
  /\ TypeOK
  /\ KeyNamesDraft /\ RowPerKey /\ KeylessRows /\ KeylessDraft
  /\ OpenDraft /\ StartedCalls /\ NoFutureDates
  /\ TaskOnConv /\ AnswerHolds
  /\ EditableMeansUnpaid /\ ReleasedStaysUnpaid

------------------------------------------------------------------------
(* What all of it amounts to for the member.                             *)

KeyedPayments == {[rid |-> r.rid, id |-> r.id] : r \in {s \in rows : s.key # NoKey}}
ReleasedDrafts == {d \in Drafts : fate[d] = "released"}

Promise == INSTANCE PaymentPromise
             WITH Intentions <- Drafts, Ids <- RowIds,
                  payments <- KeyedPayments, released <- ReleasedDrafts

\* Bot, form, database and network together keep the promise: every step is
\* one payment, one undo or one release, or changes nothing the member counts.
KeepsPromise == Promise!Spec

------------------------------------------------------------------------
(* Liveness.                                                             *)

\* A member who keeps confirming a started draft, and stays active and linked,
\* gets an end to it ("confirme novamente para concluir sem duplicar").
ConfirmAgainConcludes ==
  (conv.status = "started")
    ~> (conv.status # "started" \/ linked \notin active
        \/ linked # conv.draft.by)

\* The member confirms again and again, and no crash or lost reply strikes the
\* same step every time: a step that keeps becoming possible is taken, and so
\* is the step that writes down a conclusive answer.  Nothing is assumed of a
\* single attempt.  Nobody edits recorded payments for ever.
AnswerWaiting == \E c \in calls : task.phase = "waiting" /\ task.tag = c.tag
                                  /\ ExecuteSettle(c)

ConcludeForGood == Conclude /\ task.next # "started"

KeepsConfirming ==
  /\ SF_vars(Receive("text", "confirm"))
  /\ SF_vars(ConfirmStarted)
  /\ SF_vars(CallSettle)
  /\ SF_vars(AnswerWaiting)
  /\ SF_vars(TakeAnswer)
  /\ SF_vars(Conclude)
  /\ SF_vars(ConcludeForGood)
  /\ WF_vars(Handler)
  /\ WF_vars(\E c \in calls : ExecuteSettle(c))
  /\ <>[][\A r \in rows : ~EditPayment(r)]_vars

FairSpec == Spec /\ KeepsConfirming

=============================================================================
