---------------------- MODULE CardBillPayment_proofs ----------------------
(***************************************************************************)
(* Proofs about CardBillPayment, for any number of members, drafts, keys,  *)
(* requests in flight and days.                                            *)
(***************************************************************************)
EXTENDS CardBillPayment, TLAPS

USE ConstantsAssumption

Fates == {"unused", "open", "paid", "released", "orphaned", "web"}

\* A tag picked by CHOOSE is a tag and is not in use.
LEMMA FreeTagIsFree ==
  ASSUME HasTag
  PROVE  FreeTag \in Tags /\ TagFree(FreeTag)
PROOF BY DEF HasTag, FreeTag

\* A row id picked by CHOOSE is an id.
LEMMA UnusedRidIsId ==
  ASSUME FreeRid
  PROVE  UnusedRid \in RowIds
PROOF BY DEF FreeRid, UnusedRid

\* Letting the open draft go leaves every draft with a fate.
LEMMA LetGoFate ==
  ASSUME TypeOK
  PROVE  LetGo(fate) \in [Drafts -> Fates]
PROOF BY DEF TypeOK, LetGo, Fates, Closed

\* The initial states have the types declared for them.
LEMMA TypeInit == Init => TypeOK
PROOF
  <1> SUFFICES ASSUME Init PROVE TypeOK
    OBVIOUS
  <1>1. rows \subseteq Row /\ fate \in [Drafts -> Fates]
    BY DEF Init, StartsClean, StartsLegacy, LegacyRow, Row, Fates
  <1>2. \/ conv = Closed
        \/ conv \in [status : {"awaiting", "started"}, draft : Draft]
    BY DEF Init, StartsClean, StartsLegacy, LegacyDraft, Awaiting, Draft, Payment, Days
  <1>3. ever \subseteq Payment
    BY <1>1 DEF Init, Row
  <1>4. today \in Days
    BY DEF Init, Days
  <1>5. task \in Task /\ task.phase = "idle"
    BY DEF Init, Idle, Task, Phases, Vias, Asks, Answers
  <1> QED
    BY <1>1, <1>2, <1>3, <1>4, <1>5 DEF Init, TypeOK, Fates

\* A conversation that is not closed holds a draft.
LEMMA OpenConv ==
  ASSUME TypeOK, conv.status # "closed"
  PROVE  /\ conv \in [status : {"awaiting", "started"}, draft : Draft]
         /\ conv.draft \in Draft
         /\ conv.status \in {"awaiting", "started"}
PROOF BY DEF TypeOK, Closed

\* Choosing the card and minting the key leave a draft a draft.
LEMMA WithCardTyped ==
  ASSUME NEW d \in Draft, NEW b \in Bills \cup {NoBill},
         NEW m \in Amounts \cup {NoAmount}
  PROVE  /\ WithCard(d, b, m) \in Draft
         /\ WithCard(d, b, m).id = d.id
         /\ WithCard(d, b, m).key = d.key
         /\ WithCard(d, b, m).paidOn = d.paidOn
PROOF BY DEF WithCard, Draft

\* A key minted for a draft changes nothing else of it.
LEMMA WithKeyTyped ==
  ASSUME NEW d \in Draft, NEW k \in Keys \cup {NoKey}
  PROVE  /\ WithKey(d, k) \in Draft
         /\ WithKey(d, k).id = d.id
         /\ WithKey(d, k).key = k
         /\ WithKey(d, k).bill = d.bill
         /\ WithKey(d, k).amount = d.amount
         /\ WithKey(d, k).paidOn = d.paidOn
         /\ PaymentOf(WithKey(d, k)) = PaymentOf(d)
PROOF BY DEF WithKey, Draft, PaymentOf

\* An edited payment keeps its row, its draft, its key and its bill.
LEMMA EditedRow ==
  ASSUME NEW r \in Row, NEW m \in Amounts, NEW day \in Days
  PROVE  /\ Edited(r, m, day) \in Row
         /\ Edited(r, m, day).rid = r.rid
         /\ Edited(r, m, day).id = r.id
         /\ Edited(r, m, day).key = r.key
         /\ Edited(r, m, day).pay.bill = r.pay.bill
         /\ Edited(r, m, day).pay.account = r.pay.account
PROOF BY DEF Edited, Row, Payment

\* A busy handler with a draft in hand is a handler.
LEMMA BusyTask ==
  ASSUME NEW phase \in Phases,
         NEW next \in {"closed", "awaiting", "started", "paid"},
         NEW d \in Draft, task.who \in Members
  PROVE  /\ Busy(phase, next, d) \in Task
         /\ Busy(phase, next, d).phase = phase
         /\ Busy(phase, next, d).draft = d
         /\ Busy(phase, next, d).who = task.who
         /\ Busy(phase, next, d).next = next
         /\ Busy(phase, next, d).tag = NoTag
PROOF BY DEF Busy, Idle, Task, Phases, Vias, Asks, Answers

\* Every step leaves every variable with the type declared for it.  That a
\* request carries a whole payment is known only from the draft it is made of.
LEMMA TypeNext ==
  ASSUME TypeOK, StartedCalls, TaskOnConv, KeylessDraft, [Next]_vars
  PROVE  TypeOK'
PROOF
  <1>0. LetGo(fate) \in [Drafts -> Fates] /\ Idle \in Task /\ Idle.phase = "idle"
    BY LetGoFate DEF TypeOK, Idle, Task, Phases, Vias, Asks, Answers
  <1>1. CASE UNCHANGED vars
    BY <1>1, <1>0 DEF TypeOK, vars, dbVars, botVars
  <1>2. ASSUME NEW via \in Vias, NEW ask \in Asks, Receive(via, ask)
       PROVE  TypeOK'
    <2>1. task' \in Task
      BY <1>2, <1>0 DEF TypeOK, Receive, Idle, Task, Phases, Vias, Asks, Answers
    <2>2. task'.phase \notin {"idle", "queued"} => task'.draft \in Draft
      BY <1>2, <1>0 DEF TypeOK, Receive, Idle, Task, Phases, Vias, Asks, Answers
    <2>3. task'.phase # "idle" => task'.who \in Members
      BY <1>2, <1>0 DEF TypeOK, Receive, Idle, Task, Phases, Vias, Asks, Answers
    <2>4. QED
      BY <1>2, <2>1, <2>2, <2>3 DEF TypeOK, Receive, dbVars, botVars
  <1>3. CASE Handler
    <2>1. CASE ExpireOnLoad
      BY <2>1, <1>0 DEF TypeOK, ExpireOnLoad, Closed, Awaiting, Started, Fates, dbVars, botVars
    <2>2. CASE StartDraft
      BY <2>2, <1>0 DEF TypeOK, StartDraft, NewDraft, Draft, Days, FreshIds, FreshKeys, Queued, Task, Phases, Vias, Asks, Answers, Closed, Awaiting, Started, Fates, dbVars, botVars
    <2>3. CASE StartElsewhere
      BY <2>3, <1>0 DEF TypeOK, StartElsewhere, Closed, Awaiting, Started, Fates, dbVars, botVars
    <2>4. CASE ChooseCard
      <3>1. conv.draft \in Draft
        BY <2>4, OpenConv DEF ChooseCard
      <3>2. \A b \in bills, m \in Amounts \cup {NoAmount} :
               WithCard(conv.draft, b, m) \in Draft
        BY <3>1, WithCardTyped DEF TypeOK
      <3>3. \/ conv' = Closed
            \/ conv' \in [status : {"awaiting", "started"}, draft : Draft]
        BY <2>4, <3>2 DEF ChooseCard, Awaiting
      <3>4. fate' \in [Drafts -> Fates]
        BY <2>4, <1>0 DEF TypeOK, ChooseCard, Fates
      <3>5. QED
        BY <2>4, <1>0, <3>3, <3>4 DEF TypeOK, ChooseCard, Closed, Fates, dbVars
    <2>5. CASE EditDraft
      BY <2>5, <1>0 DEF TypeOK, EditDraft, Draft, Days, OnMine, Mine, Queued, Closed, Awaiting, Started, Fates, dbVars, botVars
    <2>6. CASE Cancel
      BY <2>6, <1>0 DEF TypeOK, Cancel, Closed, Awaiting, Started, Fates, dbVars, botVars
    <2>7. CASE Refuse
      BY <2>7, <1>0 DEF TypeOK, Refuse, Closed, Awaiting, Started, Fates, dbVars, botVars
    <2>8. CASE PrepareKeyed
      <3>1. conv.draft \in Draft /\ task.who \in Members
        BY <2>8 DEF TypeOK, Closed, PrepareKeyed, CanSubmit, Submit, Queued, OnMine, Mine
      <3>2. /\ task' \in Task
            /\ task'.phase \notin {"idle", "queued"} => task'.draft \in Draft
            /\ task'.phase # "idle" => task'.who \in Members
        BY <2>8, <3>1, BusyTask, <1>0 DEF PrepareKeyed, CanSubmit, Submit, Queued, OnMine, Mine, Phases
      <3>3. QED
        BY <2>8, <3>2 DEF TypeOK, PrepareKeyed, dbVars, botVars
    <2>9. CASE PrepareLegacy
      <3>1. conv.draft \in Draft /\ task.who \in Members
        BY <2>9 DEF TypeOK, Closed, PrepareLegacy, CanSubmit, Submit, Conclusion, Queued, OnMine, Mine, FreshKeys
      <3>2. \A k \in Keys : WithKey(conv.draft, k) \in Draft
        BY <3>1, WithKeyTyped
      <3>3. /\ task' \in Task
            /\ task'.phase \notin {"idle", "queued"} => task'.draft \in Draft
            /\ task'.phase # "idle" => task'.who \in Members
        <4>1. \/ task' = Idle
              \/ task' = Busy("concluding", "paid", conv.draft)
              \/ \E k \in Keys : task' = Busy("submitting", "started", WithKey(conv.draft, k))
          BY <2>9 DEF PrepareLegacy, Submit, Conclusion, FreshKeys
        <4>2. QED
          BY <1>0, <3>1, <3>2, <4>1, BusyTask DEF Phases
      <3>4. QED
        BY <2>9, <3>3 DEF TypeOK, PrepareLegacy, FreshKeys, dbVars, botVars
    <2>10. CASE SaveSubmission
      <3>1. task' \in Task
        BY <2>10, <1>0 DEF TypeOK, SaveSubmission, Idle, Task, Phases, Vias, Asks, Answers
      <3>2. task'.phase \notin {"idle", "queued"} => task'.draft \in Draft
        BY <2>10, <1>0 DEF TypeOK, SaveSubmission, Idle, Task, Phases, Vias, Asks, Answers
      <3>3. task'.phase # "idle" => task'.who \in Members
        BY <2>10, <1>0 DEF TypeOK, SaveSubmission, Idle, Task, Phases, Vias, Asks, Answers
      <3>4. QED
        BY <2>10, <3>1, <3>2, <3>3 DEF TypeOK, SaveSubmission, Started, dbVars, botVars
    <2>11. CASE ConfirmStarted
      <3>1. conv.draft \in Draft /\ task.who \in Members
        BY <2>11 DEF TypeOK, Closed, ConfirmStarted, Queued, OnMine, Mine
      <3>2. /\ task' \in Task
            /\ task'.phase \notin {"idle", "queued"} => task'.draft \in Draft
            /\ task'.phase # "idle" => task'.who \in Members
        BY <2>11, <3>1, BusyTask, <1>0 DEF ConfirmStarted, Queued, OnMine, Mine, Phases
      <3>3. QED
        BY <2>11, <3>2 DEF TypeOK, ConfirmStarted, dbVars, botVars
    <2>12. CASE CallSettle
      <3>1. FreeTag \in Tags /\ task.draft \in Draft
        BY <2>12, FreeTagIsFree DEF TypeOK, CallSettle
      <3>2. task.draft.bill \in Bills /\ task.draft.amount \in Amounts
        BY <2>12, <3>1 DEF TypeOK, CallSettle, StartedCalls, TaskOnConv, Complete, Started, Draft
      <3>3. PaymentOf(task.draft) \in Payment /\ task.draft.key \in Keys /\ task.draft.id \in Drafts
        BY <3>1, <3>2, <2>12 DEF CallSettle, PaymentOf, Payment, Draft, KeylessDraft, TaskOnConv, Started
      <3>4. calls' \subseteq Call
        BY <2>12, <3>1, <3>3 DEF TypeOK, CallSettle, Request, Call
      <3>5. task' \in Task
        BY <2>12, <3>1 DEF TypeOK, CallSettle, Task, Phases
      <3>6. QED
        BY <2>12, <3>1, <3>4, <3>5 DEF TypeOK, CallSettle, Task, dbVars, botVars
    <2>13. CASE TakeAnswer
      <3>1. task.draft \in Draft /\ task.who \in Members
        BY <2>13 DEF TypeOK, Closed, TakeAnswer, Conclusion, Verdict
      <3>2. /\ task' \in Task
            /\ task'.phase \notin {"idle", "queued"} => task'.draft \in Draft
            /\ task'.phase # "idle" => task'.who \in Members
        BY <2>13, <3>1, BusyTask, <1>0 DEF TakeAnswer, Conclusion, Verdict, Phases
      <3>3. QED
        BY <2>13, <3>2 DEF TypeOK, TakeAnswer, dbVars, botVars
    <2>14. CASE AnswerLost
      <3>1. task.draft \in Draft /\ task.who \in Members
        BY <2>14 DEF TypeOK, Closed, AnswerLost, Conclusion
      <3>2. /\ task' \in Task
            /\ task'.phase \notin {"idle", "queued"} => task'.draft \in Draft
            /\ task'.phase # "idle" => task'.who \in Members
        BY <2>14, <3>1, BusyTask, <1>0 DEF AnswerLost, Conclusion, Phases
      <3>3. QED
        BY <2>14, <3>2 DEF TypeOK, AnswerLost, dbVars, botVars
    <2>15. CASE Conclude
      BY <2>15, <1>0 DEF TypeOK, Conclude, Task, Closed, Awaiting, Started, Fates, dbVars, botVars
    <2>16. CASE HandlerStops
      BY <2>16, <1>0 DEF TypeOK, HandlerStops, Closed, Awaiting, Started, Fates, dbVars, botVars
    <2> QED
      BY <1>3, <2>1, <2>2, <2>3, <2>4, <2>5, <2>6, <2>7, <2>8, <2>9, <2>10, <2>11, <2>12, <2>13, <2>14, <2>15, <2>16 DEF Handler
  <1>4. ASSUME NEW c \in calls, ExecuteSettle(c)
       PROVE  TypeOK'
    <2>1. rows' \subseteq Row /\ ever' \subseteq Payment
      BY <1>4, UnusedRidIsId DEF TypeOK, ExecuteSettle, NewRow, Row, Call
    <2>2. task' \in Task
      <3>1. SettleAnswer(c) \in Answers
        BY DEF SettleAnswer, Answers
      <3>2. task \in Task
        BY <1>0 DEF TypeOK
      <3>3. [task EXCEPT !.phase = "answered", !.tag = NoTag, !.answer = SettleAnswer(c)]
              \in Task
        BY <3>1, <3>2 DEF Task, Phases
      <3> QED
        BY <1>4, <3>2, <3>3 DEF ExecuteSettle
    <2>3. task'.phase \notin {"idle", "queued"} => task'.draft \in Draft
      BY <1>4, <1>0 DEF TypeOK, ExecuteSettle, SettleAnswer, Idle, Task, Phases, Vias, Asks, Answers
    <2>4. task'.phase # "idle" => task'.who \in Members
      BY <1>4, <1>0 DEF TypeOK, ExecuteSettle, SettleAnswer, Idle, Task, Phases, Vias, Asks, Answers
    <2>5. QED
      BY <1>4, <2>1, <2>2, <2>3, <2>4 DEF TypeOK, ExecuteSettle, dbVars, botVars
  <1>5. ASSUME NEW c \in calls, LoseCall(c)
       PROVE  TypeOK'
    BY <1>5, <1>0 DEF TypeOK, LoseCall, dbVars, botVars
  <1>6. CASE Web
    <2>1. CASE RenderForm
      BY <2>1, <1>0 DEF TypeOK, RenderForm, FreshIds, FreshKeys, Closed, Awaiting, Started, Fates, dbVars, botVars
    <2>2. CASE SubmitForm
      <3>1. calls' \subseteq Call
        BY <2>2, FreeTagIsFree DEF TypeOK, SubmitForm, Call
      <3>2. QED
        BY <2>2, <3>1 DEF TypeOK, SubmitForm, dbVars, botVars
    <2>3. ASSUME NEW r \in rows, UndoPayment(r)
         PROVE  TypeOK'
      BY <2>3, <1>0 DEF TypeOK, UndoPayment, dbVars, botVars
    <2>4. ASSUME NEW r \in rows, EditPayment(r)
         PROVE  TypeOK'
      <3>1. \A m \in Amounts, day \in Days :
              Edited(r, m, day) \in Row /\ Edited(r, m, day).pay \in Payment
        BY <2>4, EditedRow DEF TypeOK, Row
      <3>2. rows' \subseteq Row /\ ever' \subseteq Payment
        BY <2>4, <3>1 DEF TypeOK, EditPayment
      <3>3. QED
        BY <2>4, <3>2 DEF TypeOK, EditPayment, botVars
    <2>5. ASSUME NEW a \in accounts, DeleteAccount(a)
         PROVE  TypeOK'
      BY <2>5, <1>0 DEF TypeOK, DeleteAccount, dbVars, botVars
    <2>6. ASSUME NEW b \in bills, DeleteCard(b)
         PROVE  TypeOK'
      BY <2>6, <1>0 DEF TypeOK, DeleteCard, dbVars, botVars
    <2> QED
      BY <1>6, <2>1, <2>2, <2>3, <2>4, <2>5, <2>6 DEF Web
  <1>7. CASE World
    <2>1. ASSUME NEW m \in Members, SetMembership(m)
         PROVE  TypeOK'
      BY <2>1, <1>0 DEF TypeOK, SetMembership, dbVars, botVars
    <2>2. ASSUME NEW m \in Members, Link(m)
         PROVE  TypeOK'
      BY <2>2, <1>0 DEF TypeOK, Link, dbVars, botVars
    <2>3. CASE Unlink
      BY <2>3, <1>0 DEF TypeOK, Unlink, dbVars, botVars
    <2>4. CASE NextDay
      BY <2>4, <1>0 DEF TypeOK, NextDay, Days, botVars
    <2> QED
      BY <1>7, <2>1, <2>2, <2>3, <2>4 DEF World
  <1> QED
    BY <1>1, <1>2, <1>3, <1>4, <1>5, <1>6, <1>7 DEF Next, Database

------------------------------------------------------------------------
(* Steps.                                                                *)

\* The steps of the world and of the deletions as the rest sees them.
Aside == /\ UNCHANGED <<rows, conv, task, calls, form, usedKeys, fate, ever>>
         /\ accounts' \subseteq accounts /\ bills' \subseteq bills
         /\ today <= today'

\* Every step is one of these.
LEMMA StepCases ==
  ASSUME TypeOK, [Next]_vars
  PROVE  \/ Aside
         \/ \E via \in Vias, ask \in Asks : Receive(via, ask)
         \/ Handler
         \/ \E c \in calls : ExecuteSettle(c)
         \/ \E c \in calls : LoseCall(c)
         \/ RenderForm
         \/ SubmitForm
         \/ \E r \in rows : UndoPayment(r)
         \/ \E r \in rows : EditPayment(r)
PROOF
  <1>0. today \in Int
    BY DEF TypeOK, Days
  <1>1. UNCHANGED vars => Aside
    BY <1>0 DEF vars, dbVars, botVars, Aside
  <1>2. ASSUME NEW a \in accounts, DeleteAccount(a) PROVE Aside
    BY <1>0, <1>2 DEF DeleteAccount, Aside, botVars
  <1>3. ASSUME NEW b \in bills, DeleteCard(b) PROVE Aside
    BY <1>0, <1>3 DEF DeleteCard, Aside, botVars
  <1>4. ASSUME NEW m \in Members, SetMembership(m) PROVE Aside
    BY <1>0, <1>4 DEF SetMembership, Aside, botVars
  <1>5. ASSUME NEW m \in Members, Link(m) PROVE Aside
    BY <1>0, <1>5 DEF Link, Aside, botVars
  <1>6. Unlink => Aside
    BY <1>0 DEF Unlink, Aside, botVars
  <1>7. NextDay => Aside
    BY <1>0 DEF NextDay, Aside, botVars
  <1>8. World => Aside
    BY <1>4, <1>5, <1>6, <1>7 DEF World
  <1> QED
    BY <1>1, <1>2, <1>3, <1>8 DEF Next, Database, Web

------------------------------------------------------------------------
(* Keys and drafts.                                                      *)

NoNewHolder == \A d \in Drafts, k \in Keys : Holds(d, k)' => Holds(d, k)

NewHolder(e, l) ==
  /\ \A k \in Keys : ~Holds(e, k)
  /\ \A r \in rows : r.id = e => r.key # NoKey
  /\ l \notin usedKeys /\ l \in usedKeys' /\ fate'[e] # "unused"
  /\ \A d \in Drafts, k \in Keys : Holds(d, k)' => Holds(d, k) \/ (d = e /\ k = l)

HolderStep == NoNewHolder \/ \E e \in Drafts, l \in Keys : NewHolder(e, l)

\* A step puts at most one key in the name of one draft, a key never used and
\* a draft that had none.
LEMMA HolderNext ==
  ASSUME IInv, [Next]_vars
  PROVE  HolderStep
PROOF
  <1>0. TypeOK /\ (NoNewHolder => HolderStep)
    BY DEF IInv, HolderStep
  <1>1. CASE Aside
    BY <1>1, <1>0 DEF NoNewHolder, Holds, InTask, Aside
  <1>2. ASSUME NEW via \in Vias, NEW ask \in Asks, Receive(via, ask)
       PROVE  HolderStep
    BY <1>2, <1>0 DEF NoNewHolder, Holds, InTask, Receive, Idle, dbVars
  <1>3. CASE Handler
    <2>1. CASE ExpireOnLoad
      BY <2>1, <1>0 DEF NoNewHolder, Holds, InTask, ExpireOnLoad, Idle, Closed,
         dbVars
    <2>2. CASE StartDraft
      <3>1. PICK e \in FreshIds, l \in FreshKeys, b \in bills \cup {NoBill}, a \in accounts,
                 m \in Amounts \cup {NoAmount}, day \in Days :
              /\ conv' = Awaiting(NewDraft(e, l, b, a, m, day))
              /\ usedKeys' = usedKeys \cup {l}
              /\ fate' = [LetGo(fate) EXCEPT ![e] = "open"]
        BY <2>2 DEF StartDraft
      <3>2. conv'.draft.id = e /\ conv'.draft.key = l /\ e \in Drafts /\ l \in Keys /\ fate[e] = "unused" /\ l \notin usedKeys
        BY <3>1 DEF FreshIds, FreshKeys, Awaiting, NewDraft
      <3>3. fate'[e] # "unused" /\ l \in usedKeys'
        BY <3>1, <3>2, LetGoFate, <1>0
      <3>4. /\ \A k \in Keys : ~Holds(e, k)
            /\ \A r \in rows : r.id = e => r.key # NoKey
        BY <3>2 DEF IInv, KeyNamesDraft, KeylessRows
      <3>5. \A d \in Drafts, k \in Keys : Holds(d, k)' => Holds(d, k) \/ (d = e /\ k = l)
        BY <2>2, <3>1, <3>2 DEF StartDraft, Holds, InTask, Idle, Awaiting, dbVars
      <3>6. QED
        BY <3>2, <3>3, <3>4, <3>5 DEF HolderStep, NewHolder
    <2>3. CASE StartElsewhere
      BY <2>3, <1>0 DEF NoNewHolder, Holds, InTask, StartElsewhere, Idle, Closed,
         dbVars
    <2>4. CASE ChooseCard
      <3>1. conv.draft \in Draft
        BY <2>4, <1>0, OpenConv DEF ChooseCard
      <3>2. conv'.status # "closed" => conv'.draft.id = conv.draft.id /\ conv'.draft.key = conv.draft.key
        BY <2>4, <1>0, <3>1, WithCardTyped DEF ChooseCard, Closed, Awaiting, TypeOK
      <3>3. QED
        BY <2>4, <1>0, <3>2 DEF NoNewHolder, Holds, InTask, ChooseCard, Idle, dbVars
    <2>5. CASE EditDraft
      <3>1. conv.draft \in Draft
        BY <2>5, <1>0, OpenConv DEF EditDraft
      <3>2. conv'.draft.id = conv.draft.id /\ conv'.draft.key = conv.draft.key
        BY <2>5, <3>1 DEF EditDraft, Awaiting, Draft
      <3>3. QED
        BY <2>5, <1>0, <3>2 DEF NoNewHolder, Holds, InTask, EditDraft, Idle, dbVars
    <2>6. CASE Cancel
      BY <2>6, <1>0 DEF NoNewHolder, Holds, InTask, Cancel, Idle, Closed, dbVars
    <2>7. CASE Refuse
      BY <2>7, <1>0 DEF NoNewHolder, Holds, InTask, Refuse, Idle, dbVars
    <2>8. CASE PrepareKeyed
      <3>1. task.who \in Members /\ conv.draft \in Draft
        BY <2>8, <1>0, OpenConv DEF PrepareKeyed, CanSubmit, Queued, TypeOK
      <3>2. task'.draft = conv.draft /\ task'.phase = "submitting"
        BY <2>8, <3>1, BusyTask DEF PrepareKeyed, Submit, Phases
      <3>3. QED
        BY <2>8, <1>0, <3>2 DEF NoNewHolder, Holds, InTask, PrepareKeyed, CanSubmit,
           dbVars
    <2>9. CASE PrepareLegacy
      <3>1. /\ task.who \in Members /\ conv.draft \in Draft /\ conv.status = "awaiting"
            /\ conv.draft.key = NoKey /\ ~InTask
        BY <2>9, <1>0, OpenConv DEF PrepareLegacy, CanSubmit, Queued, InTask, TypeOK
      <3>2. CASE \E k \in FreshKeys : /\ LegacyStatus(conv.draft) = "none"
                                      /\ Submit(WithKey(conv.draft, k))
                                      /\ usedKeys' = usedKeys \cup {k}
        <4>1. PICK k \in FreshKeys : /\ LegacyStatus(conv.draft) = "none"
                                     /\ Submit(WithKey(conv.draft, k))
                                     /\ usedKeys' = usedKeys \cup {k}
          BY <3>2
        <4>2. /\ k \in Keys /\ k \notin usedKeys /\ WithKey(conv.draft, k) \in Draft
              /\ WithKey(conv.draft, k).id = conv.draft.id /\ WithKey(conv.draft, k).key = k
          BY <3>1, WithKeyTyped DEF FreshKeys
        <4>3. task'.draft.id = conv.draft.id /\ task'.draft.key = k
          BY <3>1, <4>1, <4>2, BusyTask DEF Submit, Phases
        <4>4. conv.draft.id \in Drafts /\ fate[conv.draft.id] = "open"
          BY <3>1 DEF IInv, OpenDraft, Draft
        <4>5. \A l \in Keys : ~Holds(conv.draft.id, l)
          BY <3>1, <4>4 DEF IInv, KeylessDraft, OpenDraft, Holds
        <4>6. \A r \in rows : r.id = conv.draft.id => r.key # NoKey
          BY <3>1, <4>1 DEF IInv, KeylessRows, LegacyStatus, LegacyRows
        <4>7. fate'[conv.draft.id] # "unused" /\ k \in usedKeys'
          BY <2>9, <4>1, <4>4 DEF PrepareLegacy
        <4>8. \A d \in Drafts, l \in Keys :
                Holds(d, l)' => Holds(d, l) \/ (d = conv.draft.id /\ l = k)
          BY <2>9, <4>3 DEF Holds, PrepareLegacy, dbVars
        <4> QED
          BY <4>2, <4>4, <4>5, <4>6, <4>7, <4>8 DEF HolderStep, NewHolder
      <3>3. CASE ~InTask' \/ task'.draft = conv.draft
        BY <2>9, <1>0, <3>1, <3>3 DEF NoNewHolder, Holds, InTask, PrepareLegacy,
           dbVars
      <3>4. \/ \E k \in FreshKeys : /\ LegacyStatus(conv.draft) = "none"
                                     /\ Submit(WithKey(conv.draft, k))
                                     /\ usedKeys' = usedKeys \cup {k}
            \/ ~InTask' \/ task'.draft = conv.draft
        BY <2>9, <3>1, BusyTask DEF PrepareLegacy, Conclusion, InTask, Idle, Phases
      <3> QED
        BY <3>2, <3>3, <3>4
    <2>10. CASE SaveSubmission
      BY <2>10, <1>0 DEF NoNewHolder, Holds, InTask, SaveSubmission, Started, dbVars
    <2>11. CASE ConfirmStarted
      <3>1. task.who \in Members /\ conv.draft \in Draft
        BY <2>11, <1>0, OpenConv DEF ConfirmStarted, Queued, TypeOK
      <3>2. task'.draft = conv.draft /\ task'.phase = "ready"
        BY <2>11, <3>1, BusyTask DEF ConfirmStarted, Phases
      <3>3. QED
        BY <2>11, <1>0, <3>2 DEF NoNewHolder, Holds, InTask, ConfirmStarted, dbVars
    <2>12. CASE CallSettle
      <3>1. /\ InTask /\ InTask' /\ task'.draft = task.draft
        BY <2>12, <1>0 DEF CallSettle, InTask, TypeOK, Task
      <3>2. \A c \in calls' : c \in calls \/ (c.id = task.draft.id /\ c.key = task.draft.key)
        BY <2>12 DEF CallSettle, Request
      <3>3. QED
        BY <2>12, <1>0, <3>1, <3>2 DEF NoNewHolder, Holds, CallSettle, dbVars
    <2>13. CASE TakeAnswer
      <3>1. task.who \in Members /\ task.draft \in Draft /\ InTask
        BY <2>13, <1>0 DEF TakeAnswer, TypeOK, InTask
      <3>2. task'.draft = task.draft
        BY <2>13, <3>1, BusyTask DEF TakeAnswer, Conclusion, Verdict, Phases
      <3>3. QED
        BY <2>13, <1>0, <3>1, <3>2 DEF NoNewHolder, Holds, InTask, TakeAnswer,
           dbVars
    <2>14. CASE AnswerLost
      <3>1. task.who \in Members /\ task.draft \in Draft /\ InTask
        BY <2>14, <1>0 DEF AnswerLost, TypeOK, InTask
      <3>2. task'.draft = task.draft
        BY <2>14, <3>1, BusyTask DEF AnswerLost, Conclusion, Phases
      <3>3. QED
        BY <2>14, <1>0, <3>1, <3>2 DEF NoNewHolder, Holds, InTask, AnswerLost,
           dbVars
    <2>15. CASE Conclude
      BY <2>15, <1>0 DEF NoNewHolder, Holds, InTask, Conclude, Started, Awaiting,
         Closed, Idle, dbVars
    <2>16. CASE HandlerStops
      BY <2>16, <1>0 DEF NoNewHolder, Holds, InTask, HandlerStops, Idle, dbVars
    <2> QED
      BY <1>3, <2>1, <2>2, <2>3, <2>4, <2>5, <2>6, <2>7, <2>8, <2>9, <2>10, <2>11,
         <2>12, <2>13, <2>14, <2>15, <2>16 DEF Handler
  <1>4. ASSUME NEW c \in calls, ExecuteSettle(c)
       PROVE  HolderStep
    <2>1. (InTask' <=> InTask) /\ task'.draft = task.draft
      BY <1>4, <1>0 DEF ExecuteSettle, InTask, TypeOK, Task
    <2>2. \A r \in rows' : r \in rows \/ (r.id = c.id /\ r.key = c.key)
      BY <1>4 DEF ExecuteSettle, NewRow
    <2>3. QED
      BY <1>4, <1>0, <2>1, <2>2 DEF NoNewHolder, Holds, InTask, ExecuteSettle
  <1>5. ASSUME NEW c \in calls, LoseCall(c)
       PROVE  HolderStep
    BY <1>5, <1>0 DEF NoNewHolder, Holds, InTask, LoseCall, dbVars, botVars
  <1>6. CASE RenderForm
    <2>1. PICK e \in FreshIds, l \in FreshKeys, b \in bills :
            /\ form' = [id |-> e, key |-> l, bill |-> b]
            /\ usedKeys' = usedKeys \cup {l}
            /\ fate' = [fate EXCEPT ![e] = "web"]
      BY <1>6 DEF RenderForm
    <2>2. form'.id = e /\ form'.key = l /\ e \in Drafts /\ l \in Keys /\ fate[e] = "unused" /\ l \notin usedKeys
      BY <2>1 DEF FreshIds, FreshKeys
    <2>3. fate'[e] # "unused" /\ l \in usedKeys'
      BY <2>1, <2>2, <1>0 DEF TypeOK
    <2>4. /\ \A k \in Keys : ~Holds(e, k)
          /\ \A r \in rows : r.id = e => r.key # NoKey
      BY <2>2 DEF IInv, KeyNamesDraft, KeylessRows
    <2>5. \A d \in Drafts, k \in Keys : Holds(d, k)' => Holds(d, k) \/ (d = e /\ k = l)
      BY <1>6, <2>1, <2>2 DEF RenderForm, Holds, InTask, dbVars, botVars
    <2>6. QED
      BY <2>2, <2>3, <2>4, <2>5 DEF HolderStep, NewHolder
  <1>7. CASE SubmitForm
    BY <1>7, <1>0 DEF NoNewHolder, Holds, InTask, SubmitForm, dbVars, botVars
  <1>8. ASSUME NEW r \in rows, UndoPayment(r)
       PROVE  HolderStep
    BY <1>8, <1>0 DEF NoNewHolder, Holds, InTask, UndoPayment, dbVars, botVars
  <1>9. ASSUME NEW r \in rows, EditPayment(r)
       PROVE  HolderStep
    <2>1. \A s \in rows' : \E q \in rows : q.id = s.id /\ q.key = s.key
      BY <1>9, <1>0, EditedRow DEF EditPayment, TypeOK
    <2>2. QED
      BY <1>9, <1>0, <2>1 DEF NoNewHolder, Holds, InTask, EditPayment, botVars
  <1> QED
    BY <1>0, <1>1, <1>2, <1>3, <1>4, <1>5, <1>6, <1>7, <1>8, <1>9, StepCases

FateStep ==
  /\ usedKeys \subseteq usedKeys'
  /\ \A d \in Drafts :
       /\ fate[d] # "unused" => fate'[d] # "unused"
       /\ fate[d] \notin {"unused", "open"} => fate'[d] = fate[d]

\* Keys stay used and a fate, once settled, stays what it is.
LEMMA FateNext ==
  ASSUME IInv, [Next]_vars
  PROVE  FateStep
PROOF
  <1>0. TypeOK /\ OpenDraft /\ TaskOnConv
    BY DEF IInv
  <1>1. CASE Aside
    BY <1>1, <1>0 DEF FateStep, TypeOK, OpenDraft, Aside
  <1>2. ASSUME NEW via \in Vias, NEW ask \in Asks, Receive(via, ask)
       PROVE  FateStep
    BY <1>2, <1>0 DEF FateStep, TypeOK, OpenDraft, Receive, Idle, dbVars
  <1>3. CASE Handler
    <2>1. CASE ExpireOnLoad
      BY <2>1, <1>0 DEF FateStep, OpenDraft, TypeOK, ExpireOnLoad, LetGo, dbVars
    <2>2. CASE StartDraft
      BY <2>2, <1>0 DEF FateStep, TypeOK, OpenDraft, StartDraft, LetGo, NewDraft,
         Awaiting, FreshIds, FreshKeys, Idle, dbVars
    <2>3. CASE StartElsewhere
      BY <2>3, <1>0 DEF FateStep, TypeOK, OpenDraft, StartElsewhere, LetGo, Closed,
         Idle, dbVars
    <2>4. CASE ChooseCard
      BY <2>4, <1>0 DEF FateStep, TypeOK, OpenDraft, ChooseCard, LetGo, Closed,
         Awaiting, Idle, dbVars
    <2>5. CASE EditDraft
      BY <2>5, <1>0 DEF FateStep, TypeOK, OpenDraft, EditDraft, Awaiting, Idle,
         dbVars
    <2>6. CASE Cancel
      BY <2>6, <1>0 DEF FateStep, TypeOK, OpenDraft, Cancel, LetGo, Closed, Idle,
         dbVars
    <2>7. CASE Refuse
      BY <2>7, <1>0 DEF FateStep, TypeOK, OpenDraft, Refuse, Idle, dbVars
    <2>8. CASE PrepareKeyed
      BY <2>8, <1>0 DEF FateStep, TypeOK, OpenDraft, PrepareKeyed, CanSubmit,
         Queued, Submit, dbVars
    <2>9. CASE PrepareLegacy
      BY <2>9, <1>0 DEF FateStep, TypeOK, OpenDraft, PrepareLegacy, CanSubmit,
         Queued, Submit, Conclusion, dbVars
    <2>10. CASE SaveSubmission
      BY <2>10, <1>0 DEF FateStep, TypeOK, OpenDraft, SaveSubmission, Started,
         dbVars
    <2>11. CASE ConfirmStarted
      BY <2>11, <1>0 DEF FateStep, TypeOK, OpenDraft, ConfirmStarted, Queued, dbVars
    <2>12. CASE CallSettle
      BY <2>12, <1>0 DEF FateStep, TypeOK, OpenDraft, CallSettle, Request, dbVars
    <2>13. CASE TakeAnswer
      BY <2>13, <1>0 DEF FateStep, TypeOK, OpenDraft, TakeAnswer, Conclusion, dbVars
    <2>14. CASE AnswerLost
      BY <2>14, <1>0 DEF FateStep, TypeOK, OpenDraft, AnswerLost, Conclusion, dbVars
    <2>15. CASE Conclude
      BY <2>15, <1>0 DEF FateStep, TypeOK, OpenDraft, TaskOnConv, Started, Awaiting,
         Conclude, dbVars
    <2>16. CASE HandlerStops
      BY <2>16, <1>0 DEF FateStep, TypeOK, OpenDraft, HandlerStops, Idle, dbVars
    <2> QED
      BY <1>3, <2>1, <2>2, <2>3, <2>4, <2>5, <2>6, <2>7, <2>8, <2>9, <2>10, <2>11,
         <2>12, <2>13, <2>14, <2>15, <2>16 DEF Handler
  <1>4. ASSUME NEW c \in calls, ExecuteSettle(c)
       PROVE  FateStep
    BY <1>4, <1>0 DEF FateStep, TypeOK, OpenDraft, ExecuteSettle, NewRow
  <1>5. ASSUME NEW c \in calls, LoseCall(c)
       PROVE  FateStep
    BY <1>5, <1>0 DEF FateStep, TypeOK, OpenDraft, LoseCall, dbVars, botVars
  <1>6. CASE RenderForm
    BY <1>6, <1>0 DEF FateStep, TypeOK, OpenDraft, RenderForm, FreshIds, FreshKeys,
       dbVars, botVars
  <1>7. CASE SubmitForm
    BY <1>7, <1>0 DEF FateStep, TypeOK, OpenDraft, SubmitForm, dbVars, botVars
  <1>8. ASSUME NEW r \in rows, UndoPayment(r)
       PROVE  FateStep
    BY <1>8, <1>0 DEF FateStep, TypeOK, OpenDraft, UndoPayment, botVars
  <1>9. ASSUME NEW r \in rows, EditPayment(r)
       PROVE  FateStep
    BY <1>9, <1>0 DEF FateStep, TypeOK, OpenDraft, EditPayment, botVars
  <1> QED
    BY <1>0, <1>1, <1>2, <1>3, <1>4, <1>5, <1>6, <1>7, <1>8, <1>9, StepCases

\* A draft has one key and a key one draft: preserved.
LEMMA KeyNamesDraftNext ==
  ASSUME IInv, [Next]_vars
  PROVE  KeyNamesDraft'
PROOF
  <1>1. HolderStep /\ FateStep /\ KeyNamesDraft
    BY HolderNext, FateNext DEF IInv
  <1>2. CASE NoNewHolder
    BY <1>1, <1>2 DEF KeyNamesDraft, NoNewHolder, FateStep
  <1>3. ASSUME NEW e \in Drafts, NEW l \in Keys, NewHolder(e, l)
        PROVE  KeyNamesDraft'
    <2>1. ASSUME NEW d \in Drafts, NEW k \in Keys, Holds(d, k)'
          PROVE  k \in usedKeys' /\ fate'[d] # "unused"
      BY <1>1, <1>3, <2>1 DEF KeyNamesDraft, NewHolder, FateStep
    <2>2. ASSUME NEW d \in Drafts, NEW f \in Drafts, NEW k \in Keys, NEW m \in Keys,
                 Holds(d, k)', Holds(f, m)'
          PROVE  d = f <=> k = m
      BY <1>1, <1>3, <2>2 DEF KeyNamesDraft, NewHolder
    <2> QED
      BY <2>1, <2>2 DEF KeyNamesDraft
  <1> QED
    BY <1>1, <1>2, <1>3 DEF HolderStep

\* The unique index on the key, and no second keyless row: preserved.
LEMMA RowPerKeyNext ==
  ASSUME IInv, [Next]_vars
  PROVE  RowPerKey'
PROOF
  <1>0. TypeOK /\ RowPerKey
    BY DEF IInv
  <1>1. CASE Aside
    BY <1>1, <1>0 DEF RowPerKey, Aside
  <1>2. ASSUME NEW via \in Vias, NEW ask \in Asks, Receive(via, ask)
       PROVE  RowPerKey'
    BY <1>2, <1>0 DEF RowPerKey, Receive, Idle, dbVars
  <1>3. CASE Handler
    <2>1. CASE ExpireOnLoad
      BY <2>1, <1>0 DEF RowPerKey, ExpireOnLoad, LetGo, Closed, dbVars
    <2>2. CASE StartDraft
      BY <2>2, <1>0 DEF RowPerKey, StartDraft, LetGo, NewDraft, Awaiting, FreshIds,
         FreshKeys, Idle, dbVars
    <2>3. CASE StartElsewhere
      BY <2>3, <1>0 DEF RowPerKey, StartElsewhere, LetGo, Closed, Idle, dbVars
    <2>4. CASE ChooseCard
      BY <2>4, <1>0 DEF RowPerKey, ChooseCard, LetGo, Closed, Awaiting, Idle, dbVars
    <2>5. CASE EditDraft
      BY <2>5, <1>0 DEF RowPerKey, EditDraft, Awaiting, Idle, dbVars
    <2>6. CASE Cancel
      BY <2>6, <1>0 DEF RowPerKey, Cancel, LetGo, Closed, Idle, dbVars
    <2>7. CASE Refuse
      BY <2>7, <1>0 DEF RowPerKey, Refuse, Idle, dbVars
    <2>8. CASE PrepareKeyed
      BY <2>8, <1>0 DEF RowPerKey, PrepareKeyed, CanSubmit, Queued, Submit, dbVars
    <2>9. CASE PrepareLegacy
      BY <2>9, <1>0 DEF RowPerKey, PrepareLegacy, CanSubmit, Queued, Submit,
         Conclusion, dbVars
    <2>10. CASE SaveSubmission
      BY <2>10, <1>0 DEF RowPerKey, SaveSubmission, Started, dbVars
    <2>11. CASE ConfirmStarted
      BY <2>11, <1>0 DEF RowPerKey, ConfirmStarted, Queued, dbVars
    <2>12. CASE CallSettle
      BY <2>12, <1>0 DEF RowPerKey, CallSettle, Request, dbVars
    <2>13. CASE TakeAnswer
      BY <2>13, <1>0 DEF RowPerKey, TakeAnswer, Conclusion, dbVars
    <2>14. CASE AnswerLost
      BY <2>14, <1>0 DEF RowPerKey, AnswerLost, Conclusion, dbVars
    <2>15. CASE Conclude
      BY <2>15, <1>0 DEF RowPerKey, Conclude, Closed, Awaiting, Started, Idle,
         dbVars
    <2>16. CASE HandlerStops
      BY <2>16, <1>0 DEF RowPerKey, HandlerStops, Idle, dbVars
    <2> QED
      BY <1>3, <2>1, <2>2, <2>3, <2>4, <2>5, <2>6, <2>7, <2>8, <2>9, <2>10, <2>11,
         <2>12, <2>13, <2>14, <2>15, <2>16 DEF Handler
  <1>4. ASSUME NEW c \in calls, ExecuteSettle(c)
       PROVE  RowPerKey'
    <2>1. SettleAnswer(c) = "settled" => SameKey(c) = {}
      BY DEF SettleAnswer
    <2>2. QED
      BY <1>4, <1>0, <2>1 DEF RowPerKey, ExecuteSettle, NewRow, SameKey
  <1>5. ASSUME NEW c \in calls, LoseCall(c)
       PROVE  RowPerKey'
    BY <1>5, <1>0 DEF RowPerKey, LoseCall, dbVars, botVars
  <1>6. CASE RenderForm
    BY <1>6, <1>0 DEF RowPerKey, RenderForm, FreshIds, FreshKeys, dbVars, botVars
  <1>7. CASE SubmitForm
    BY <1>7, <1>0 DEF RowPerKey, SubmitForm, dbVars, botVars
  <1>8. ASSUME NEW r \in rows, UndoPayment(r)
       PROVE  RowPerKey'
    BY <1>8, <1>0 DEF RowPerKey, UndoPayment, botVars
  <1>9. ASSUME NEW r \in rows, EditPayment(r)
       PROVE  RowPerKey'
    <2>1. PICK q \in rows' : /\ q.key = r.key
                          /\ rows' = (rows \ {r}) \cup {q}
      BY <1>9, <1>0, EditedRow DEF EditPayment, TypeOK
    <2>2. QED
      BY <1>9, <1>0, <2>1 DEF RowPerKey
  <1> QED
    BY <1>0, <1>1, <1>2, <1>3, <1>4, <1>5, <1>6, <1>7, <1>8, <1>9, StepCases

KeylessFrom ==
  \A r \in rows' : r.key = NoKey =>
    \E s \in rows : s.id = r.id /\ s.key = NoKey /\ s.pay.bill = r.pay.bill

KeylessBill ==
  \A s \in rows :
    s.key = NoKey /\ conv'.status # "closed" /\ conv'.draft.id = s.id
      => conv'.draft.bill = s.pay.bill

\* A keyless payment stands in the way of a key for its draft: preserved.
LEMMA KeylessRowsNext ==
  ASSUME IInv, [Next]_vars
  PROVE  KeylessRows'
PROOF
  <1>0. /\ TypeOK /\ KeylessRows /\ OpenDraft /\ TaskOnConv /\ HolderStep /\ FateStep
        /\ TypeOK'
    BY HolderNext, FateNext, TypeNext DEF IInv
  <1>a. KeylessFrom
    <2>1. CASE Aside
      BY <2>1, <1>0 DEF KeylessFrom, Aside
    <2>2. ASSUME NEW via \in Vias, NEW ask \in Asks, Receive(via, ask)
         PROVE  KeylessFrom
      BY <2>2, <1>0 DEF KeylessFrom, Receive, Idle, dbVars
    <2>3. CASE Handler
      <3>1. CASE ExpireOnLoad
        BY <3>1, <1>0 DEF KeylessFrom, ExpireOnLoad, LetGo, Closed, dbVars
      <3>2. CASE StartDraft
        BY <3>2, <1>0 DEF KeylessFrom, StartDraft, LetGo, NewDraft, Awaiting,
           FreshIds, FreshKeys, Idle, dbVars
      <3>3. CASE StartElsewhere
        BY <3>3, <1>0 DEF KeylessFrom, StartElsewhere, LetGo, Closed, Idle, dbVars
      <3>4. CASE ChooseCard
        BY <3>4, <1>0 DEF KeylessFrom, ChooseCard, LetGo, Closed, Awaiting, Idle,
           dbVars
      <3>5. CASE EditDraft
        BY <3>5, <1>0 DEF KeylessFrom, EditDraft, Awaiting, Idle, dbVars
      <3>6. CASE Cancel
        BY <3>6, <1>0 DEF KeylessFrom, Cancel, LetGo, Closed, Idle, dbVars
      <3>7. CASE Refuse
        BY <3>7, <1>0 DEF KeylessFrom, Refuse, Idle, dbVars
      <3>8. CASE PrepareKeyed
        BY <3>8, <1>0 DEF KeylessFrom, PrepareKeyed, CanSubmit, Queued, Submit, dbVars
      <3>9. CASE PrepareLegacy
        BY <3>9, <1>0 DEF KeylessFrom, PrepareLegacy, CanSubmit, Queued, Submit,
           Conclusion, dbVars
      <3>10. CASE SaveSubmission
        BY <3>10, <1>0 DEF KeylessFrom, SaveSubmission, Started, dbVars
      <3>11. CASE ConfirmStarted
        BY <3>11, <1>0 DEF KeylessFrom, ConfirmStarted, Queued, dbVars
      <3>12. CASE CallSettle
        BY <3>12, <1>0 DEF KeylessFrom, CallSettle, Request, dbVars
      <3>13. CASE TakeAnswer
        BY <3>13, <1>0 DEF KeylessFrom, TakeAnswer, Conclusion, dbVars
      <3>14. CASE AnswerLost
        BY <3>14, <1>0 DEF KeylessFrom, AnswerLost, Conclusion, dbVars
      <3>15. CASE Conclude
        BY <3>15, <1>0 DEF KeylessFrom, Conclude, Closed, Awaiting, Started, Idle,
           dbVars
      <3>16. CASE HandlerStops
        BY <3>16, <1>0 DEF KeylessFrom, HandlerStops, Idle, dbVars
      <3> QED
        BY <2>3, <3>1, <3>2, <3>3, <3>4, <3>5, <3>6, <3>7, <3>8, <3>9, <3>10, <3>11,
           <3>12, <3>13, <3>14, <3>15, <3>16 DEF Handler
    <2>4. ASSUME NEW c \in calls, ExecuteSettle(c)
         PROVE  KeylessFrom
      BY <2>4, <1>0 DEF KeylessFrom, ExecuteSettle, NewRow, TypeOK, Call
    <2>5. ASSUME NEW c \in calls, LoseCall(c)
         PROVE  KeylessFrom
      BY <2>5, <1>0 DEF KeylessFrom, LoseCall, dbVars, botVars
    <2>6. CASE RenderForm
      BY <2>6, <1>0 DEF KeylessFrom, RenderForm, FreshIds, FreshKeys, dbVars, botVars
    <2>7. CASE SubmitForm
      BY <2>7, <1>0 DEF KeylessFrom, SubmitForm, dbVars, botVars
    <2>8. ASSUME NEW r \in rows, UndoPayment(r)
         PROVE  KeylessFrom
      BY <2>8, <1>0 DEF KeylessFrom, UndoPayment, botVars
    <2>9. ASSUME NEW r \in rows, EditPayment(r)
         PROVE  KeylessFrom
      <3>1. PICK m \in Amounts, day \in Days : rows' = (rows \ {r}) \cup {Edited(r, m, day)}
        BY <2>9 DEF EditPayment
      <3>2. r \in Row
        BY <2>9, <1>0 DEF TypeOK
      <3>3. QED
        BY <2>9, <3>1, <3>2, EditedRow DEF KeylessFrom
    <2> QED
      BY <1>0, <2>1, <2>2, <2>3, <2>4, <2>5, <2>6, <2>7, <2>8, <2>9, StepCases
  <1>b. \A r \in rows' : r.key = NoKey =>
          fate'[r.id] # "unused" /\ \A k \in Keys : ~Holds(r.id, k)'
    <2>1. TAKE r \in rows'
    <2>2. HAVE r.key = NoKey
    <2>3. PICK s \in rows : s.id = r.id /\ s.key = NoKey
      BY <1>a, <2>2 DEF KeylessFrom
    <2>4. s.id \in Drafts /\ fate[s.id] # "unused" /\ \A k \in Keys : ~Holds(s.id, k)
      BY <1>0, <2>3 DEF KeylessRows, TypeOK, Row
    <2>5. fate'[r.id] # "unused"
      BY <1>0, <2>3, <2>4 DEF FateStep
    <2>6. \A k \in Keys : ~Holds(s.id, k)'
      BY <1>0, <2>3, <2>4 DEF HolderStep, NoNewHolder, NewHolder
    <2> QED
      BY <2>3, <2>5, <2>6
  <1>c. KeylessBill
    <2>1. CASE Aside
      BY <2>1, <1>0 DEF KeylessBill, KeylessRows, Aside
    <2>2. ASSUME NEW via \in Vias, NEW ask \in Asks, Receive(via, ask)
         PROVE  KeylessBill
      BY <2>2, <1>0 DEF KeylessBill, KeylessRows, Receive, Idle, dbVars
    <2>3. CASE Handler
      <3>1. CASE ExpireOnLoad
        BY <3>1, <1>0 DEF KeylessBill, KeylessRows, ExpireOnLoad, LetGo, Closed,
           dbVars
      <3>2. CASE StartDraft
        BY <3>2, <1>0 DEF KeylessBill, KeylessRows, StartDraft, NewDraft, Awaiting,
           FreshIds
      <3>3. CASE StartElsewhere
        BY <3>3, <1>0 DEF KeylessBill, KeylessRows, StartElsewhere, LetGo, Closed,
           Idle, dbVars
      <3>4. CASE ChooseCard
        <4>1. conv.draft \in Draft
          BY <3>4, <1>0, OpenConv DEF ChooseCard
        <4>2. \A s \in rows : s.key = NoKey => conv.draft.id # s.id
          BY <3>4, <1>0 DEF ChooseCard, KeylessRows, TypeOK, Row, Payment
        <4>3. QED
          BY <3>4, <4>1, <4>2, WithCardTyped, <1>0 DEF KeylessBill, ChooseCard,
             Closed, Awaiting, TypeOK
      <3>5. CASE EditDraft
        <4>1. conv.draft \in Draft
          BY <3>5, <1>0, OpenConv DEF EditDraft
        <4>2. conv'.draft.id = conv.draft.id /\ conv'.draft.bill = conv.draft.bill
          BY <3>5, <4>1 DEF EditDraft, Awaiting, Draft
        <4>3. QED
          BY <3>5, <1>0, <4>2 DEF KeylessBill, KeylessRows, EditDraft
      <3>6. CASE Cancel
        BY <3>6, <1>0 DEF KeylessBill, KeylessRows, Cancel, LetGo, Closed, Idle,
           dbVars
      <3>7. CASE Refuse
        BY <3>7, <1>0 DEF KeylessBill, KeylessRows, Refuse, Idle, dbVars
      <3>8. CASE PrepareKeyed
        BY <3>8, <1>0 DEF KeylessBill, KeylessRows, PrepareKeyed, CanSubmit, Queued,
           Submit, dbVars
      <3>9. CASE PrepareLegacy
        BY <3>9, <1>0 DEF KeylessBill, KeylessRows, PrepareLegacy, CanSubmit, Queued,
           Submit, Conclusion, dbVars
      <3>10. CASE SaveSubmission
        <4>1. conv.draft \in Draft /\ task.draft \in Draft
          BY <3>10, <1>0, OpenConv DEF SaveSubmission, TypeOK, TaskOnConv
        <4>2. conv'.draft.id = conv.draft.id /\ conv'.draft.bill = conv.draft.bill
          BY <3>10, <1>0, <4>1, WithKeyTyped DEF SaveSubmission, Started, TaskOnConv,
             Draft
        <4>3. QED
          BY <3>10, <1>0, <4>2 DEF KeylessBill, KeylessRows, SaveSubmission,
             TaskOnConv
      <3>11. CASE ConfirmStarted
        BY <3>11, <1>0 DEF KeylessBill, KeylessRows, ConfirmStarted, Queued, dbVars
      <3>12. CASE CallSettle
        BY <3>12, <1>0 DEF KeylessBill, KeylessRows, CallSettle, Request, dbVars
      <3>13. CASE TakeAnswer
        BY <3>13, <1>0 DEF KeylessBill, KeylessRows, TakeAnswer, Conclusion, dbVars
      <3>14. CASE AnswerLost
        BY <3>14, <1>0 DEF KeylessBill, KeylessRows, AnswerLost, Conclusion, dbVars
      <3>15. CASE Conclude
        BY <3>15, <1>0 DEF KeylessBill, KeylessRows, TaskOnConv, Conclude, Started,
           Awaiting, Closed
      <3>16. CASE HandlerStops
        BY <3>16, <1>0 DEF KeylessBill, KeylessRows, HandlerStops, Idle, dbVars
      <3> QED
        BY <2>3, <3>1, <3>2, <3>3, <3>4, <3>5, <3>6, <3>7, <3>8, <3>9, <3>10, <3>11,
           <3>12, <3>13, <3>14, <3>15, <3>16 DEF Handler
    <2>4. ASSUME NEW c \in calls, ExecuteSettle(c)
         PROVE  KeylessBill
      BY <2>4, <1>0 DEF KeylessBill, KeylessRows, ExecuteSettle, NewRow
    <2>5. ASSUME NEW c \in calls, LoseCall(c)
         PROVE  KeylessBill
      BY <2>5, <1>0 DEF KeylessBill, KeylessRows, LoseCall, dbVars, botVars
    <2>6. CASE RenderForm
      BY <2>6, <1>0 DEF KeylessBill, KeylessRows, RenderForm, FreshIds, FreshKeys,
         dbVars, botVars
    <2>7. CASE SubmitForm
      BY <2>7, <1>0 DEF KeylessBill, KeylessRows, SubmitForm, dbVars, botVars
    <2>8. ASSUME NEW r \in rows, UndoPayment(r)
         PROVE  KeylessBill
      BY <2>8, <1>0 DEF KeylessBill, KeylessRows, UndoPayment, botVars
    <2>9. ASSUME NEW r \in rows, EditPayment(r)
         PROVE  KeylessBill
      BY <2>9, <1>0 DEF KeylessBill, KeylessRows, EditPayment, botVars
    <2> QED
      BY <1>0, <2>1, <2>2, <2>3, <2>4, <2>5, <2>6, <2>7, <2>8, <2>9, StepCases
  <1> QED
    BY <1>a, <1>b, <1>c DEF KeylessRows, KeylessFrom, KeylessBill

\* A draft without a key is being edited and has no request or keyed payment:
\* preserved.
LEMMA KeylessDraftNext ==
  ASSUME IInv, [Next]_vars
  PROVE  KeylessDraft'
PROOF
  <1>0. TypeOK /\ KeylessDraft /\ OpenDraft /\ TaskOnConv
    BY DEF IInv
  <1>1. CASE Aside
    BY <1>1, <1>0 DEF KeylessDraft, Aside
  <1>2. ASSUME NEW via \in Vias, NEW ask \in Asks, Receive(via, ask)
       PROVE  KeylessDraft'
    BY <1>2, <1>0 DEF KeylessDraft, Receive, Idle, dbVars
  <1>3. CASE Handler
    <2>1. CASE ExpireOnLoad
      BY <2>1, <1>0 DEF KeylessDraft, ExpireOnLoad, LetGo, Closed, dbVars
    <2>2. CASE StartDraft
      <3>1. PICK k \in FreshKeys : conv'.draft.key = k
        BY <2>2 DEF StartDraft, Awaiting, NewDraft
      <3>2. QED
        BY <3>1 DEF KeylessDraft, FreshKeys
    <2>3. CASE StartElsewhere
      BY <2>3, <1>0 DEF KeylessDraft, StartElsewhere, LetGo, Closed, Idle, dbVars
    <2>4. CASE ChooseCard
      <3>1. conv.draft \in Draft
        BY <2>4, <1>0, OpenConv DEF ChooseCard
      <3>2. conv'.status # "closed" => conv'.draft.id = conv.draft.id /\ conv'.draft.key = conv.draft.key /\ conv'.status = "awaiting"
        BY <2>4, <3>1, WithCardTyped, <1>0 DEF ChooseCard, Closed, Awaiting, TypeOK
      <3>3. QED
        BY <2>4, <3>2, <1>0 DEF KeylessDraft, ChooseCard, dbVars
    <2>5. CASE EditDraft
      <3>1. conv.draft \in Draft
        BY <2>5, <1>0, OpenConv DEF EditDraft
      <3>2. conv'.draft.id = conv.draft.id /\ conv'.draft.key = conv.draft.key /\ conv'.status = "awaiting"
        BY <2>5, <3>1 DEF EditDraft, Awaiting, Draft
      <3>3. QED
        BY <2>5, <1>0, <3>2 DEF KeylessDraft, EditDraft, dbVars
    <2>6. CASE Cancel
      BY <2>6, <1>0 DEF KeylessDraft, Cancel, LetGo, Closed, Idle, dbVars
    <2>7. CASE Refuse
      BY <2>7, <1>0 DEF KeylessDraft, Refuse, Idle, dbVars
    <2>8. CASE PrepareKeyed
      BY <2>8, <1>0 DEF KeylessDraft, PrepareKeyed, CanSubmit, Queued, Submit,
         dbVars
    <2>9. CASE PrepareLegacy
      BY <2>9, <1>0 DEF KeylessDraft, PrepareLegacy, CanSubmit, Queued, Submit,
         Conclusion, dbVars
    <2>10. CASE SaveSubmission
      BY <2>10, <1>0 DEF KeylessDraft, SaveSubmission, TaskOnConv, Started
    <2>11. CASE ConfirmStarted
      BY <2>11, <1>0 DEF KeylessDraft, ConfirmStarted, Queued, dbVars
    <2>12. CASE CallSettle
      BY <2>12, <1>0 DEF KeylessDraft, CallSettle, TaskOnConv, Started, dbVars,
         TypeOK, Task, Request
    <2>13. CASE TakeAnswer
      BY <2>13, <1>0 DEF KeylessDraft, TakeAnswer, Conclusion, dbVars
    <2>14. CASE AnswerLost
      BY <2>14, <1>0 DEF KeylessDraft, AnswerLost, Conclusion, dbVars
    <2>15. CASE Conclude
      BY <2>15, <1>0 DEF KeylessDraft, TaskOnConv, Conclude, Started, Awaiting,
         Closed, dbVars
    <2>16. CASE HandlerStops
      BY <2>16, <1>0 DEF KeylessDraft, HandlerStops, Idle, dbVars
    <2> QED
      BY <1>3, <2>1, <2>2, <2>3, <2>4, <2>5, <2>6, <2>7, <2>8, <2>9, <2>10, <2>11,
         <2>12, <2>13, <2>14, <2>15, <2>16 DEF Handler
  <1>4. ASSUME NEW c \in calls, ExecuteSettle(c)
       PROVE  KeylessDraft'
    BY <1>4, <1>0 DEF KeylessDraft, ExecuteSettle, NewRow
  <1>5. ASSUME NEW c \in calls, LoseCall(c)
       PROVE  KeylessDraft'
    BY <1>5, <1>0 DEF KeylessDraft, LoseCall, dbVars, botVars
  <1>6. CASE RenderForm
    BY <1>6, <1>0 DEF KeylessDraft, RenderForm, FreshIds, FreshKeys, dbVars, botVars
  <1>7. CASE SubmitForm
    BY <1>7, <1>0 DEF KeylessDraft, SubmitForm, OpenDraft, dbVars, botVars, TypeOK,
       Draft
  <1>8. ASSUME NEW r \in rows, UndoPayment(r)
       PROVE  KeylessDraft'
    BY <1>8, <1>0 DEF KeylessDraft, UndoPayment, botVars
  <1>9. ASSUME NEW r \in rows, EditPayment(r)
       PROVE  KeylessDraft'
    <2>1. \A q \in rows' : \E s \in rows : s.id = q.id /\ s.key = q.key
      BY <1>9, <1>0, EditedRow DEF EditPayment, TypeOK
    <2>2. QED
      BY <1>9, <1>0, <2>1 DEF KeylessDraft, EditPayment, botVars
  <1> QED
    BY <1>0, <1>1, <1>2, <1>3, <1>4, <1>5, <1>6, <1>7, <1>8, <1>9, StepCases

\* The conversation's draft, and only that, is open: preserved.
LEMMA OpenDraftNext ==
  ASSUME IInv, [Next]_vars
  PROVE  OpenDraft'
PROOF
  <1>0. TypeOK /\ OpenDraft /\ TaskOnConv
    BY DEF IInv
  <1>1. CASE Aside
    BY <1>1, <1>0 DEF OpenDraft, TypeOK, Aside
  <1>2. ASSUME NEW via \in Vias, NEW ask \in Asks, Receive(via, ask)
       PROVE  OpenDraft'
    BY <1>2, <1>0 DEF OpenDraft, TypeOK, Receive, Idle, dbVars
  <1>3. CASE Handler
    <2>1. CASE ExpireOnLoad
      BY <2>1, <1>0 DEF OpenDraft, TypeOK, ExpireOnLoad, LetGo, Closed, dbVars
    <2>2. CASE StartDraft
      BY <2>2, <1>0 DEF OpenDraft, TypeOK, StartDraft, LetGo, NewDraft, Awaiting,
         FreshIds, FreshKeys, Idle, dbVars
    <2>3. CASE StartElsewhere
      BY <2>3, <1>0 DEF OpenDraft, TypeOK, StartElsewhere, LetGo, Closed, Idle,
         dbVars
    <2>4. CASE ChooseCard
      <3>1. conv.draft \in Draft
        BY <2>4, <1>0, OpenConv DEF ChooseCard
      <3>2. CASE conv' = Closed /\ fate' = LetGo(fate)
        BY <2>4, <3>2, <1>0, <3>1 DEF OpenDraft, TypeOK, Draft, ChooseCard, LetGo,
           Closed, dbVars
      <3>3. CASE conv'.status = "awaiting" /\ conv'.draft.id = conv.draft.id /\ fate' = fate
        BY <2>4, <3>3, <1>0 DEF OpenDraft, ChooseCard, dbVars
      <3>4. QED
        BY <2>4, <3>1, <3>2, <3>3, WithCardTyped, <1>0 DEF ChooseCard, Awaiting,
           TypeOK
    <2>5. CASE EditDraft
      <3>1. conv.draft \in Draft
        BY <2>5, <1>0, OpenConv DEF EditDraft
      <3>2. conv'.draft.id = conv.draft.id /\ conv'.status = "awaiting"
        BY <2>5, <3>1 DEF EditDraft, Awaiting, Draft
      <3>3. QED
        BY <2>5, <1>0, <3>2 DEF OpenDraft, EditDraft, dbVars
    <2>6. CASE Cancel
      BY <2>6, <1>0 DEF OpenDraft, TypeOK, Cancel, LetGo, Closed, Idle, dbVars
    <2>7. CASE Refuse
      BY <2>7, <1>0 DEF OpenDraft, TypeOK, Refuse, Idle, dbVars
    <2>8. CASE PrepareKeyed
      BY <2>8, <1>0 DEF OpenDraft, TypeOK, PrepareKeyed, CanSubmit, Queued, Submit,
         dbVars
    <2>9. CASE PrepareLegacy
      BY <2>9, <1>0 DEF OpenDraft, TypeOK, PrepareLegacy, CanSubmit, Queued, Submit,
         Conclusion, dbVars
    <2>10. CASE SaveSubmission
      <3>1. conv.draft \in Draft /\ task.draft \in Draft
        BY <2>10, <1>0, OpenConv DEF SaveSubmission, TypeOK, TaskOnConv
      <3>2. conv'.draft.id = conv.draft.id /\ conv'.status = "started"
        BY <2>10, <1>0, <3>1, WithKeyTyped DEF SaveSubmission, Started, TaskOnConv,
           Draft
      <3>3. QED
        BY <2>10, <1>0, <3>2 DEF OpenDraft, SaveSubmission, TaskOnConv, dbVars
    <2>11. CASE ConfirmStarted
      BY <2>11, <1>0 DEF OpenDraft, TypeOK, ConfirmStarted, Queued, dbVars
    <2>12. CASE CallSettle
      BY <2>12, <1>0 DEF OpenDraft, TypeOK, CallSettle, Request, dbVars
    <2>13. CASE TakeAnswer
      BY <2>13, <1>0 DEF OpenDraft, TypeOK, TakeAnswer, Conclusion, dbVars
    <2>14. CASE AnswerLost
      BY <2>14, <1>0 DEF OpenDraft, TypeOK, AnswerLost, Conclusion, dbVars
    <2>15. CASE Conclude
      BY <2>15, <1>0 DEF OpenDraft, TypeOK, Draft, TaskOnConv, Conclude, Closed,
         Awaiting, Started, Idle, dbVars
    <2>16. CASE HandlerStops
      BY <2>16, <1>0 DEF OpenDraft, TypeOK, HandlerStops, Idle, dbVars
    <2> QED
      BY <1>3, <2>1, <2>2, <2>3, <2>4, <2>5, <2>6, <2>7, <2>8, <2>9, <2>10, <2>11,
         <2>12, <2>13, <2>14, <2>15, <2>16 DEF Handler
  <1>4. ASSUME NEW c \in calls, ExecuteSettle(c)
       PROVE  OpenDraft'
    BY <1>4, <1>0 DEF OpenDraft, TypeOK, ExecuteSettle, NewRow
  <1>5. ASSUME NEW c \in calls, LoseCall(c)
       PROVE  OpenDraft'
    BY <1>5, <1>0 DEF OpenDraft, TypeOK, LoseCall, dbVars, botVars
  <1>6. CASE RenderForm
    BY <1>6, <1>0 DEF OpenDraft, TypeOK, RenderForm, FreshIds, FreshKeys, dbVars,
       botVars
  <1>7. CASE SubmitForm
    BY <1>7, <1>0 DEF OpenDraft, TypeOK, SubmitForm, dbVars, botVars
  <1>8. ASSUME NEW r \in rows, UndoPayment(r)
       PROVE  OpenDraft'
    BY <1>8, <1>0 DEF OpenDraft, TypeOK, UndoPayment, botVars
  <1>9. ASSUME NEW r \in rows, EditPayment(r)
       PROVE  OpenDraft'
    BY <1>9, <1>0 DEF OpenDraft, TypeOK, EditPayment, botVars
  <1> QED
    BY <1>0, <1>1, <1>2, <1>3, <1>4, <1>5, <1>6, <1>7, <1>8, <1>9, StepCases

\* No payment is dated after the day it is asked for: preserved.
LEMMA NoFutureDatesNext ==
  ASSUME IInv, [Next]_vars
  PROVE  NoFutureDates'
PROOF
  <1>0. TypeOK /\ NoFutureDates /\ TaskOnConv
    BY DEF IInv
  <1>b. TypeOK'
    BY TypeNext DEF IInv
  <1>1. CASE Aside
    <2>1. today \in Int /\ today' \in Int
      BY <1>0, <1>b DEF TypeOK, Days
    <2>2. conv.status = "started" => conv.draft.paidOn \in Int
      BY <1>0, OpenConv DEF Draft, Days
    <2>3. \A c \in calls : c.pay.paidOn \in Int
      BY <1>0 DEF TypeOK, Call, Payment, Days
    <2>4. QED
      BY <1>1, <1>0, <2>1, <2>2, <2>3 DEF NoFutureDates, Aside
  <1>2. ASSUME NEW via \in Vias, NEW ask \in Asks, Receive(via, ask)
       PROVE  NoFutureDates'
    BY <1>2, <1>0 DEF NoFutureDates, Receive, Idle, dbVars
  <1>3. CASE Handler
    <2>1. CASE ExpireOnLoad
      BY <2>1, <1>0 DEF NoFutureDates, ExpireOnLoad, LetGo, Closed, dbVars
    <2>2. CASE StartDraft
      BY <2>2, <1>0 DEF NoFutureDates, StartDraft, Awaiting, dbVars
    <2>3. CASE StartElsewhere
      BY <2>3, <1>0 DEF NoFutureDates, StartElsewhere, LetGo, Closed, Idle, dbVars
    <2>4. CASE ChooseCard
      BY <2>4, <1>0 DEF NoFutureDates, ChooseCard, Awaiting, Closed, dbVars
    <2>5. CASE EditDraft
      BY <2>5, <1>0 DEF NoFutureDates, EditDraft, Awaiting, dbVars
    <2>6. CASE Cancel
      BY <2>6, <1>0 DEF NoFutureDates, Cancel, LetGo, Closed, Idle, dbVars
    <2>7. CASE Refuse
      BY <2>7, <1>0 DEF NoFutureDates, Refuse, Idle, dbVars
    <2>8. CASE PrepareKeyed
      BY <2>8, <1>0 DEF NoFutureDates, PrepareKeyed, CanSubmit, Queued, Submit,
         dbVars
    <2>9. CASE PrepareLegacy
      BY <2>9, <1>0 DEF NoFutureDates, PrepareLegacy, CanSubmit, Queued, Submit,
         Conclusion, dbVars
    <2>10. CASE SaveSubmission
      BY <2>10, <1>0 DEF NoFutureDates, TaskOnConv, SaveSubmission, Started, dbVars
    <2>11. CASE ConfirmStarted
      BY <2>11, <1>0 DEF NoFutureDates, ConfirmStarted, Queued, dbVars
    <2>12. CASE CallSettle
      BY <2>12, <1>0 DEF NoFutureDates, TaskOnConv, CallSettle, Started, Request,
         PaymentOf, dbVars
    <2>13. CASE TakeAnswer
      BY <2>13, <1>0 DEF NoFutureDates, TakeAnswer, Conclusion, dbVars
    <2>14. CASE AnswerLost
      BY <2>14, <1>0 DEF NoFutureDates, AnswerLost, Conclusion, dbVars
    <2>15. CASE Conclude
      BY <2>15, <1>0 DEF NoFutureDates, TaskOnConv, Conclude, Closed, Awaiting,
         Started, Idle, dbVars
    <2>16. CASE HandlerStops
      BY <2>16, <1>0 DEF NoFutureDates, HandlerStops, Idle, dbVars
    <2> QED
      BY <1>3, <2>1, <2>2, <2>3, <2>4, <2>5, <2>6, <2>7, <2>8, <2>9, <2>10, <2>11,
         <2>12, <2>13, <2>14, <2>15, <2>16 DEF Handler
  <1>4. ASSUME NEW c \in calls, ExecuteSettle(c)
       PROVE  NoFutureDates'
    BY <1>4, <1>0 DEF NoFutureDates, ExecuteSettle, NewRow
  <1>5. ASSUME NEW c \in calls, LoseCall(c)
       PROVE  NoFutureDates'
    BY <1>5, <1>0 DEF NoFutureDates, LoseCall, dbVars, botVars
  <1>6. CASE RenderForm
    BY <1>6, <1>0 DEF NoFutureDates, RenderForm, FreshIds, FreshKeys, dbVars,
       botVars
  <1>7. CASE SubmitForm
    BY <1>7, <1>0 DEF NoFutureDates, SubmitForm, dbVars, botVars
  <1>8. ASSUME NEW r \in rows, UndoPayment(r)
       PROVE  NoFutureDates'
    BY <1>8, <1>0 DEF NoFutureDates, UndoPayment, botVars
  <1>9. ASSUME NEW r \in rows, EditPayment(r)
       PROVE  NoFutureDates'
    BY <1>9, <1>0 DEF NoFutureDates, EditPayment, botVars
  <1> QED
    BY <1>0, <1>1, <1>2, <1>3, <1>4, <1>5, <1>6, <1>7, <1>8, <1>9, StepCases

DeadStays == \A c \in calls : Dead(c) => Dead(c)'

\* A request that can never write stays one.
LEMMA DeadNext ==
  ASSUME TypeOK, [Next]_vars
  PROVE  DeadStays
PROOF
  <1>1. accounts' \subseteq accounts /\ bills' \subseteq bills
    <2>1. CASE Aside
      BY <2>1 DEF Aside
    <2>2. ASSUME NEW via \in Vias, NEW ask \in Asks, Receive(via, ask)
         PROVE  accounts' \subseteq accounts /\ bills' \subseteq bills
      BY <2>2 DEF Receive, Idle, dbVars
    <2>3. CASE Handler
      <3>1. CASE ExpireOnLoad
        BY <3>1 DEF ExpireOnLoad, LetGo, Closed, dbVars
      <3>2. CASE StartDraft
        BY <3>2 DEF StartDraft, LetGo, NewDraft, Awaiting, FreshIds, FreshKeys, Idle,
           dbVars
      <3>3. CASE StartElsewhere
        BY <3>3 DEF StartElsewhere, LetGo, Closed, Idle, dbVars
      <3>4. CASE ChooseCard
        BY <3>4 DEF ChooseCard, LetGo, Closed, Awaiting, Idle, dbVars
      <3>5. CASE EditDraft
        BY <3>5 DEF EditDraft, Awaiting, Idle, dbVars
      <3>6. CASE Cancel
        BY <3>6 DEF Cancel, LetGo, Closed, Idle, dbVars
      <3>7. CASE Refuse
        BY <3>7 DEF Refuse, Idle, dbVars
      <3>8. CASE PrepareKeyed
        BY <3>8 DEF PrepareKeyed, CanSubmit, Queued, Submit, dbVars
      <3>9. CASE PrepareLegacy
        BY <3>9 DEF PrepareLegacy, CanSubmit, Queued, Submit, Conclusion, dbVars
      <3>10. CASE SaveSubmission
        BY <3>10 DEF SaveSubmission, Started, dbVars
      <3>11. CASE ConfirmStarted
        BY <3>11 DEF ConfirmStarted, Queued, dbVars
      <3>12. CASE CallSettle
        BY <3>12 DEF CallSettle, Request, dbVars
      <3>13. CASE TakeAnswer
        BY <3>13 DEF TakeAnswer, Conclusion, dbVars
      <3>14. CASE AnswerLost
        BY <3>14 DEF AnswerLost, Conclusion, dbVars
      <3>15. CASE Conclude
        BY <3>15 DEF Conclude, Closed, Awaiting, Started, Idle, dbVars
      <3>16. CASE HandlerStops
        BY <3>16 DEF HandlerStops, Idle, dbVars
      <3> QED
        BY <2>3, <3>1, <3>2, <3>3, <3>4, <3>5, <3>6, <3>7, <3>8, <3>9, <3>10, <3>11,
           <3>12, <3>13, <3>14, <3>15, <3>16 DEF Handler
    <2>4. ASSUME NEW c \in calls, ExecuteSettle(c)
         PROVE  accounts' \subseteq accounts /\ bills' \subseteq bills
      BY <2>4 DEF ExecuteSettle, NewRow
    <2>5. ASSUME NEW c \in calls, LoseCall(c)
         PROVE  accounts' \subseteq accounts /\ bills' \subseteq bills
      BY <2>5 DEF LoseCall, dbVars, botVars
    <2>6. CASE RenderForm
      BY <2>6 DEF RenderForm, FreshIds, FreshKeys, dbVars, botVars
    <2>7. CASE SubmitForm
      BY <2>7 DEF SubmitForm, dbVars, botVars
    <2>8. ASSUME NEW r \in rows, UndoPayment(r)
         PROVE  accounts' \subseteq accounts /\ bills' \subseteq bills
      BY <2>8 DEF UndoPayment, botVars
    <2>9. ASSUME NEW r \in rows, EditPayment(r)
         PROVE  accounts' \subseteq accounts /\ bills' \subseteq bills
      BY <2>9 DEF EditPayment, botVars
    <2> QED
      BY <2>1, <2>2, <2>3, <2>4, <2>5, <2>6, <2>7, <2>8, <2>9, StepCases
  <1> QED
    BY <1>1 DEF DeadStays, Dead

\* A request that writes is not dead.
LEMMA SettledIsAlive ==
  ASSUME TypeOK, NEW c \in calls, SettleAnswer(c) = "settled"
  PROVE  ~Dead(c) /\ SameKey(c) = {}
PROOF BY DEF SettleAnswer, Invalid, Dead

\* While a draft with a key can be edited, nothing of its key is recorded and
\* nothing on its way can be: preserved.
LEMMA EditableMeansUnpaidNext ==
  ASSUME IInv, [Next]_vars
  PROVE  EditableMeansUnpaid'
PROOF
  <1>0. /\ TypeOK /\ EditableMeansUnpaid /\ KeyNamesDraft /\ OpenDraft /\ TaskOnConv
        /\ AnswerHolds /\ DeadStays
    BY DeadNext DEF IInv
  <1>1. CASE Aside
    BY <1>1, <1>0 DEF EditableMeansUnpaid, DeadStays, Aside
  <1>2. ASSUME NEW via \in Vias, NEW ask \in Asks, Receive(via, ask)
       PROVE  EditableMeansUnpaid'
    BY <1>2, <1>0 DEF EditableMeansUnpaid, DeadStays, Receive, Idle, dbVars
  <1>3. CASE Handler
    <2>1. CASE ExpireOnLoad
      BY <2>1, <1>0 DEF EditableMeansUnpaid, DeadStays, ExpireOnLoad, LetGo, Closed,
         dbVars
    <2>2. CASE StartDraft
      <3>1. PICK k \in FreshKeys : conv'.draft.key = k
        BY <2>2 DEF StartDraft, Awaiting, NewDraft
      <3>2. (\A r \in rows : r.key # k) /\ (\A c \in calls : c.key # k)
        BY <2>2, <1>0 DEF FreshKeys, KeyNamesDraft, Holds, TypeOK, Row, Call
      <3>3. QED
        BY <2>2, <3>1, <3>2 DEF EditableMeansUnpaid, StartDraft, dbVars
    <2>3. CASE StartElsewhere
      BY <2>3, <1>0 DEF EditableMeansUnpaid, DeadStays, StartElsewhere, LetGo,
         Closed, Idle, dbVars
    <2>4. CASE ChooseCard
      <3>1. conv.draft \in Draft
        BY <2>4, <1>0, OpenConv DEF ChooseCard
      <3>2. conv'.status # "closed" => conv'.draft.key = conv.draft.key
        BY <2>4, <3>1, WithCardTyped, <1>0 DEF ChooseCard, Closed, Awaiting, TypeOK
      <3>3. QED
        BY <2>4, <3>2, <1>0 DEF EditableMeansUnpaid, DeadStays, ChooseCard, dbVars
    <2>5. CASE EditDraft
      <3>1. conv.draft \in Draft
        BY <2>5, <1>0, OpenConv DEF EditDraft
      <3>2. conv'.draft.key = conv.draft.key
        BY <2>5, <3>1 DEF EditDraft, Awaiting, Draft
      <3>3. QED
        BY <2>5, <1>0, <3>2 DEF EditableMeansUnpaid, DeadStays, EditDraft, dbVars
    <2>6. CASE Cancel
      BY <2>6, <1>0 DEF EditableMeansUnpaid, DeadStays, Cancel, LetGo, Closed, Idle,
         dbVars
    <2>7. CASE Refuse
      BY <2>7, <1>0 DEF EditableMeansUnpaid, DeadStays, Refuse, Idle, dbVars
    <2>8. CASE PrepareKeyed
      BY <2>8, <1>0 DEF EditableMeansUnpaid, DeadStays, PrepareKeyed, CanSubmit,
         Queued, Submit, dbVars
    <2>9. CASE PrepareLegacy
      BY <2>9, <1>0 DEF EditableMeansUnpaid, DeadStays, PrepareLegacy, CanSubmit,
         Queued, Submit, Conclusion, dbVars
    <2>10. CASE SaveSubmission
      BY <2>10, <1>0 DEF EditableMeansUnpaid, SaveSubmission, Started
    <2>11. CASE ConfirmStarted
      BY <2>11, <1>0 DEF EditableMeansUnpaid, DeadStays, ConfirmStarted, Queued,
         dbVars
    <2>12. CASE CallSettle
      BY <2>12, <1>0 DEF EditableMeansUnpaid, CallSettle, TaskOnConv, Started
    <2>13. CASE TakeAnswer
      BY <2>13, <1>0 DEF EditableMeansUnpaid, DeadStays, TakeAnswer, Conclusion,
         dbVars
    <2>14. CASE AnswerLost
      BY <2>14, <1>0 DEF EditableMeansUnpaid, DeadStays, AnswerLost, Conclusion,
         dbVars
    <2>15. CASE Conclude
      <3>1. task.next # "paid" => conv = Started(task.draft)
        BY <2>15, <1>0 DEF Conclude, TaskOnConv
      <3>2. CASE task.next = "awaiting"
        BY <2>15, <1>0, <3>2 DEF EditableMeansUnpaid, AnswerHolds, SaysUnpaid,
           DeadStays, Conclude, Awaiting, dbVars
      <3>3. CASE task.next # "awaiting"
        BY <2>15, <1>0, <3>1, <3>3 DEF EditableMeansUnpaid, Conclude, Started,
           Closed
      <3>4. QED
        BY <3>2, <3>3
    <2>16. CASE HandlerStops
      BY <2>16, <1>0 DEF EditableMeansUnpaid, DeadStays, HandlerStops, Idle, dbVars
    <2> QED
      BY <1>3, <2>1, <2>2, <2>3, <2>4, <2>5, <2>6, <2>7, <2>8, <2>9, <2>10, <2>11,
         <2>12, <2>13, <2>14, <2>15, <2>16 DEF Handler
  <1>4. ASSUME NEW c \in calls, ExecuteSettle(c)
       PROVE  EditableMeansUnpaid'
    <2>1. /\ \A x \in calls' : x \in calls /\ (Dead(x) => Dead(x)')
          /\ \A r \in rows' : r \in rows \/ (r.key = c.key /\ ~Dead(c))
      BY <1>4, <1>0, SettledIsAlive DEF ExecuteSettle, NewRow, DeadStays
    <2>2. conv' = conv
      BY <1>4 DEF ExecuteSettle
    <2>3. QED
      BY <2>1, <2>2, <1>0 DEF EditableMeansUnpaid
  <1>5. ASSUME NEW c \in calls, LoseCall(c)
       PROVE  EditableMeansUnpaid'
    BY <1>5, <1>0 DEF EditableMeansUnpaid, DeadStays, LoseCall, dbVars, botVars
  <1>6. CASE RenderForm
    BY <1>6, <1>0 DEF EditableMeansUnpaid, DeadStays, RenderForm, FreshIds,
       FreshKeys, dbVars, botVars
  <1>7. CASE SubmitForm
    <2>1. PICK p \in Payment : calls' = calls \cup {[tag |-> FreeTag, id |-> form.id, key |-> form.key, pay |-> p]}
      BY <1>7 DEF SubmitForm
    <2>2. conv.status # "closed" => form.key # conv.draft.key
      BY <1>7, <1>0, OpenConv DEF SubmitForm, OpenDraft, KeyNamesDraft, Holds,
         TypeOK, Draft
    <2>3. QED
      BY <1>7, <2>1, <2>2, <1>0 DEF EditableMeansUnpaid, SubmitForm, DeadStays,
         dbVars, botVars
  <1>8. ASSUME NEW r \in rows, UndoPayment(r)
       PROVE  EditableMeansUnpaid'
    BY <1>8, <1>0 DEF EditableMeansUnpaid, DeadStays, UndoPayment, botVars
  <1>9. ASSUME NEW r \in rows, EditPayment(r)
       PROVE  EditableMeansUnpaid'
    <2>1. \A q \in rows' : \E s \in rows : s.id = q.id /\ s.key = q.key
      BY <1>9, <1>0, EditedRow DEF EditPayment, TypeOK
    <2>2. QED
      BY <1>9, <1>0, <2>1 DEF EditableMeansUnpaid, DeadStays, EditPayment, botVars
  <1> QED
    BY <1>0, <1>1, <1>2, <1>3, <1>4, <1>5, <1>6, <1>7, <1>8, <1>9, StepCases

\* A draft the bot has let go of stays unpaid: preserved.
LEMMA ReleasedStaysUnpaidNext ==
  ASSUME IInv, [Next]_vars
  PROVE  ReleasedStaysUnpaid'
PROOF
  <1>0. /\ TypeOK /\ EditableMeansUnpaid /\ ReleasedStaysUnpaid /\ KeylessDraft
        /\ KeyNamesDraft /\ OpenDraft /\ TaskOnConv /\ DeadStays
    BY DeadNext DEF IInv
  <1>a. ASSUME conv.status = "awaiting"
        PROVE  /\ conv.draft.id \in Drafts
               /\ \A r \in rows : r.id = conv.draft.id => r.key = NoKey
               /\ \A c \in calls : c.id = conv.draft.id => Dead(c)
    <2>1. conv.draft \in Draft
      BY <1>0, <1>a, OpenConv
    <2>2. CASE conv.draft.key = NoKey
      BY <1>0, <1>a, <2>1, <2>2 DEF KeylessDraft, Draft
    <2>3. CASE conv.draft.key \in Keys
      BY <1>0, <1>a, <2>1, <2>3
         DEF EditableMeansUnpaid, KeyNamesDraft, Holds, Draft, TypeOK, Row, Call
    <2> QED
      BY <2>1, <2>2, <2>3 DEF Draft
  <1>b. ASSUME UNCHANGED <<rows, calls>>,
               \A d \in Drafts : fate'[d] = "released" =>
                 fate[d] = "released" \/ (conv.status = "awaiting" /\ d = conv.draft.id)
        PROVE  ReleasedStaysUnpaid'
    BY <1>0, <1>a, <1>b DEF ReleasedStaysUnpaid, DeadStays
  <1>1. CASE Aside
    BY <1>1, <1>0 DEF ReleasedStaysUnpaid, DeadStays, Aside
  <1>2. ASSUME NEW via \in Vias, NEW ask \in Asks, Receive(via, ask)
       PROVE  ReleasedStaysUnpaid'
    BY <1>2, <1>0 DEF ReleasedStaysUnpaid, DeadStays, Receive, Idle, dbVars
  <1>3. CASE Handler
    <2>1. CASE ExpireOnLoad
      BY <2>1, <1>0, <1>b DEF OpenDraft, TypeOK, LetGo, ExpireOnLoad, dbVars
    <2>2. CASE StartDraft
      BY <2>2, <1>0, <1>b DEF OpenDraft, TypeOK, LetGo, StartDraft, FreshIds, dbVars
    <2>3. CASE StartElsewhere
      BY <2>3, <1>0, <1>b DEF OpenDraft, TypeOK, LetGo, StartElsewhere, OpenDraft,
         dbVars
    <2>4. CASE ChooseCard
      BY <2>4, <1>0, <1>b DEF OpenDraft, TypeOK, LetGo, ChooseCard, dbVars
    <2>5. CASE EditDraft
      BY <2>5, <1>0 DEF ReleasedStaysUnpaid, DeadStays, EditDraft, Awaiting, Idle,
         dbVars
    <2>6. CASE Cancel
      BY <2>6, <1>0, <1>b DEF OpenDraft, TypeOK, LetGo, Cancel, dbVars
    <2>7. CASE Refuse
      BY <2>7, <1>0 DEF ReleasedStaysUnpaid, DeadStays, Refuse, Idle, dbVars
    <2>8. CASE PrepareKeyed
      BY <2>8, <1>0 DEF ReleasedStaysUnpaid, DeadStays, PrepareKeyed, CanSubmit,
         Queued, Submit, dbVars
    <2>9. CASE PrepareLegacy
      BY <2>9, <1>0 DEF ReleasedStaysUnpaid, DeadStays, PrepareLegacy, CanSubmit,
         Queued, Submit, Conclusion, dbVars
    <2>10. CASE SaveSubmission
      BY <2>10, <1>0 DEF ReleasedStaysUnpaid, DeadStays, SaveSubmission, Started,
         dbVars
    <2>11. CASE ConfirmStarted
      BY <2>11, <1>0 DEF ReleasedStaysUnpaid, DeadStays, ConfirmStarted, Queued,
         dbVars
    <2>12. CASE CallSettle
      <3>1. fate[task.draft.id] = "open"
        BY <2>12, <1>0, OpenConv DEF CallSettle, TaskOnConv, Started, OpenDraft,
           Draft
      <3>2. \A c \in calls' : c \in calls \/ c.id = task.draft.id
        BY <2>12 DEF CallSettle, Request
      <3>3. QED
        BY <2>12, <1>0, <3>1, <3>2 DEF ReleasedStaysUnpaid, DeadStays, CallSettle,
           dbVars
    <2>13. CASE TakeAnswer
      BY <2>13, <1>0 DEF ReleasedStaysUnpaid, DeadStays, TakeAnswer, Conclusion,
         dbVars
    <2>14. CASE AnswerLost
      BY <2>14, <1>0 DEF ReleasedStaysUnpaid, DeadStays, AnswerLost, Conclusion,
         dbVars
    <2>15. CASE Conclude
      BY <2>15, <1>0, <1>b DEF Conclude, TypeOK, dbVars
    <2>16. CASE HandlerStops
      BY <2>16, <1>0 DEF ReleasedStaysUnpaid, DeadStays, HandlerStops, Idle, dbVars
    <2> QED
      BY <1>3, <2>1, <2>2, <2>3, <2>4, <2>5, <2>6, <2>7, <2>8, <2>9, <2>10, <2>11,
         <2>12, <2>13, <2>14, <2>15, <2>16 DEF Handler
  <1>4. ASSUME NEW c \in calls, ExecuteSettle(c)
       PROVE  ReleasedStaysUnpaid'
    <2>1. /\ \A x \in calls' : x \in calls /\ (Dead(x) => Dead(x)')
          /\ \A r \in rows' : r \in rows \/ (r.id = c.id /\ ~Dead(c))
      BY <1>4, <1>0, SettledIsAlive DEF ExecuteSettle, NewRow, DeadStays
    <2>2. fate' = fate
      BY <1>4 DEF ExecuteSettle
    <2>3. QED
      BY <2>1, <2>2, <1>0 DEF ReleasedStaysUnpaid
  <1>5. ASSUME NEW c \in calls, LoseCall(c)
       PROVE  ReleasedStaysUnpaid'
    BY <1>5, <1>0 DEF ReleasedStaysUnpaid, DeadStays, LoseCall, dbVars, botVars
  <1>6. CASE RenderForm
    BY <1>6, <1>0, <1>b DEF RenderForm, TypeOK, dbVars, botVars
  <1>7. CASE SubmitForm
    <2>1. \A c \in calls' : c \in calls \/ c.id = form.id
      BY <1>7 DEF SubmitForm
    <2>2. QED
      BY <1>7, <2>1, <1>0 DEF ReleasedStaysUnpaid, DeadStays, SubmitForm, OpenDraft,
         dbVars, botVars
  <1>8. ASSUME NEW r \in rows, UndoPayment(r)
       PROVE  ReleasedStaysUnpaid'
    BY <1>8, <1>0 DEF ReleasedStaysUnpaid, DeadStays, UndoPayment, botVars
  <1>9. ASSUME NEW r \in rows, EditPayment(r)
       PROVE  ReleasedStaysUnpaid'
    <2>1. \A q \in rows' : \E s \in rows : s.id = q.id /\ s.key = q.key
      BY <1>9, <1>0, EditedRow DEF EditPayment, TypeOK
    <2>2. QED
      BY <1>9, <1>0, <2>1 DEF ReleasedStaysUnpaid, DeadStays, EditPayment, botVars
  <1> QED
    BY <1>0, <1>1, <1>2, <1>3, <1>4, <1>5, <1>6, <1>7, <1>8, <1>9, StepCases

\* A request of a draft has the draft's key, if both are held.
LEMMA SameDraftSameKey ==
  ASSUME IInv, NEW c \in calls, NEW d \in Draft, d.key # NoKey, c.id = d.id,
         \/ conv.status # "closed" /\ conv.draft = d
         \/ InTask /\ task.draft = d
  PROVE  c.key = d.key
PROOF
  <1>1. Holds(c.id, c.key) /\ Holds(d.id, d.key)
    BY DEF Holds
  <1> QED
    BY <1>1 DEF IInv, KeyNamesDraft, TypeOK, Call, Draft

\* What is on its way for a started draft is that draft, or can never write:
\* preserved.
LEMMA StartedCallsNext ==
  ASSUME IInv, [Next]_vars
  PROVE  StartedCalls'
PROOF
  <1>0. /\ TypeOK /\ EditableMeansUnpaid /\ StartedCalls /\ KeylessDraft
        /\ OpenDraft /\ TaskOnConv /\ DeadStays
    BY DeadNext DEF IInv
  <1>1. CASE Aside
    BY <1>1, <1>0 DEF StartedCalls, DeadStays, Aside
  <1>2. ASSUME NEW via \in Vias, NEW ask \in Asks, Receive(via, ask)
       PROVE  StartedCalls'
    BY <1>2, <1>0 DEF StartedCalls, DeadStays, Receive, Idle, dbVars
  <1>3. CASE Handler
    <2>1. CASE ExpireOnLoad
      BY <2>1, <1>0 DEF StartedCalls, ExpireOnLoad, Closed
    <2>2. CASE StartDraft
      BY <2>2, <1>0 DEF StartedCalls, StartDraft, Awaiting
    <2>3. CASE StartElsewhere
      BY <2>3, <1>0 DEF StartedCalls, StartElsewhere, Closed
    <2>4. CASE ChooseCard
      BY <2>4, <1>0 DEF StartedCalls, ChooseCard, Awaiting, Closed
    <2>5. CASE EditDraft
      BY <2>5, <1>0 DEF StartedCalls, EditDraft, Awaiting
    <2>6. CASE Cancel
      BY <2>6, <1>0 DEF StartedCalls, Cancel, Closed
    <2>7. CASE Refuse
      BY <2>7, <1>0 DEF StartedCalls, DeadStays, Refuse, Idle, dbVars
    <2>8. CASE PrepareKeyed
      BY <2>8, <1>0 DEF StartedCalls, DeadStays, PrepareKeyed, CanSubmit, Queued,
         Submit, dbVars
    <2>9. CASE PrepareLegacy
      BY <2>9, <1>0 DEF StartedCalls, DeadStays, PrepareLegacy, CanSubmit, Queued,
         Submit, Conclusion, dbVars
    <2>10. CASE SaveSubmission
      <3>1. /\ conv.draft \in Draft /\ task.draft \in Draft /\ conv.status = "awaiting"
            /\ conv.draft.key \in {NoKey, task.draft.key} /\ Complete(task.draft)
            /\ task.draft.key # NoKey
        BY <2>10, <1>0, OpenConv DEF SaveSubmission, TypeOK, TaskOnConv
      <3>2. task.draft.id = conv.draft.id
        BY <2>10, <1>0, <3>1, WithKeyTyped DEF SaveSubmission, TaskOnConv, Draft
      <3>3. \A c \in calls : c.id = task.draft.id => Dead(c)
        BY <3>1, <3>2, <1>0, SameDraftSameKey DEF KeylessDraft, EditableMeansUnpaid
      <3>4. QED
        BY <2>10, <1>0, <3>1, <3>3 DEF StartedCalls, DeadStays, SaveSubmission,
           Started, dbVars
    <2>11. CASE ConfirmStarted
      BY <2>11, <1>0 DEF StartedCalls, DeadStays, ConfirmStarted, Queued, dbVars
    <2>12. CASE CallSettle
      <3>1. conv = Started(task.draft)
        BY <2>12, <1>0 DEF CallSettle, TaskOnConv
      <3>2. \A c \in calls' : c \in calls \/ c.pay = PaymentOf(task.draft)
        BY <2>12 DEF CallSettle, Request
      <3>3. QED
        BY <2>12, <1>0, <3>1, <3>2 DEF StartedCalls, DeadStays, CallSettle, Started,
           dbVars
    <2>13. CASE TakeAnswer
      BY <2>13, <1>0 DEF StartedCalls, DeadStays, TakeAnswer, Conclusion, dbVars
    <2>14. CASE AnswerLost
      BY <2>14, <1>0 DEF StartedCalls, DeadStays, AnswerLost, Conclusion, dbVars
    <2>15. CASE Conclude
      BY <2>15, <1>0 DEF StartedCalls, DeadStays, TaskOnConv, Conclude, Closed,
         Awaiting, Started, Idle, dbVars
    <2>16. CASE HandlerStops
      BY <2>16, <1>0 DEF StartedCalls, DeadStays, HandlerStops, Idle, dbVars
    <2> QED
      BY <1>3, <2>1, <2>2, <2>3, <2>4, <2>5, <2>6, <2>7, <2>8, <2>9, <2>10, <2>11,
         <2>12, <2>13, <2>14, <2>15, <2>16 DEF Handler
  <1>4. ASSUME NEW c \in calls, ExecuteSettle(c)
       PROVE  StartedCalls'
    BY <1>4, <1>0 DEF StartedCalls, DeadStays, ExecuteSettle
  <1>5. ASSUME NEW c \in calls, LoseCall(c)
       PROVE  StartedCalls'
    BY <1>5, <1>0 DEF StartedCalls, DeadStays, LoseCall, dbVars, botVars
  <1>6. CASE RenderForm
    BY <1>6, <1>0 DEF StartedCalls, DeadStays, RenderForm, FreshIds, FreshKeys,
       dbVars, botVars
  <1>7. CASE SubmitForm
    <2>1. \A c \in calls' : c \in calls \/ c.id = form.id
      BY <1>7 DEF SubmitForm
    <2>2. conv.status # "closed" => form.id # conv.draft.id
      BY <1>7, <1>0, OpenConv DEF SubmitForm, OpenDraft, Draft
    <2>3. QED
      BY <1>7, <2>1, <2>2, <1>0 DEF StartedCalls, DeadStays, SubmitForm, dbVars,
         botVars
  <1>8. ASSUME NEW r \in rows, UndoPayment(r)
       PROVE  StartedCalls'
    BY <1>8, <1>0 DEF StartedCalls, DeadStays, UndoPayment, botVars
  <1>9. ASSUME NEW r \in rows, EditPayment(r)
       PROVE  StartedCalls'
    BY <1>9, <1>0 DEF StartedCalls, DeadStays, EditPayment, botVars
  <1> QED
    BY <1>0, <1>1, <1>2, <1>3, <1>4, <1>5, <1>6, <1>7, <1>8, <1>9, StepCases

\* The handler works on the draft the conversation holds: preserved.
LEMMA TaskOnConvNext ==
  ASSUME IInv, [Next]_vars
  PROVE  TaskOnConv'
PROOF
  <1>0. TypeOK /\ StartedCalls /\ NoFutureDates /\ TaskOnConv
    BY DEF IInv
  <1>a. Idle.phase = "idle"
    BY DEF Idle
  <1>b. TypeOK'
    BY TypeNext DEF IInv
  <1>1. CASE Aside
    <2>1. today \in Int /\ today' \in Int
      BY <1>0, <1>b DEF TypeOK, Days
    <2>2. task.phase = "submitting" => task.draft.paidOn \in Int
      BY <1>0 DEF TypeOK, Draft, Days
    <2>3. QED
      BY <1>1, <1>0, <2>1, <2>2 DEF TaskOnConv, Aside, Started, Awaiting
  <1>2. ASSUME NEW via \in Vias, NEW ask \in Asks, Receive(via, ask)
       PROVE  TaskOnConv'
    <2>1. task'.phase = "queued"
      BY <1>2 DEF Receive, Idle
    <2>2. QED
      BY <2>1 DEF TaskOnConv
  <1>3. CASE Handler
    <2>1. CASE ExpireOnLoad
      BY <2>1, <1>0 DEF TaskOnConv, ExpireOnLoad
    <2>2. CASE StartDraft
      BY <2>2, <1>0 DEF TaskOnConv, StartDraft, Idle
    <2>3. CASE StartElsewhere
      BY <2>3, <1>0 DEF TaskOnConv, StartElsewhere, Idle
    <2>4. CASE ChooseCard
      BY <2>4, <1>0 DEF TaskOnConv, ChooseCard, Idle
    <2>5. CASE EditDraft
      BY <2>5, <1>0 DEF TaskOnConv, EditDraft, Idle
    <2>6. CASE Cancel
      BY <2>6, <1>0 DEF TaskOnConv, Cancel, Idle
    <2>7. CASE Refuse
      BY <2>7, <1>0 DEF TaskOnConv, Refuse, Idle
    <2>8. CASE PrepareKeyed
      <3>1. task.who \in Members /\ conv.draft \in Draft
        BY <2>8, <1>0, OpenConv DEF PrepareKeyed, CanSubmit, Queued, TypeOK
      <3>2. /\ task'.phase = "submitting" /\ task'.draft = conv.draft
        BY <2>8, <3>1, BusyTask DEF PrepareKeyed, Submit, Phases
      <3>3. WithKey(conv.draft, conv.draft.key) = conv.draft
        BY <3>1 DEF WithKey, Draft
      <3>4. QED
        BY <2>8, <3>1, <3>2, <3>3 DEF TaskOnConv, PrepareKeyed, CanSubmit, dbVars
    <2>9. CASE PrepareLegacy
      <3>1. task.who \in Members /\ conv.draft \in Draft
        BY <2>9, <1>0, OpenConv DEF PrepareLegacy, CanSubmit, Queued, TypeOK
      <3>2. \/ task' = Idle
            \/ task' = Busy("concluding", "paid", conv.draft)
            \/ \E k \in Keys : task' = Busy("submitting", "started", WithKey(conv.draft, k))
        BY <2>9 DEF PrepareLegacy, Submit, Conclusion, FreshKeys
      <3>3. CASE task' = Idle
        BY <3>3, <1>a DEF TaskOnConv
      <3>4. CASE task' = Busy("concluding", "paid", conv.draft)
        <4>1. /\ task'.phase = "concluding" /\ task'.next = "paid"
              /\ task'.draft = conv.draft
          BY <3>1, <3>4, BusyTask DEF Phases
        <4>2. conv = Awaiting(conv.draft)
          BY <2>9, <1>0, OpenConv DEF PrepareLegacy, CanSubmit, Awaiting
        <4> QED
          BY <2>9, <4>1, <4>2 DEF TaskOnConv, PrepareLegacy, Awaiting
      <3>5. ASSUME NEW k \in Keys,
                   task' = Busy("submitting", "started", WithKey(conv.draft, k))
            PROVE  TaskOnConv'
        <4>1. /\ WithKey(conv.draft, k) \in Draft /\ WithKey(conv.draft, k).key = k
              /\ WithKey(conv.draft, k).paidOn = conv.draft.paidOn
              /\ Complete(WithKey(conv.draft, k)) <=> Complete(conv.draft)
          BY <3>1, WithKeyTyped DEF Complete
        <4>2. task'.phase = "submitting" /\ task'.draft = WithKey(conv.draft, k)
          BY <3>1, <3>5, <4>1, BusyTask DEF Phases
        <4> QED
          BY <2>9, <3>1, <4>1, <4>2 DEF TaskOnConv, PrepareLegacy, CanSubmit, dbVars
      <3>6. QED
        BY <3>2, <3>3, <3>4, <3>5
    <2>10. CASE SaveSubmission
      BY <2>10, <1>0 DEF TaskOnConv, SaveSubmission, TypeOK, Task
    <2>11. CASE ConfirmStarted
      <3>1. task.who \in Members /\ conv \in [status : {"awaiting", "started"}, draft : Draft]
        BY <2>11, <1>0, OpenConv DEF ConfirmStarted, Queued, TypeOK
      <3>2. task'.phase = "ready" /\ task'.draft = conv.draft
        BY <2>11, <3>1, BusyTask DEF ConfirmStarted, Phases
      <3>3. conv = Started(conv.draft)
        BY <2>11, <3>1 DEF ConfirmStarted, Started
      <3>4. QED
        BY <2>11, <3>2, <3>3 DEF TaskOnConv, ConfirmStarted, Started
    <2>12. CASE CallSettle
      <3>1. /\ conv = Started(task.draft) /\ conv' = conv
        BY <2>12, <1>0 DEF CallSettle, TaskOnConv
      <3>2. task'.phase = "waiting" /\ task'.draft = task.draft /\ task'.tag = FreeTag
        BY <2>12, <1>0 DEF CallSettle, TypeOK, Task
      <3>3. \A c \in calls' : c.tag = FreeTag => c.id = task.draft.id /\ c.pay = PaymentOf(task.draft)
        BY <2>12, FreeTagIsFree DEF CallSettle, TagFree, Request
      <3>4. QED
        BY <3>1, <3>2, <3>3 DEF TaskOnConv
    <2>13. CASE TakeAnswer
      <3>1. task.who \in Members /\ task.draft \in Draft /\ Verdict(task.answer) \in {"paid", "awaiting", "started"}
        BY <2>13, <1>0 DEF TakeAnswer, TypeOK, Verdict
      <3>2. task'.phase = "concluding" /\ task'.draft = task.draft
        BY <2>13, <3>1, BusyTask DEF TakeAnswer, Conclusion, Phases
      <3>3. QED
        BY <2>13, <1>0, <3>2 DEF TaskOnConv, TakeAnswer, Started
    <2>14. CASE AnswerLost
      <3>1. task.who \in Members /\ task.draft \in Draft
        BY <2>14, <1>0 DEF AnswerLost, TypeOK
      <3>2. task'.phase = "concluding" /\ task'.draft = task.draft
        BY <2>14, <3>1, BusyTask DEF AnswerLost, Conclusion, Phases
      <3>3. QED
        BY <2>14, <1>0, <3>2 DEF TaskOnConv, AnswerLost, Started
    <2>15. CASE Conclude
      BY <2>15, <1>0 DEF TaskOnConv, Conclude, Idle
    <2>16. CASE HandlerStops
      BY <2>16, <1>0 DEF TaskOnConv, HandlerStops, Idle
    <2> QED
      BY <1>3, <2>1, <2>2, <2>3, <2>4, <2>5, <2>6, <2>7, <2>8, <2>9, <2>10, <2>11,
         <2>12, <2>13, <2>14, <2>15, <2>16 DEF Handler
  <1>4. ASSUME NEW c \in calls, ExecuteSettle(c)
       PROVE  TaskOnConv'
    <2>1. \/ task' = task
          \/ task'.phase = "answered" /\ task'.draft = task.draft /\ task.phase = "waiting"
      BY <1>4, <1>0 DEF ExecuteSettle, TypeOK, Task
    <2>2. conv' = conv /\ calls' \subseteq calls /\ today' = today
      BY <1>4 DEF ExecuteSettle
    <2>3. QED
      BY <1>0, <2>1, <2>2 DEF TaskOnConv, Started
  <1>5. ASSUME NEW c \in calls, LoseCall(c)
       PROVE  TaskOnConv'
    BY <1>5, <1>0 DEF TaskOnConv, LoseCall, dbVars, botVars
  <1>6. CASE RenderForm
    BY <1>6, <1>0 DEF TaskOnConv, RenderForm, FreshIds, FreshKeys, dbVars, botVars
  <1>7. CASE SubmitForm
    <2>1. \A c \in calls' : c \in calls \/ c.tag # task.tag
      BY <1>7, FreeTagIsFree DEF SubmitForm, TagFree
    <2>2. QED
      BY <1>7, <2>1, <1>0 DEF TaskOnConv, SubmitForm, dbVars, botVars
  <1>8. ASSUME NEW r \in rows, UndoPayment(r)
       PROVE  TaskOnConv'
    BY <1>8, <1>0 DEF TaskOnConv, UndoPayment, botVars
  <1>9. ASSUME NEW r \in rows, EditPayment(r)
       PROVE  TaskOnConv'
    BY <1>9, <1>0 DEF TaskOnConv, EditPayment, botVars
  <1> QED
    BY <1>0, <1>1, <1>2, <1>3, <1>4, <1>5, <1>6, <1>7, <1>8, <1>9, StepCases

\* What the handler has learnt is true and stays true: preserved.
LEMMA AnswerHoldsNext ==
  ASSUME IInv, [Next]_vars
  PROVE  AnswerHolds'
PROOF
  <1>0. /\ TypeOK /\ NoFutureDates /\ StartedCalls /\ KeylessDraft /\ TaskOnConv
        /\ AnswerHolds /\ OpenDraft /\ DeadStays
    BY DeadNext DEF IInv
  <1>a. Idle.phase = "idle"
    BY DEF Idle
  <1>1. CASE Aside
    BY <1>1, <1>0 DEF AnswerHolds, SaysPaid, SaysUnpaid, DeadStays, Aside
  <1>2. ASSUME NEW via \in Vias, NEW ask \in Asks, Receive(via, ask)
       PROVE  AnswerHolds'
    <2>1. task'.phase = "queued"
      BY <1>2 DEF Receive, Idle
    <2>2. QED
      BY <1>2, <1>0, <2>1 DEF AnswerHolds, SaysPaid, SaysUnpaid, DeadStays, Receive,
         dbVars
  <1>3. CASE Handler
    <2>1. CASE ExpireOnLoad
      BY <2>1, <1>0 DEF AnswerHolds, SaysPaid, SaysUnpaid, DeadStays, ExpireOnLoad,
         LetGo, Closed, dbVars
    <2>2. CASE StartDraft
      BY <2>2, <1>0, <1>a DEF AnswerHolds, SaysPaid, SaysUnpaid, DeadStays,
         StartDraft, NewDraft, Awaiting, FreshIds, FreshKeys, dbVars
    <2>3. CASE StartElsewhere
      BY <2>3, <1>0, <1>a DEF AnswerHolds, SaysPaid, SaysUnpaid, DeadStays,
         StartElsewhere, Closed, dbVars
    <2>4. CASE ChooseCard
      BY <2>4, <1>0, <1>a DEF AnswerHolds, SaysPaid, SaysUnpaid, DeadStays,
         ChooseCard, Closed, Awaiting, dbVars
    <2>5. CASE EditDraft
      BY <2>5, <1>0, <1>a DEF AnswerHolds, SaysPaid, SaysUnpaid, DeadStays,
         EditDraft, Awaiting, dbVars
    <2>6. CASE Cancel
      BY <2>6, <1>0, <1>a DEF AnswerHolds, SaysPaid, SaysUnpaid, DeadStays, Cancel,
         Closed, dbVars
    <2>7. CASE Refuse
      BY <2>7, <1>0, <1>a DEF AnswerHolds, SaysPaid, SaysUnpaid, DeadStays, Refuse,
         dbVars
    <2>8. CASE PrepareKeyed
      <3>1. task.who \in Members /\ conv.draft \in Draft
        BY <2>8, <1>0, OpenConv DEF PrepareKeyed, CanSubmit, Queued, TypeOK
      <3>2. task'.phase = "submitting"
        BY <2>8, <3>1, BusyTask DEF PrepareKeyed, Submit, Phases
      <3>3. QED
        BY <2>8, <1>0, <3>2 DEF AnswerHolds, SaysPaid, SaysUnpaid, DeadStays,
           PrepareKeyed, dbVars
    <2>9. CASE PrepareLegacy
      <3>1. task.who \in Members /\ conv.draft \in Draft
        BY <2>9, <1>0, OpenConv DEF PrepareLegacy, CanSubmit, Queued, TypeOK
      <3>2. ever' = ever /\ rows' = rows
        BY <2>9 DEF PrepareLegacy, dbVars
      <3>3. CASE task' = Idle
        BY <2>9, <1>0, <1>a, <3>2, <3>3 DEF AnswerHolds, SaysPaid, SaysUnpaid
      <3>4. CASE /\ LegacyStatus(conv.draft) = "matched"
                 /\ task' = Busy("concluding", "paid", conv.draft)
        <4>1. PaymentOf(conv.draft) \in ever
          BY <1>0, <3>4 DEF LegacyStatus, AnswerHolds
        <4>2. /\ task'.phase = "concluding" /\ task'.next = "paid"
              /\ task'.draft = conv.draft
          BY <3>1, <3>4, BusyTask DEF Phases
        <4> QED
          BY <1>0, <3>2, <4>1, <4>2 DEF AnswerHolds, SaysPaid, SaysUnpaid
      <3>5. ASSUME NEW k \in Keys,
                   task' = Busy("submitting", "started", WithKey(conv.draft, k))
            PROVE  AnswerHolds'
        <4>1. WithKey(conv.draft, k) \in Draft
          BY <3>1, WithKeyTyped
        <4>2. task'.phase = "submitting"
          BY <3>1, <3>5, <4>1, BusyTask DEF Phases
        <4> QED
          BY <1>0, <3>2, <4>2 DEF AnswerHolds, SaysPaid, SaysUnpaid
      <3>6. QED
        BY <2>9, <3>3, <3>4, <3>5 DEF PrepareLegacy, Submit, Conclusion, FreshKeys
    <2>10. CASE SaveSubmission
      <3>1. task'.phase = "ready"
        BY <2>10, <1>0 DEF SaveSubmission, TypeOK, Task
      <3>2. QED
        BY <2>10, <1>0, <3>1 DEF AnswerHolds, SaysPaid, SaysUnpaid, DeadStays,
           SaveSubmission, dbVars
    <2>11. CASE ConfirmStarted
      <3>1. task.who \in Members /\ conv.draft \in Draft
        BY <2>11, <1>0, OpenConv DEF ConfirmStarted, Queued, TypeOK
      <3>2. task'.phase = "ready"
        BY <2>11, <3>1, BusyTask DEF ConfirmStarted, Phases
      <3>3. QED
        BY <2>11, <1>0, <3>2 DEF AnswerHolds, SaysPaid, SaysUnpaid, DeadStays,
           ConfirmStarted, dbVars
    <2>12. CASE CallSettle
      <3>1. task'.phase = "waiting"
        BY <2>12, <1>0 DEF CallSettle, TypeOK, Task
      <3>2. QED
        BY <2>12, <1>0, <3>1 DEF AnswerHolds, SaysPaid, SaysUnpaid, DeadStays,
           CallSettle, dbVars
    <2>13. CASE TakeAnswer
      <3>1. task.who \in Members /\ task.draft \in Draft /\ Verdict(task.answer) \in {"paid", "awaiting", "started"}
        BY <2>13, <1>0 DEF TakeAnswer, TypeOK, Verdict
      <3>2. /\ task'.phase = "concluding" /\ task'.draft = task.draft
            /\ task'.next = Verdict(task.answer)
        BY <2>13, <3>1, BusyTask DEF TakeAnswer, Conclusion, Phases
      <3>3. /\ task'.next = "paid" => task.answer \in {"settled", "replayed"}
            /\ task'.next = "awaiting" => task.answer = "definitive"
        BY <1>0, <3>2 DEF Verdict, TypeOK, Task, Answers
      <3>4. QED
        BY <2>13, <1>0, <3>2, <3>3 DEF AnswerHolds, SaysPaid, SaysUnpaid, DeadStays,
           TakeAnswer, dbVars
    <2>14. CASE AnswerLost
      <3>1. task.who \in Members /\ task.draft \in Draft
        BY <2>14, <1>0 DEF AnswerLost, TypeOK
      <3>2. task'.phase = "concluding" /\ task'.draft = task.draft /\ task'.next = "started"
        BY <2>14, <3>1, BusyTask DEF AnswerLost, Conclusion, Phases
      <3>3. QED
        BY <2>14, <1>0, <3>2 DEF AnswerHolds, SaysPaid, SaysUnpaid, DeadStays,
           AnswerLost, dbVars
    <2>15. CASE Conclude
      BY <2>15, <1>0, <1>a DEF AnswerHolds, SaysPaid, SaysUnpaid, DeadStays,
         Conclude, Closed, Awaiting, Started, dbVars
    <2>16. CASE HandlerStops
      BY <2>16, <1>0, <1>a DEF AnswerHolds, SaysPaid, SaysUnpaid, DeadStays,
         HandlerStops, dbVars
    <2> QED
      BY <1>3, <2>1, <2>2, <2>3, <2>4, <2>5, <2>6, <2>7, <2>8, <2>9, <2>10, <2>11,
         <2>12, <2>13, <2>14, <2>15, <2>16 DEF Handler
  <1>4. ASSUME NEW c \in calls, ExecuteSettle(c)
        PROVE  AnswerHolds'
    <2>1. /\ \A r \in rows' : r \in rows \/ (r.key = c.key /\ r.pay = c.pay /\ ~Dead(c))
          /\ \A r \in rows' : r.pay \in ever'
          /\ ever \subseteq ever' /\ calls' \subseteq calls
          /\ \A x \in calls : Dead(x) => Dead(x)'
      BY <1>0, <1>4, SettledIsAlive DEF ExecuteSettle, NewRow, AnswerHolds, DeadStays
    <2>2. CASE task' = task
      BY <1>0, <2>1, <2>2 DEF AnswerHolds, SaysPaid, SaysUnpaid
    <2>3. CASE task' # task
      <3>1. /\ task.phase = "waiting" /\ task.tag = c.tag
            /\ task'.phase = "answered" /\ task'.draft = task.draft
            /\ task'.answer = SettleAnswer(c)
        BY <1>0, <1>4, <2>3 DEF ExecuteSettle, TypeOK, Task
      <3>2. /\ conv = Started(task.draft) /\ task.draft \in Draft
            /\ c.id = task.draft.id /\ c.pay = PaymentOf(task.draft)
        BY <1>0, <1>4, <3>1 DEF TaskOnConv, TypeOK
      <3>3. task.draft.key # NoKey /\ conv.status = "started" /\ conv.draft = task.draft
        BY <1>0, <3>2 DEF KeylessDraft, Started
      <3>4. c.key = task.draft.key
        BY <3>2, <3>3, SameDraftSameKey
      <3>5. CASE SettleAnswer(c) = "settled"
        <4>1. c.pay \in ever'
          BY <1>4, <3>5 DEF ExecuteSettle
        <4> QED
          BY <2>1, <3>1, <3>2, <3>5, <4>1 DEF AnswerHolds, SaysPaid, SaysUnpaid
      <3>6. CASE SettleAnswer(c) = "replayed"
        <4>1. c.pay \in ever
          BY <1>0, <3>6 DEF SettleAnswer, SameKey, AnswerHolds
        <4> QED
          BY <2>1, <3>1, <3>2, <3>6, <4>1 DEF AnswerHolds, SaysPaid, SaysUnpaid
      <3>7. CASE SettleAnswer(c) = "definitive"
        <4>1. SameKey(c) = {} /\ Invalid(c)
          BY <3>7 DEF SettleAnswer
        <4>2. Dead(c)
          <5>1. c.pay.paidOn <= today /\ c.pay.paidOn \in Int /\ today \in Int
            BY <1>0, <1>4 DEF NoFutureDates, TypeOK, Call, Payment, Days
          <5> QED
            BY <4>1, <5>1 DEF Invalid, Dead
        <4>3. \A x \in calls : x.key = c.key => Dead(x)
          <5>1. SUFFICES ASSUME NEW x \in calls, x.key = c.key PROVE Dead(x)
            OBVIOUS
          <5>2. Holds(x.id, x.key) /\ Holds(c.id, c.key)
            BY <1>4 DEF Holds
          <5>3. x.id = c.id
            BY <5>1, <5>2, <1>4 DEF IInv, KeyNamesDraft, TypeOK, Call
          <5>4. x.pay = c.pay \/ Dead(x)
            BY <1>0, <3>2, <3>3, <5>3 DEF StartedCalls
          <5> QED
            BY <4>2, <5>4 DEF Dead
        <4>4. \A r \in rows' : r.key # c.key
          BY <1>4, <4>1, <3>7 DEF ExecuteSettle, SameKey
        <4> QED
          BY <2>1, <3>1, <3>4, <3>7, <4>3, <4>4 DEF AnswerHolds, SaysPaid, SaysUnpaid
      <3>8. CASE SettleAnswer(c) \notin {"settled", "replayed", "definitive"}
        BY <2>1, <3>1, <3>8 DEF AnswerHolds, SaysPaid, SaysUnpaid
      <3> QED
        BY <3>5, <3>6, <3>7, <3>8
    <2> QED
      BY <2>2, <2>3
  <1>5. ASSUME NEW c \in calls, LoseCall(c)
       PROVE  AnswerHolds'
    BY <1>5, <1>0 DEF AnswerHolds, SaysPaid, SaysUnpaid, DeadStays, LoseCall,
       dbVars, botVars
  <1>6. CASE RenderForm
    BY <1>6, <1>0 DEF AnswerHolds, SaysPaid, SaysUnpaid, DeadStays, RenderForm,
       FreshIds, FreshKeys, dbVars, botVars
  <1>7. CASE SubmitForm
    <2>1. \A c \in calls' : c \in calls \/ c.key = form.key
      BY <1>7 DEF SubmitForm
    <2>2. SaysUnpaid => conv = Started(task.draft) /\ task.draft \in Draft /\ InTask
      BY <1>0 DEF SaysUnpaid, TaskOnConv, TypeOK, InTask
    <2>3. SaysUnpaid => form.id # task.draft.id /\ Holds(form.id, form.key)
                         /\ Holds(task.draft.id, task.draft.key)
      BY <1>7, <1>0, <2>2 DEF SubmitForm, OpenDraft, Started, Holds, Draft
    <2>4. SaysUnpaid => form.key # task.draft.key
      BY <1>7, <1>0, <2>2, <2>3 DEF SubmitForm, IInv, KeyNamesDraft, KeylessDraft,
         Started, TypeOK, Draft
    <2>5. QED
      BY <1>7, <1>0, <2>1, <2>4 DEF AnswerHolds, SaysPaid, SaysUnpaid, DeadStays,
         SubmitForm, dbVars, botVars
  <1>8. ASSUME NEW r \in rows, UndoPayment(r)
       PROVE  AnswerHolds'
    BY <1>8, <1>0 DEF AnswerHolds, SaysPaid, SaysUnpaid, DeadStays, UndoPayment,
       botVars
  <1>9. ASSUME NEW r \in rows, EditPayment(r)
       PROVE  AnswerHolds'
    <2>1. \A q \in rows' : (\E s \in rows : s.key = q.key) /\ q.pay \in ever'
      BY <1>9, <1>0, EditedRow DEF EditPayment, TypeOK, AnswerHolds
    <2>2. ever \subseteq ever'
      BY <1>9 DEF EditPayment
    <2>3. QED
      BY <1>9, <1>0, <2>1, <2>2 DEF AnswerHolds, SaysPaid, SaysUnpaid, DeadStays,
         EditPayment, botVars
  <1> QED
    BY <1>0, <1>1, <1>2, <1>3, <1>4, <1>5, <1>6, <1>7, <1>8, <1>9, StepCases

------------------------------------------------------------------------
(* The theorems.                                                         *)

\* The initial states, legacy draft or not, satisfy the invariant.
LEMMA IInvInit == Init => IInv
PROOF
  <1> SUFFICES ASSUME Init PROVE IInv
    OBVIOUS
  <1>1. TypeOK
    BY TypeInit
  <1>2. /\ calls = {} /\ form = NoDraft /\ task.phase = "idle" /\ today = 0
        /\ conv.status \in {"closed", "awaiting"}
        /\ conv.status = "awaiting" => conv.draft.key = NoKey
        /\ \A r \in rows : r.key = NoKey
    BY DEF Init, Idle, StartsClean, StartsLegacy, Closed, Awaiting, LegacyDraft, LegacyRow
  <1>3. \A d \in Drafts, k \in Keys : ~Holds(d, k)
    BY <1>2 DEF Holds, InTask
  <1>4. RowPerKey
    BY DEF Init, StartsClean, StartsLegacy, RowPerKey
  <1>5. OpenDraft
    BY <1>2 DEF OpenDraft, Init, StartsClean, StartsLegacy, Closed, Awaiting, LegacyDraft
  <1>6. \A r \in rows : /\ fate[r.id] # "unused"
                        /\ conv.status # "closed" /\ conv.draft.id = r.id
                             => conv.draft.bill = r.pay.bill
    BY DEF Init, StartsClean, StartsLegacy, Closed, Awaiting, LegacyDraft, LegacyRow
  <1>7. KeyNamesDraft /\ KeylessRows
    BY <1>1, <1>3, <1>6 DEF KeyNamesDraft, KeylessRows, TypeOK, Row
  <1>8. KeylessDraft /\ EditableMeansUnpaid
    BY <1>2 DEF KeylessDraft, EditableMeansUnpaid
  <1>9. ReleasedStaysUnpaid
    BY <1>2 DEF ReleasedStaysUnpaid
  <1>10. StartedCalls /\ NoFutureDates /\ TaskOnConv
    BY <1>2 DEF StartedCalls, NoFutureDates, TaskOnConv
  <1>11. AnswerHolds
    BY <1>2 DEF AnswerHolds, SaysPaid, SaysUnpaid, Init
  <1> QED
    BY <1>1, <1>4, <1>5, <1>7, <1>8, <1>9, <1>10, <1>11 DEF IInv

\* Every step preserves the invariant.
LEMMA IInvNext == IInv /\ [Next]_vars => IInv'
PROOF
  <1> SUFFICES ASSUME IInv, [Next]_vars PROVE IInv'
    OBVIOUS
  <1>1. TypeOK'
    BY TypeNext DEF IInv
  <1>2. KeyNamesDraft' /\ RowPerKey' /\ KeylessRows' /\ KeylessDraft'
    BY KeyNamesDraftNext, RowPerKeyNext, KeylessRowsNext, KeylessDraftNext
  <1>3. OpenDraft' /\ StartedCalls' /\ NoFutureDates'
    BY OpenDraftNext, StartedCallsNext, NoFutureDatesNext
  <1>4. TaskOnConv' /\ AnswerHolds'
    BY TaskOnConvNext, AnswerHoldsNext
  <1>5. EditableMeansUnpaid' /\ ReleasedStaysUnpaid'
    BY EditableMeansUnpaidNext, ReleasedStaysUnpaidNext
  <1> QED
    BY <1>1, <1>2, <1>3, <1>4, <1>5 DEF IInv

\* The invariant holds in every reachable state.
THEOREM InvariantHolds == Spec => []IInv
PROOF
  <1> QED
    BY IInvInit, IInvNext, PTL DEF Spec

\* Every variable has the type declared for it.
THEOREM TypeCorrect == Spec => []TypeOK
PROOF
  <1>1. IInv => TypeOK
    BY DEF IInv
  <1> QED
    BY InvariantHolds, <1>1, PTL

\* The invariant leaves room for one row of a draft, with a key or without.
LEMMA OnePerDraft == IInv => OnePaymentPerDraft
PROOF
  <1>1. SUFFICES ASSUME IInv, NEW r \in rows, NEW s \in rows, r.id = s.id
                 PROVE  r = s
    BY DEF OnePaymentPerDraft
  <1>2. r.id \in Drafts /\ r.key \in Keys \cup {NoKey} /\ s.key \in Keys \cup {NoKey}
    BY <1>1 DEF IInv, TypeOK, Row
  <1>3. /\ r.key \in Keys => Holds(r.id, r.key)
        /\ s.key \in Keys => Holds(r.id, s.key)
    BY <1>1 DEF Holds
  <1>4. r.key = s.key
    BY <1>1, <1>2, <1>3 DEF IInv, KeyNamesDraft, KeylessRows
  <1> QED
    BY <1>1, <1>4 DEF IInv, RowPerKey

\* However often a draft is confirmed, a form submitted, a reply lost or the
\* process restarted, it has at most one recorded payment.
THEOREM PaidOnce == Spec => []OnePaymentPerDraft
PROOF
  <1> QED
    BY InvariantHolds, OnePerDraft, PTL

\* What the bot lets the member edit or cancel is not paid and cannot be.
THEOREM EditableUnpaid == Spec => []EditableMeansUnpaid
PROOF
  <1>1. IInv => EditableMeansUnpaid
    BY DEF IInv
  <1> QED
    BY InvariantHolds, <1>1, PTL

\* A draft the bot has let go of never turns into a payment.
THEOREM ReleasedUnpaid == Spec => []ReleasedStaysUnpaid
PROOF
  <1>1. IInv => ReleasedStaysUnpaid
    BY DEF IInv
  <1> QED
    BY InvariantHolds, <1>1, PTL

\* Every request that can still write is accounted for.
THEOREM Recoverable == Spec => []WritesAreRecoverable
PROOF
  <1>1. ASSUME IInv PROVE WritesAreRecoverable
    <2>1. SUFFICES ASSUME NEW c \in calls, ~Dead(c),
                          fate[c.id] \notin {"paid", "orphaned", "web"}
                   PROVE  /\ conv = Started(conv.draft) /\ conv.draft.id = c.id
                          /\ conv.draft.key = c.key /\ PaymentOf(conv.draft) = c.pay
      BY DEF WritesAreRecoverable
    <2>2. c.id \in Drafts /\ c.key \in Keys /\ Holds(c.id, c.key)
      BY <1>1 DEF IInv, TypeOK, Call, Holds
    <2>3. fate[c.id] = "open"
      BY <1>1, <2>1, <2>2 DEF IInv, TypeOK, KeyNamesDraft, ReleasedStaysUnpaid
    <2>4. conv.status # "closed" /\ conv.draft.id = c.id
      BY <1>1, <2>2, <2>3 DEF IInv, OpenDraft
    <2>5. conv.draft \in Draft /\ conv \in [status : {"awaiting", "started"}, draft : Draft]
      BY <1>1, <2>4, OpenConv DEF IInv
    <2>6. conv.draft.key # NoKey
      BY <1>1, <2>4 DEF IInv, KeylessDraft
    <2>7. c.key = conv.draft.key
      BY <1>1, <2>4, <2>5, <2>6, SameDraftSameKey
    <2>8. conv.status = "started"
      BY <1>1, <2>1, <2>5, <2>6, <2>7 DEF IInv, EditableMeansUnpaid
    <2>9. c.pay = PaymentOf(conv.draft)
      BY <1>1, <2>1, <2>4, <2>8 DEF IInv, StartedCalls
    <2> QED
      BY <2>4, <2>5, <2>7, <2>8, <2>9 DEF Started
  <1> QED
    BY InvariantHolds, <1>1, PTL

ReportStep ==
  \A d \in Drafts : fate[d] # "paid" /\ fate'[d] = "paid" =>
    task.draft.id = d /\ PaymentOf(task.draft) \in ever

\* A payment is reported only in the step that ends a draft, and there only
\* one that has been recorded.
LEMMA ReportNext ==
  ASSUME IInv, [Next]_vars
  PROVE  ReportStep
PROOF
  <1>0. TypeOK /\ OpenDraft /\ AnswerHolds
    BY DEF IInv
  <1>1. CASE Aside
    BY <1>1, <1>0 DEF ReportStep, TypeOK, Aside
  <1>2. ASSUME NEW via \in Vias, NEW ask \in Asks, Receive(via, ask)
       PROVE  ReportStep
    BY <1>2, <1>0 DEF ReportStep, TypeOK, Receive, Idle, dbVars
  <1>3. CASE Handler
    <2>1. CASE ExpireOnLoad
      BY <2>1, <1>0 DEF ReportStep, TypeOK, ExpireOnLoad, LetGo, Closed, dbVars
    <2>2. CASE StartDraft
      BY <2>2, <1>0 DEF ReportStep, StartDraft, LetGo, TypeOK, FreshIds
    <2>3. CASE StartElsewhere
      BY <2>3, <1>0 DEF ReportStep, TypeOK, StartElsewhere, LetGo, Closed, Idle,
         dbVars
    <2>4. CASE ChooseCard
      BY <2>4, <1>0 DEF ReportStep, TypeOK, ChooseCard, LetGo, Closed, Awaiting,
         Idle, dbVars
    <2>5. CASE EditDraft
      BY <2>5, <1>0 DEF ReportStep, TypeOK, EditDraft, Awaiting, Idle, dbVars
    <2>6. CASE Cancel
      BY <2>6, <1>0 DEF ReportStep, TypeOK, Cancel, LetGo, Closed, Idle, dbVars
    <2>7. CASE Refuse
      BY <2>7, <1>0 DEF ReportStep, TypeOK, Refuse, Idle, dbVars
    <2>8. CASE PrepareKeyed
      BY <2>8, <1>0 DEF ReportStep, TypeOK, PrepareKeyed, CanSubmit, Queued, Submit,
         dbVars
    <2>9. CASE PrepareLegacy
      BY <2>9, <1>0 DEF ReportStep, TypeOK, PrepareLegacy, CanSubmit, Queued,
         Submit, Conclusion, dbVars
    <2>10. CASE SaveSubmission
      BY <2>10, <1>0 DEF ReportStep, TypeOK, SaveSubmission, Started, dbVars
    <2>11. CASE ConfirmStarted
      BY <2>11, <1>0 DEF ReportStep, TypeOK, ConfirmStarted, Queued, dbVars
    <2>12. CASE CallSettle
      BY <2>12, <1>0 DEF ReportStep, TypeOK, CallSettle, Request, dbVars
    <2>13. CASE TakeAnswer
      BY <2>13, <1>0 DEF ReportStep, TypeOK, TakeAnswer, Conclusion, dbVars
    <2>14. CASE AnswerLost
      BY <2>14, <1>0 DEF ReportStep, TypeOK, AnswerLost, Conclusion, dbVars
    <2>15. CASE Conclude
      BY <2>15, <1>0 DEF ReportStep, AnswerHolds, SaysPaid, TypeOK, Conclude
    <2>16. CASE HandlerStops
      BY <2>16, <1>0 DEF ReportStep, TypeOK, HandlerStops, Idle, dbVars
    <2> QED
      BY <1>3, <2>1, <2>2, <2>3, <2>4, <2>5, <2>6, <2>7, <2>8, <2>9, <2>10, <2>11,
         <2>12, <2>13, <2>14, <2>15, <2>16 DEF Handler
  <1>4. ASSUME NEW c \in calls, ExecuteSettle(c)
       PROVE  ReportStep
    BY <1>4, <1>0 DEF ReportStep, TypeOK, ExecuteSettle, NewRow
  <1>5. ASSUME NEW c \in calls, LoseCall(c)
       PROVE  ReportStep
    BY <1>5, <1>0 DEF ReportStep, TypeOK, LoseCall, dbVars, botVars
  <1>6. CASE RenderForm
    BY <1>6, <1>0 DEF ReportStep, RenderForm, TypeOK
  <1>7. CASE SubmitForm
    BY <1>7, <1>0 DEF ReportStep, TypeOK, SubmitForm, dbVars, botVars
  <1>8. ASSUME NEW r \in rows, UndoPayment(r)
       PROVE  ReportStep
    BY <1>8, <1>0 DEF ReportStep, TypeOK, UndoPayment, botVars
  <1>9. ASSUME NEW r \in rows, EditPayment(r)
       PROVE  ReportStep
    BY <1>9, <1>0 DEF ReportStep, TypeOK, EditPayment, botVars
  <1> QED
    BY <1>0, <1>1, <1>2, <1>3, <1>4, <1>5, <1>6, <1>7, <1>8, <1>9, StepCases

\* The bot says "paga" only of a payment that was recorded as the draft says.
THEOREM ReportsTrue == Spec => ReportsOnlyRecorded
PROOF
  <1>1. IInv /\ [Next]_vars => [ReportStep]_vars
    BY ReportNext
  <1>2. Spec => [][ReportStep]_vars
    BY InvariantHolds, <1>1, PTL DEF Spec
  <1> QED
    BY <1>2 DEF ReportsOnlyRecorded, ReportStep

\* The only other way out of a started draft: a text of a member who did not
\* create it.
TakenOver == /\ task.phase = "queued" /\ task.via = "text"
             /\ conv.draft.by # task.who

KeptStep ==
  conv.status = "started" /\ conv' # conv =>
    \/ fate'[conv.draft.id] = "paid"
    \/ conv' = Awaiting(conv.draft)
    \/ TakenOver

\* A handler that ends a started draft has its answer in hand, or has just
\* loaded a conversation that is not the sender's.
LEMMA KeptNext ==
  ASSUME IInv, [Next]_vars
  PROVE  KeptStep
PROOF
  <1> SUFFICES ASSUME conv.status = "started", conv' # conv
               PROVE  \/ fate'[conv.draft.id] = "paid"
                      \/ conv' = Awaiting(conv.draft)
                      \/ TakenOver
    BY DEF KeptStep
  <1>0. TypeOK /\ TaskOnConv
    BY DEF IInv
  <1>1. CASE Aside
    BY <1>1 DEF Aside
  <1>2. ASSUME NEW via \in Vias, NEW ask \in Asks, Receive(via, ask)
       PROVE  FALSE
    BY <1>2 DEF Receive
  <1>3. CASE Handler
    <2>1. CASE StartDraft \/ StartElsewhere
      BY <2>1 DEF StartDraft, StartElsewhere, Queued, Replaces, Mine, TakenOver
    <2>2. CASE ExpireOnLoad \/ ChooseCard \/ EditDraft \/ Cancel
      BY <2>2 DEF ExpireOnLoad, ChooseCard, EditDraft, Cancel
    <2>3. CASE \/ Refuse \/ PrepareKeyed \/ PrepareLegacy \/ ConfirmStarted
               \/ CallSettle \/ TakeAnswer \/ AnswerLost \/ HandlerStops
      BY <2>3 DEF Refuse, PrepareKeyed, PrepareLegacy, ConfirmStarted, CallSettle,
         TakeAnswer, AnswerLost, HandlerStops
    <2>4. CASE SaveSubmission
      BY <2>4, <1>0 DEF SaveSubmission, TaskOnConv
    <2>5. CASE Conclude
      <3>1. conv = Started(task.draft) /\ task.draft \in Draft
        BY <2>5, <1>0 DEF Conclude, TaskOnConv, TypeOK, Awaiting
      <3>2. conv.draft = task.draft /\ task.draft.id \in DOMAIN fate
        BY <3>1, <1>0 DEF Started, Draft, TypeOK
      <3> QED
        BY <2>5, <3>1, <3>2 DEF Conclude
    <2> QED
      BY <1>3, <2>1, <2>2, <2>3, <2>4, <2>5 DEF Handler
  <1>4. ASSUME NEW c \in calls, ExecuteSettle(c) \/ LoseCall(c)
       PROVE  FALSE
    BY <1>4 DEF ExecuteSettle, LoseCall, botVars
  <1>5. CASE RenderForm \/ SubmitForm
    BY <1>5 DEF RenderForm, SubmitForm, botVars
  <1>6. ASSUME NEW r \in rows, UndoPayment(r) \/ EditPayment(r)
       PROVE  FALSE
    BY <1>6 DEF UndoPayment, EditPayment, botVars
  <1> QED
    BY <1>0, <1>1, <1>2, <1>3, <1>4, <1>5, <1>6, StepCases

\* A started draft is kept, unchanged, until its payment is reported or shown
\* not to exist, or a text of another member replaces the conversation: no
\* voice note, expiry, cancellation, correction, crash or lost reply ends it.
THEOREM OnlyAnotherMemberEndsIt == Spec => [][KeptStep]_vars
PROOF
  <1>1. IInv /\ [Next]_vars => [KeptStep]_vars
    BY KeptNext
  <1> QED
    BY InvariantHolds, <1>1, PTL DEF Spec

\* Where one member uses the bot, a started draft is retained until it is
\* reconciled.
THEOREM RetainedForOne ==
  ASSUME \A m, n \in Members : m = n
  PROVE  Spec => UncertaintyRetained
PROOF
  <1>1. IInv /\ [Next]_vars
          => [conv.status = "started" /\ conv' # conv =>
                \/ fate'[conv.draft.id] = "paid"
                \/ conv' = Awaiting(conv.draft)]_vars
    <2> SUFFICES ASSUME IInv, [Next]_vars, conv.status = "started", conv' # conv
                 PROVE  \/ fate'[conv.draft.id] = "paid"
                        \/ conv' = Awaiting(conv.draft)
      OBVIOUS
    <2>1. KeptStep
      BY KeptNext
    <2>2. ~TakenOver
      BY DEF TakenOver, IInv, TypeOK, Draft, Closed
    <2> QED
      BY <2>1, <2>2 DEF KeptStep
  <1> QED
    BY InvariantHolds, <1>1, PTL DEF Spec, UncertaintyRetained

------------------------------------------------------------------------
(* Refinement of PaymentPromise.                                         *)

Promised == [Promise!Next]_<<KeyedPayments, ReleasedDrafts>>

\* The rows stay, and at most the conversation's unpaid draft is let go.
LetsGo ==
  /\ rows' = rows
  /\ \/ ReleasedDrafts' = ReleasedDrafts
     \/ conv.status = "awaiting" /\ ReleasedDrafts' = ReleasedDrafts \cup {conv.draft.id}

\* Letting an editable draft go is one release, or changes nothing.
LEMMA LetsGoPromised ==
  ASSUME IInv, LetsGo
  PROVE  Promised
PROOF
  <1>1. KeyedPayments' = KeyedPayments
    BY DEF LetsGo, KeyedPayments
  <1>2. CASE ReleasedDrafts' = ReleasedDrafts
    BY <1>1, <1>2 DEF Promised
  <1>3. CASE /\ conv.status = "awaiting"
             /\ ReleasedDrafts' = ReleasedDrafts \cup {conv.draft.id}
    <2>1. conv.draft \in Draft
      BY <1>3, OpenConv DEF IInv
    <2>2. \A r \in rows : r.key # NoKey => r.id # conv.draft.id
      <3>1. CASE conv.draft.key = NoKey
        BY <1>3, <3>1 DEF IInv, KeylessDraft
      <3>2. CASE conv.draft.key \in Keys
        BY <1>3, <2>1, <3>2
           DEF IInv, EditableMeansUnpaid, KeyNamesDraft, Holds, TypeOK, Row, Draft
      <3> QED
        BY <2>1, <3>1, <3>2 DEF Draft
    <2>3. Promise!Release(conv.draft.id)
      BY <1>1, <1>3, <2>2 DEF Promise!Release, Promise!Unpaid, KeyedPayments
    <2> QED
      BY <2>1, <2>3 DEF Promised, Promise!Next, Draft
  <1> QED
    BY <1>2, <1>3 DEF LetsGo

\* Every step is one payment, one undo, one release or nothing.
LEMMA PromiseNext ==
  ASSUME IInv, [Next]_vars
  PROVE  Promised
PROOF
  <1>0. TypeOK /\ OpenDraft /\ (LetsGo => Promised)
    BY LetsGoPromised DEF IInv
  <1>1. CASE Aside
    BY <1>1, <1>0 DEF LetsGo, ReleasedDrafts, OpenDraft, TypeOK, Aside
  <1>2. ASSUME NEW via \in Vias, NEW ask \in Asks, Receive(via, ask)
       PROVE  Promised
    BY <1>2, <1>0 DEF LetsGo, ReleasedDrafts, OpenDraft, TypeOK, Receive, Idle,
       dbVars
  <1>3. CASE Handler
    <2>1. CASE ExpireOnLoad
      BY <2>1, <1>0 DEF LetsGo, ReleasedDrafts, OpenDraft, TypeOK, ExpireOnLoad,
         LetGo, Closed, dbVars
    <2>2. CASE StartDraft
      BY <2>2, <1>0 DEF LetsGo, ReleasedDrafts, OpenDraft, TypeOK, StartDraft,
         LetGo, NewDraft, Awaiting, FreshIds, FreshKeys, Idle, dbVars
    <2>3. CASE StartElsewhere
      BY <2>3, <1>0 DEF LetsGo, ReleasedDrafts, OpenDraft, TypeOK, StartElsewhere,
         LetGo, Closed, Idle, dbVars
    <2>4. CASE ChooseCard
      <3>1. conv.draft.id \in Drafts
        BY <2>4, <1>0, OpenConv DEF ChooseCard, Draft
      <3>2. LetsGo
        BY <2>4, <1>0, <3>1 DEF LetsGo, ReleasedDrafts, OpenDraft, TypeOK,
           ChooseCard, LetGo, dbVars
      <3>3. QED
        BY <1>0, <3>2
    <2>5. CASE EditDraft
      BY <2>5, <1>0 DEF LetsGo, ReleasedDrafts, OpenDraft, TypeOK, EditDraft,
         Awaiting, Idle, dbVars
    <2>6. CASE Cancel
      BY <2>6, <1>0 DEF LetsGo, ReleasedDrafts, OpenDraft, TypeOK, Cancel, LetGo,
         Closed, Idle, dbVars
    <2>7. CASE Refuse
      BY <2>7, <1>0 DEF LetsGo, ReleasedDrafts, OpenDraft, TypeOK, Refuse, Idle,
         dbVars
    <2>8. CASE PrepareKeyed
      BY <2>8, <1>0 DEF LetsGo, ReleasedDrafts, OpenDraft, TypeOK, PrepareKeyed,
         CanSubmit, Queued, Submit, dbVars
    <2>9. CASE PrepareLegacy
      BY <2>9, <1>0 DEF LetsGo, ReleasedDrafts, OpenDraft, TypeOK, PrepareLegacy,
         CanSubmit, Queued, Submit, Conclusion, dbVars
    <2>10. CASE SaveSubmission
      BY <2>10, <1>0 DEF LetsGo, ReleasedDrafts, OpenDraft, TypeOK, SaveSubmission,
         Started, dbVars
    <2>11. CASE ConfirmStarted
      BY <2>11, <1>0 DEF LetsGo, ReleasedDrafts, OpenDraft, TypeOK, ConfirmStarted,
         Queued, dbVars
    <2>12. CASE CallSettle
      BY <2>12, <1>0 DEF LetsGo, ReleasedDrafts, OpenDraft, TypeOK, CallSettle,
         Request, dbVars
    <2>13. CASE TakeAnswer
      BY <2>13, <1>0 DEF LetsGo, ReleasedDrafts, OpenDraft, TypeOK, TakeAnswer,
         Conclusion, dbVars
    <2>14. CASE AnswerLost
      BY <2>14, <1>0 DEF LetsGo, ReleasedDrafts, OpenDraft, TypeOK, AnswerLost,
         Conclusion, dbVars
    <2>15. CASE Conclude
      BY <2>15, <1>0 DEF LetsGo, ReleasedDrafts, TypeOK, Conclude, dbVars,
         OpenDraft, IInv, TaskOnConv, Started, Awaiting, Draft
    <2>16. CASE HandlerStops
      BY <2>16, <1>0 DEF LetsGo, ReleasedDrafts, OpenDraft, TypeOK, HandlerStops,
         Idle, dbVars
    <2> QED
      BY <1>3, <2>1, <2>2, <2>3, <2>4, <2>5, <2>6, <2>7, <2>8, <2>9, <2>10, <2>11,
         <2>12, <2>13, <2>14, <2>15, <2>16 DEF Handler
  <1>4. ASSUME NEW c \in calls, ExecuteSettle(c)
        PROVE  Promised
    <2>1. ReleasedDrafts' = ReleasedDrafts
      BY <1>4 DEF ExecuteSettle, ReleasedDrafts
    <2>2. CASE SettleAnswer(c) # "settled"
      BY <1>0, <1>4, <2>1, <2>2 DEF ExecuteSettle, LetsGo
    <2>3. CASE SettleAnswer(c) = "settled"
      <3>1. ~Dead(c) /\ SameKey(c) = {} /\ rows' = rows \cup {NewRow(c)}
            /\ UnusedRid \in RowIds
        BY <1>0, <1>4, <2>3, SettledIsAlive, UnusedRidIsId DEF ExecuteSettle
      <3>2. /\ c.id \in Drafts /\ c.key \in Keys /\ c.key # NoKey
            /\ Holds(c.id, c.key)
        BY <1>0, <1>4 DEF TypeOK, Call, Holds
      <3>3. c.id \notin ReleasedDrafts
        BY <3>1 DEF IInv, ReleasedStaysUnpaid, ReleasedDrafts
      <3>4. \A r \in rows : r.key # NoKey => r.id # c.id
        BY <1>0, <3>1, <3>2 DEF IInv, KeyNamesDraft, Holds, SameKey, TypeOK, Row
      <3>5. KeyedPayments' = KeyedPayments \cup {[rid |-> UnusedRid, id |-> c.id]}
        <4>1. /\ NewRow(c).key = c.key /\ NewRow(c).rid = UnusedRid
              /\ NewRow(c).id = c.id
          BY DEF NewRow
        <4>2. {r \in rows' : r.key # NoKey}
                = {r \in rows : r.key # NoKey} \cup {NewRow(c)}
          BY <3>1, <3>2, <4>1
        <4> QED
          BY <4>1, <4>2 DEF KeyedPayments
      <3>6. Promise!Pay(c.id, UnusedRid)
        BY <2>1, <3>3, <3>4, <3>5 DEF Promise!Pay, Promise!Unpaid, KeyedPayments
      <3> QED
        BY <3>1, <3>2, <3>6 DEF Promised, Promise!Next
    <2> QED
      BY <2>2, <2>3
  <1>5. ASSUME NEW c \in calls, LoseCall(c)
       PROVE  Promised
    BY <1>5, <1>0 DEF LetsGo, ReleasedDrafts, OpenDraft, TypeOK, LoseCall, dbVars,
       botVars
  <1>6. CASE RenderForm
    BY <1>6, <1>0 DEF LetsGo, ReleasedDrafts, OpenDraft, TypeOK, RenderForm,
       FreshIds, FreshKeys, dbVars, botVars
  <1>7. CASE SubmitForm
    BY <1>7, <1>0 DEF LetsGo, ReleasedDrafts, OpenDraft, TypeOK, SubmitForm, dbVars,
       botVars
  <1>8. ASSUME NEW r \in rows, UndoPayment(r)
        PROVE  Promised
    <2>1. ReleasedDrafts' = ReleasedDrafts /\ rows' = rows \ {r}
      BY <1>8 DEF UndoPayment, ReleasedDrafts
    <2>2. CASE r.key = NoKey
      <3>1. KeyedPayments' = KeyedPayments
        BY <2>1, <2>2 DEF KeyedPayments
      <3> QED
        BY <2>1, <3>1 DEF Promised
    <2>3. CASE r.key # NoKey
      <3>1. DEFINE p == [rid |-> r.rid, id |-> r.id]
      <3>2. p \in KeyedPayments
        BY <2>3 DEF KeyedPayments
      <3>3. \A s \in rows : s.id = r.id => s = r
        BY OnePerDraft DEF OnePaymentPerDraft
      <3>4. KeyedPayments' = KeyedPayments \ {p}
        BY <2>1, <2>3, <3>3 DEF KeyedPayments
      <3>5. Promise!Undo(p)
        BY <2>1, <3>4 DEF Promise!Undo
      <3> QED
        BY <3>2, <3>5 DEF Promised, Promise!Next
    <2> QED
      BY <2>2, <2>3
  <1>9. ASSUME NEW r \in rows, EditPayment(r)
        PROVE  Promised
    <2>1. PICK m \in Amounts, day \in Days : rows' = (rows \ {r}) \cup {Edited(r, m, day)}
      BY <1>9 DEF EditPayment
    <2>2. /\ Edited(r, m, day).rid = r.rid /\ Edited(r, m, day).id = r.id
          /\ Edited(r, m, day).key = r.key
      BY <1>0, EditedRow DEF TypeOK
    <2>3. KeyedPayments' = KeyedPayments
      BY <2>1, <2>2 DEF KeyedPayments
    <2>4. ReleasedDrafts' = ReleasedDrafts
      BY <1>9 DEF EditPayment, ReleasedDrafts
    <2> QED
      BY <2>3, <2>4 DEF Promised
  <1> QED
    BY <1>0, <1>1, <1>2, <1>3, <1>4, <1>5, <1>6, <1>7, <1>8, <1>9, StepCases

\* Bot, form, database and network together implement the promise.
THEOREM PromiseKept == Spec => KeepsPromise
PROOF
  <1>1. IInv /\ [Next]_vars => [Promise!Next]_<<KeyedPayments, ReleasedDrafts>>
    BY PromiseNext DEF Promised
  <1>2. Init => Promise!Init
    BY DEF Init, StartsClean, StartsLegacy, LegacyRow, Promise!Init, KeyedPayments,
       ReleasedDrafts
  <1> QED
    BY InvariantHolds, <1>1, <1>2, PTL
       DEF Spec, KeepsPromise, Promise!Spec, Promise!promiseVars
=============================================================================
