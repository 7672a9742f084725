-------------------- MODULE InstallmentPurchase_proofs --------------------
(***************************************************************************)
(* Proofs about InstallmentPurchase, for any number of members, cards,     *)
(* months, categories, drafts and requests in flight.                      *)
(***************************************************************************)
EXTENDS InstallmentPurchase, TLAPS

USE PurchaseAssumption

Fates  == {"unused", "open", "saved", "released", "orphaned"}
AtHand == {"submitting", "ready", "naming", "waiting", "answered"}

------------------------------------------------------------------------
(* Types.                                                                *)

\* A tag picked by CHOOSE is a tag and is not in use.
LEMMA FreeTagIsFree ==
  ASSUME HasTag
  PROVE  FreeTag \in Tags /\ TagFree(FreeTag)
PROOF BY DEF HasTag, FreeTag

\* Letting the open draft go leaves every key with a fate.
LEMMA LetGoFate ==
  ASSUME TypeOK
  PROVE  LetGo(fate) \in [Keys -> Fates]
PROOF BY DEF TypeOK, LetGo, Fates, Closed

\* A conversation that is not closed holds a draft.
LEMMA OpenConv ==
  ASSUME TypeOK, conv.status # "closed"
  PROVE  /\ conv \in [status : {"awaiting", "started", "recovery"}, draft : Draft]
         /\ conv.draft \in Draft
         /\ conv.status \in {"awaiting", "started", "recovery"}
PROOF BY DEF TypeOK, Closed

\* A handler with a draft in hand is a handler.
LEMMA AtWorkTyped ==
  ASSUME NEW phase \in Phases, NEW d \in Draft, task.who \in Members
  PROVE  /\ AtWork(phase, d) \in Task
         /\ AtWork(phase, d).phase = phase
         /\ AtWork(phase, d).draft = d
         /\ AtWork(phase, d).who = task.who
PROOF BY DEF AtWork, Idle, Task, Phases, Vias, Asks

\* Idle is a handler that is not at work.
LEMMA IdleTyped == Idle \in Task /\ Idle.phase = "idle"
PROOF BY DEF Idle, Task, Phases, Vias, Asks

\* A draft with a month and a category that exists is a purchase.
LEMMA BoughtByTyped ==
  ASSUME NEW d \in Draft, Complete(d), d.month # NoMonth, d.category # Proposed
  PROVE  BoughtBy(d) \in Purchase
PROOF BY DEF Draft, Complete, BoughtBy, Purchase, Picked

\* The group of a purchase has its key and what was bought.
LEMMA GroupOfTyped ==
  ASSUME NEW k, NEW p
  PROVE  /\ GroupOf(k, p).key = k /\ GroupOf(k, p).bought = p
         /\ k \in Keys /\ p \in Purchase => GroupOf(k, p) \in Group
PROOF BY DEF GroupOf, Group

\* The initial states have the types declared for them.
LEMMA TypeInit == Init => TypeOK
PROOF
  <1> SUFFICES ASSUME Init PROVE TypeOK
    OBVIOUS
  <1>1. \A k \in Keys \cup {NoKey}, p \in Purchase : OldDraft(k, p) \in Draft
    BY DEF OldDraft, Draft, Purchase
  <1>2. /\ groups \subseteq Group
        /\ fate \in [Keys -> Fates]
        /\ \/ conv = Closed
           \/ conv \in [status : {"awaiting", "started", "recovery"}, draft : Draft]
    <2>1. CASE StartsClean
      BY <2>1 DEF StartsClean, Fates
    <2>2. CASE StartsLegacy
      <3>1. PICK p \in Purchase, k \in Keys :
              \/ /\ \E s \in {"awaiting", "started"} : conv = Holding(s, OldDraft(NoKey, p))
                 /\ groups = {}
                 /\ fate = [x \in Keys |-> "unused"]
              \/ /\ conv = Holding("started", OldDraft(k, p))
                 /\ groups \in {{}, {GroupOf(k, p)}}
                 /\ fate = [x \in Keys |-> IF x = k THEN "open" ELSE "unused"]
        BY <2>2 DEF StartsLegacy
      <3> QED
        BY <1>1, <3>1, GroupOfTyped DEF Holding, Fates
    <2> QED
      BY <2>1, <2>2 DEF Init
  <1>3. task \in Task /\ task.phase = "idle"
    BY IdleTyped DEF Init
  <1> QED
    BY <1>2, <1>3 DEF Init, TypeOK, Fates

\* Every step leaves every variable with the type declared for it.
LEMMA TypeNext ==
  ASSUME IInv, [Next]_vars
  PROVE  TypeOK'
PROOF
  <1>0. TypeOK /\ LetGo(fate) \in [Keys -> Fates] /\ Idle \in Task /\ Idle.phase = "idle"
    BY LetGoFate, IdleTyped DEF IInv
  <1>1. CASE UNCHANGED vars
    BY <1>0, <1>1 DEF TypeOK, vars, webVars
  <1>2. ASSUME NEW via \in Vias, NEW ask \in Asks, Receive(via, ask)
        PROVE  TypeOK'
    <2>1. task' \in Task /\ task'.phase = "queued" /\ task'.who \in Members
      BY <1>0, <1>2 DEF TypeOK, Receive, Idle, Task, Phases, Vias, Asks
    <2> QED
      BY <1>0, <1>2, <2>1 DEF TypeOK, Receive, webVars
  <1>3. CASE Handler
    <2>1. CASE RepairOnLoad
      <3>1. conv.draft \in Draft
        BY <1>0, <2>1, OpenConv DEF RepairOnLoad, Keyless
      <3> QED
        BY <1>0, <2>1, <3>1 DEF TypeOK, RepairOnLoad, Holding, webVars
    <2>2. CASE StartDraft
      <3>1. conv' \in [status : {"awaiting", "started", "recovery"}, draft : Draft]
        BY <1>0, <2>2 DEF TypeOK, StartDraft, Queued, Holding, Draft, Picked
      <3>2. fate' \in [Keys -> Fates]
        BY <1>0, <2>2 DEF StartDraft, Fates
      <3> QED
        BY <1>0, <2>2, <3>1, <3>2 DEF TypeOK, StartDraft, Fates, webVars
    <2>3. CASE StartElsewhere \/ Cancel
      BY <1>0, <2>3 DEF TypeOK, StartElsewhere, Cancel, Fates, webVars
    <2>4. CASE Correct \/ ChooseCategory \/ AcceptProposal
      <3>1. conv \in [status : {"awaiting", "started", "recovery"}, draft : Draft]
        BY <1>0, <2>4, OpenConv
           DEF Correct, ChooseCategory, AcceptProposal, Correcting
      <3>2. conv' \in [status : {"awaiting", "started", "recovery"}, draft : Draft]
        <4>1. CASE Correct
          <5>1. conv.draft \in Draft /\ cards \subseteq Cards
            BY <1>0, <3>1 DEF TypeOK
          <5>2. /\ \A c \in Cards : [conv.draft EXCEPT !.card = c, !.month = NoMonth] \in Draft
                /\ \A w \in Whats : [conv.draft EXCEPT !.what = w, !.month = NoMonth] \in Draft
            BY <5>1 DEF Draft
          <5>3. \E d \in Draft : conv' = Holding("awaiting", d)
            BY <4>1, <5>1, <5>2 DEF Correct
          <5> QED
            BY <5>3 DEF Holding
        <4>2. CASE ChooseCategory \/ AcceptProposal
          BY <1>0, <3>1, <4>2
             DEF TypeOK, ChooseCategory, AcceptProposal, Holding, Draft, Picked
        <4> QED
          BY <2>4, <4>1, <4>2
      <3> QED
        BY <1>0, <2>4, <3>2
           DEF TypeOK, Correct, ChooseCategory, AcceptProposal, Fates, webVars
    <2>5. CASE Refuse \/ HandlerStops
      BY <1>0, <2>5 DEF TypeOK, Refuse, HandlerStops, webVars
    <2>6. CASE Prepare
      <3>1. conv.draft \in Draft /\ task.who \in Members
        BY <1>0, <2>6, OpenConv DEF TypeOK, Prepare, Queued, OnMine, Mine
      <3>2. PICK m \in Months : task' = AtWork("submitting", [conv.draft EXCEPT !.month = m])
        BY <2>6 DEF Prepare
      <3>3. [conv.draft EXCEPT !.month = m] \in Draft
        BY <3>1 DEF Draft
      <3>4. task' \in Task /\ task'.draft \in Draft /\ task'.who \in Members
        BY <3>1, <3>2, <3>3, AtWorkTyped DEF Phases
      <3> QED
        BY <1>0, <2>6, <3>4 DEF TypeOK, Prepare, webVars
    <2>7. CASE SaveSubmission
      BY <1>0, <2>7 DEF TypeOK, SaveSubmission, Holding, Task, Phases, webVars
    <2>8. CASE ConfirmStarted
      <3>1. conv.draft \in Draft /\ task.who \in Members
        BY <1>0, <2>8, OpenConv DEF TypeOK, ConfirmStarted, Queued, OnMine, Mine
      <3>2. task' \in Task /\ task'.draft \in Draft /\ task'.who \in Members
        BY <2>8, <3>1, AtWorkTyped DEF ConfirmStarted, Phases
      <3> QED
        BY <1>0, <2>8, <3>2 DEF TypeOK, ConfirmStarted, webVars
    <2>9. CASE FindCategory
      <3>1. task' \in Task /\ task'.draft \in Draft /\ task'.who \in Members
        BY <1>0, <2>9 DEF TypeOK, FindCategory, Task, Draft, Phases, Picked
      <3> QED
        BY <1>0, <2>9, <3>1 DEF TypeOK, FindCategory, webVars
    <2>10. CASE CreateCategory
      <3>1. task' \in Task /\ task'.draft \in Draft /\ task'.who \in Members
        <4>1. PICK g \in Categories :
                task' = [task EXCEPT !.phase = "ready", !.draft.category = g]
          BY <2>10 DEF CreateCategory
        <4>2. task \in Task /\ task.draft \in Draft /\ task.who \in Members
          BY <1>0, <2>10 DEF TypeOK, CreateCategory
        <4>3. [task.draft EXCEPT !.category = g] \in Draft
          BY <4>2 DEF Draft, Picked
        <4>4. task' = [task EXCEPT !.phase = "ready",
                                   !.draft = [task.draft EXCEPT !.category = g]]
          BY <4>1, <4>2 DEF Task
        <4> QED
          BY <4>2, <4>3, <4>4 DEF Task, Phases
      <3> QED
        BY <1>0, <2>10, <3>1 DEF TypeOK, CreateCategory, webVars
    <2>11. CASE CallCreate
      <3>1. /\ task.draft \in Draft /\ task.draft.key \in Keys
            /\ Complete(task.draft) /\ task.draft.month # NoMonth
        <4>1. /\ task.draft \in Draft
              /\ task.draft = [conv.draft EXCEPT !.category = task.draft.category]
              /\ conv.status = "started" /\ conv.draft.month # NoMonth
              /\ conv.draft.key # NoKey /\ Complete(conv.draft)
          BY <1>0, <2>11 DEF TypeOK, CallCreate, IInv, TaskHoldsConv, DraftFitsStatus
        <4>2. conv.draft \in Draft
          BY <1>0, <4>1, OpenConv
        <4> QED
          BY <4>1, <4>2 DEF Draft, Complete
      <3>2. BoughtBy(task.draft) \in Purchase /\ FreeTag \in Tags
        BY <2>11, <3>1, BoughtByTyped, FreeTagIsFree DEF CallCreate
      <3>3. calls' \subseteq Call
        BY <1>0, <2>11, <3>1, <3>2 DEF TypeOK, CallCreate, Call
      <3>4. task' \in Task /\ task'.draft \in Draft /\ task'.who \in Members
        BY <1>0, <2>11, <3>1, <3>2 DEF TypeOK, CallCreate, Task, Phases
      <3> QED
        BY <1>0, <2>11, <3>3, <3>4 DEF TypeOK, CallCreate, webVars
    <2>12. CASE AnswerLost
      <3>1. task' \in Task /\ task'.draft \in Draft /\ task'.who \in Members
        BY <1>0, <2>12 DEF TypeOK, AnswerLost, Task, Phases
      <3> QED
        BY <1>0, <2>12, <3>1 DEF TypeOK, AnswerLost, webVars
    <2>13. CASE Conclude
      BY <1>0, <2>13 DEF TypeOK, Conclude, Verdict, Holding, Fates, webVars
    <2> QED
      BY <1>3, <2>1, <2>2, <2>3, <2>4, <2>5, <2>6, <2>7, <2>8, <2>9, <2>10, <2>11,
         <2>12, <2>13 DEF Handler
  <1>4. ASSUME NEW c \in calls, ExecuteCreate(c)
        PROVE  TypeOK'
    <2>1. groups' \subseteq Group /\ calls' \subseteq Call
      BY <1>0, <1>4, GroupOfTyped DEF TypeOK, ExecuteCreate, Call
    <2>2. /\ task' \in Task
          /\ task'.phase # "idle" => task'.who \in Members
          /\ task'.phase \notin {"idle", "queued"} => task'.draft \in Draft
      BY <1>0, <1>4 DEF TypeOK, ExecuteCreate, Task, Phases
    <2> QED
      BY <1>0, <1>4, <2>1, <2>2 DEF TypeOK, ExecuteCreate, webVars
  <1>5. ASSUME NEW c \in calls, LoseCall(c)
        PROVE  TypeOK'
    BY <1>0, <1>5 DEF TypeOK, LoseCall, webVars
  <1>6. CASE Web
    <2>1. ASSUME NEW g \in groups, Recategorize(g)
          PROVE  TypeOK'
      <3>1. groups' \subseteq Group
        BY <1>0, <2>1 DEF TypeOK, Recategorize, Group, Purchase, Picked
      <3> QED
        BY <1>0, <2>1, <3>1 DEF TypeOK, Recategorize, webVars
    <2>2. ASSUME NEW s \in known, NEW t \in known, Merge(s, t)
          PROVE  TypeOK'
      <3>1. groups' \subseteq Group
        BY <1>0, <2>2 DEF TypeOK, Merge, Group, Purchase, Picked
      <3> QED
        BY <1>0, <2>2, <3>1 DEF TypeOK, Merge, webVars
    <2>5. ASSUME NEW g \in groups, LinkStatement(g)
          PROVE  TypeOK'
      <3>1. groups' \subseteq Group
        BY <1>0, <2>5 DEF TypeOK, LinkStatement, Group
      <3> QED
        BY <1>0, <2>5, <3>1 DEF TypeOK, LinkStatement, webVars
    <2>3. CASE CreateOnWeb
      BY <1>0, <2>3 DEF TypeOK, CreateOnWeb
    <2>4. ASSUME NEW c \in cards, DeleteCard(c)
          PROVE  TypeOK'
      BY <1>0, <2>4 DEF TypeOK, DeleteCard
    <2> QED
      BY <1>6, <2>1, <2>2, <2>3, <2>4, <2>5 DEF Web
  <1>7. CASE World
    BY <1>0, <1>7 DEF TypeOK, World, SetMembership, Link, Unlink
  <1> QED
    BY <1>1, <1>2, <1>3, <1>4, <1>5, <1>6, <1>7 DEF Next, Database

------------------------------------------------------------------------
(* The shapes of steps.                                                  *)

\* Nothing of a draft changes; a handler at work stays or is gone.
Aside == /\ UNCHANGED <<groups, conv, calls, fate>>
         /\ task' = task \/ task'.phase \in {"idle", "queued"}

\* The draft is corrected and stays editable under its key.
Edited == /\ UNCHANGED <<groups, calls, fate>>
          /\ task' = Idle
          /\ conv.status = "awaiting" /\ conv'.status = "awaiting"
          /\ conv'.draft.key = conv.draft.key
          /\ conv'.draft.month = NoMonth

\* The conversation closes without a purchase.
Freed == /\ UNCHANGED <<groups, calls>>
         /\ task' = Idle
         /\ conv' = Closed
         /\ fate' = LetGo(fate)

\* Two groups with the same key and parcels.
Alike(g, h) == g.key = h.key /\ SameSchedule(g.bought, h.bought)

\* The saved purchases keep their keys and parcels.
Regrouped == /\ UNCHANGED <<conv, task, calls, fate>>
             /\ \A h \in groups' : \E g \in groups : Alike(g, h)
             /\ \A g \in groups : \E h \in groups' : Alike(g, h)
             /\ OneGroupPerDraft'

\* A changed category leaves the rest of a group as it is.
LEMMA RecategorizedAlike ==
  ASSUME NEW g \in Group, NEW c
  PROVE  Alike(g, [g EXCEPT !.bought.category = c])
PROOF
  <1>1. /\ g.bought \in Purchase
        /\ [g EXCEPT !.bought.category = c].key = g.key
        /\ [g EXCEPT !.bought.category = c].bought = [g.bought EXCEPT !.category = c]
    BY DEF Group
  <1>2. SameSchedule(g.bought, [g.bought EXCEPT !.category = c])
    BY <1>1 DEF SameSchedule, Purchase
  <1> QED
    BY <1>1, <1>2 DEF Alike

\* Changing one purchase in its category or its name keeps keys and parcels.
LEMMA RegroupedOne ==
  ASSUME IInv, NEW g \in groups, NEW n, Alike(g, n),
         groups' = (groups \ {g}) \cup {n},
         UNCHANGED <<conv, task, calls, fate>>
  PROVE  Regrouped
PROOF
  <1>1. n.key = g.key
    BY DEF Alike
  <1>2. \A h \in groups : Alike(h, h)
    BY DEF Alike, SameSchedule
  <1>3. OneGroupPerDraft'
    BY <1>1 DEF IInv, OneGroupPerDraft
  <1>4. /\ \A h \in groups' : \E f \in groups : Alike(f, h)
        /\ \A f \in groups : \E h \in groups' : Alike(f, h)
    BY <1>2
  <1> QED
    BY <1>3, <1>4 DEF Regrouped

LEMMA OneChangeShape ==
  ASSUME IInv, NEW g \in groups, Recategorize(g) \/ LinkStatement(g)
  PROVE  Regrouped
PROOF
  <1>1. g \in Group /\ UNCHANGED <<conv, task, calls, fate>>
    BY DEF IInv, TypeOK, Recategorize, LinkStatement
  <1>2. CASE Recategorize(g)
    <2>1. PICK c : groups' = (groups \ {g}) \cup {[g EXCEPT !.bought.category = c]}
      BY <1>2 DEF Recategorize
    <2> QED
      BY <1>1, <2>1, RecategorizedAlike, RegroupedOne
  <1>3. CASE LinkStatement(g)
    <2>1. Alike(g, [g EXCEPT !.name = "bank"])
      BY <1>1 DEF Alike, SameSchedule, Group
    <2> QED
      BY <1>1, <1>3, <2>1, RegroupedOne DEF LinkStatement
  <1> QED
    BY <1>2, <1>3

\* So does merging two categories.
LEMMA MergeShape ==
  ASSUME IInv, NEW s, NEW t, Merge(s, t)
  PROVE  Regrouped
PROOF
  <1>1. DEFINE n(g) == IF g.bought.category = s THEN [g EXCEPT !.bought.category = t]
                       ELSE g
  <1>2. groups' = {n(g) : g \in groups}
    BY DEF Merge
  <1>3. \A g \in groups : Alike(g, n(g)) /\ n(g).key = g.key
    BY RecategorizedAlike DEF IInv, TypeOK, Alike, SameSchedule
  <1>4. OneGroupPerDraft'
    <2>1. SUFFICES ASSUME NEW x \in groups', NEW y \in groups', x.key = y.key
                   PROVE  x = y
      BY DEF OneGroupPerDraft
    <2>2. PICK f \in groups, g \in groups : x = n(f) /\ y = n(g)
      BY <1>2
    <2>3. n(f).key = f.key /\ n(g).key = g.key
      BY <1>3
    <2>4. f = g
      BY <2>1, <2>2, <2>3 DEF IInv, OneGroupPerDraft
    <2> QED
      BY <2>2, <2>4
  <1>5. /\ \A h \in groups' : \E f \in groups : Alike(f, h)
        /\ \A f \in groups : \E h \in groups' : Alike(f, h)
    BY <1>2, <1>3
  <1> QED
    BY <1>4, <1>5 DEF Merge, Regrouped

\* Every step has one of these shapes or is one of the steps that send, save or
\* conclude.
LEMMA StepCases ==
  ASSUME IInv, [Next]_vars
  PROVE  \/ Aside \/ Edited \/ Freed \/ Regrouped
         \/ RepairOnLoad \/ StartDraft
         \/ Prepare \/ SaveSubmission \/ ConfirmStarted
         \/ FindCategory \/ CreateCategory \/ CallCreate
         \/ \E c \in calls : ExecuteCreate(c) \/ LoseCall(c)
         \/ AnswerLost \/ Conclude
PROOF
  <1>1. CASE UNCHANGED vars
    BY <1>1 DEF vars, Aside
  <1>2. ASSUME NEW via \in Vias, NEW ask \in Asks, Receive(via, ask)
        PROVE  Aside
    BY <1>2 DEF Receive, Aside, Idle
  <1>3. Refuse \/ HandlerStops => Aside
    BY DEF Refuse, HandlerStops, Aside, Idle
  <1>4. StartElsewhere \/ Cancel => Freed
    BY DEF StartElsewhere, Cancel, Freed
  <1>5. Correct \/ ChooseCategory \/ AcceptProposal => Edited
    <2>1. SUFFICES ASSUME Correct \/ ChooseCategory \/ AcceptProposal
                   PROVE  Edited
      OBVIOUS
    <2>2. conv.draft \in Draft /\ conv.draft.month = NoMonth /\ conv.status = "awaiting"
      BY <2>1, OpenConv
         DEF Correct, ChooseCategory, AcceptProposal, Correcting, IInv, DraftFitsStatus
    <2>3. PICK d : /\ conv' = Holding("awaiting", d)
                   /\ \/ \E c \in cards : d = [conv.draft EXCEPT !.card = c, !.month = NoMonth]
                      \/ \E w \in Whats : d = [conv.draft EXCEPT !.what = w, !.month = NoMonth]
                      \/ \E g : d = [conv.draft EXCEPT !.category = g]
      BY <2>1 DEF Correct, ChooseCategory, AcceptProposal
    <2>4. d.key = conv.draft.key /\ d.month = NoMonth
      BY <2>2, <2>3 DEF Draft
    <2>5. UNCHANGED <<groups, calls, fate>> /\ task' = Idle
      BY <2>1 DEF Correct, ChooseCategory, AcceptProposal
    <2> QED
      BY <2>2, <2>3, <2>4, <2>5 DEF Edited, Holding
  <1>6. CASE Web
    BY <1>6, OneChangeShape, MergeShape DEF Web, CreateOnWeb, DeleteCard, Aside
  <1>7. CASE World
    BY <1>7 DEF World, SetMembership, Link, Unlink, Aside
  <1> QED
    BY <1>1, <1>2, <1>3, <1>4, <1>5, <1>6, <1>7 DEF Next, Handler, Database

\* What a handler at work has in hand.
LEMMA InHand ==
  ASSUME IInv, task.phase \in AtHand
  PROVE  /\ conv \in [status : {"awaiting", "started", "recovery"}, draft : Draft]
         /\ conv.draft \in Draft /\ task.draft \in Draft
         /\ conv.draft.key \in Keys /\ Complete(conv.draft)
         /\ task.draft.key = conv.draft.key /\ task.draft.card = conv.draft.card
         /\ task.draft.what = conv.draft.what /\ task.draft.month \in Months
         /\ task.phase = "submitting" => /\ Submittable
                                         /\ conv.draft.month = NoMonth
         /\ task.phase # "submitting" => /\ conv.status = "started"
                                         /\ task.draft.month = conv.draft.month
PROOF
  <1>1. /\ conv \in [status : {"awaiting", "started", "recovery"}, draft : Draft]
        /\ conv.draft \in Draft /\ task.draft \in Draft
        /\ conv.draft.key \in Keys
    <2>1. conv.status # "closed"
      BY DEF IInv, TaskHoldsConv, Submittable, AtHand
    <2>2. task.draft \in Draft /\ conv.draft.key # NoKey
      BY DEF IInv, TypeOK, TaskHoldsConv, AtHand
    <2> QED
      BY <2>1, <2>2, OpenConv DEF IInv, Draft
  <1>2. CASE task.phase = "submitting"
    <2>1. /\ Submittable /\ Complete(conv.draft) /\ task.draft.month # NoMonth
          /\ task.draft = [conv.draft EXCEPT !.month = task.draft.month]
      BY <1>2 DEF IInv, TaskHoldsConv
    <2>2. conv.draft.month = NoMonth
      BY <2>1 DEF Submittable, IInv, DraftFitsStatus
    <2> QED
      BY <1>1, <1>2, <2>1, <2>2 DEF Draft
  <1>3. CASE task.phase # "submitting"
    <2>1. /\ conv.status = "started" /\ conv.draft.month # NoMonth
          /\ task.draft = [conv.draft EXCEPT !.category = task.draft.category]
      BY <1>3 DEF IInv, TaskHoldsConv, AtHand
    <2>2. Complete(conv.draft)
      BY <2>1 DEF IInv, DraftFitsStatus
    <2> QED
      BY <1>1, <1>3, <2>1, <2>2 DEF Draft
  <1> QED
    BY <1>2, <1>3

\* A request that succeeds is in the purchases afterwards, which otherwise stay.
LEMMA Executed ==
  ASSUME IInv, NEW c \in calls, ExecuteCreate(c)
  PROVE  /\ c.key \in Keys
         /\ groups \subseteq groups'
         /\ \A g \in groups' : g \in groups \/ (g.key = c.key /\ g.bought = c.bought)
         /\ Succeeds(c) => \E g \in groups' : g.key = c.key /\ g.bought = c.bought
         /\ SameKey(c.key) # {} => groups' = groups
PROOF
  <1>1. c \in Call /\ groups \subseteq Group
    BY DEF IInv, TypeOK
  <1>2. ASSUME SameKey(c.key) # {}
        PROVE  groups' = groups
    <2>1. CASE Succeeds(c)
      <3>1. PICK g \in groups : g.key = c.key
        BY <1>2 DEF SameKey
      <3>2. g = GroupOf(c.key, c.bought)
        BY <1>2, <2>1, <3>1 DEF Succeeds, Replays, SameKey
      <3> QED
        BY <2>1, <3>2 DEF ExecuteCreate
    <2>2. CASE ~Succeeds(c)
      BY <2>2 DEF ExecuteCreate
    <2> QED
      BY <2>1, <2>2
  <1>3. ASSUME Succeeds(c)
        PROVE  \E g \in groups' : g.key = c.key /\ g.bought = c.bought
    <2>1. GroupOf(c.key, c.bought) \in groups'
      BY <1>3 DEF ExecuteCreate
    <2> QED
      BY <2>1, GroupOfTyped
  <1>4. /\ groups \subseteq groups'
        /\ \A g \in groups' : g \in groups \/ (g.key = c.key /\ g.bought = c.bought)
    BY GroupOfTyped DEF ExecuteCreate
  <1> QED
    BY <1>1, <1>2, <1>3, <1>4 DEF Call

------------------------------------------------------------------------
(* The inductive invariant, one lemma for each of its parts.             *)

\* The initial states satisfy the invariant.
LEMMA InitInv == Init => IInv
PROOF
  <1> SUFFICES ASSUME Init PROVE IInv
    OBVIOUS
  <1>1. TypeOK /\ calls = {} /\ task.phase = "idle"
    BY TypeInit, IdleTyped DEF Init
  <1>2. CASE StartsClean
    BY <1>1, <1>2
       DEF StartsClean, IInv, OneGroupPerDraft, EditableMeansUnsaved,
           ReleasedStaysUnsaved, ScheduleIsPinned, KeysAreFresh, Holds,
           DraftFitsStatus, SubmittedAsHeld, TaskHoldsConv, AnswerIsOwn, Closed
  <1>3. CASE StartsLegacy
    <2>1. PICK p \in Purchase, k \in Keys :
            \/ /\ \E s \in {"awaiting", "started"} : conv = Holding(s, OldDraft(NoKey, p))
               /\ groups = {}
               /\ fate = [x \in Keys |-> "unused"]
            \/ /\ conv = Holding("started", OldDraft(k, p))
               /\ groups \in {{}, {GroupOf(k, p)}}
               /\ fate = [x \in Keys |-> IF x = k THEN "open" ELSE "unused"]
      BY <1>3 DEF StartsLegacy
    <2>2. Complete(OldDraft(NoKey, p)) /\ Complete(OldDraft(k, p))
      BY DEF Complete, OldDraft, Purchase
    <2>3. /\ OneGroupPerDraft /\ ScheduleIsPinned /\ TaskHoldsConv /\ AnswerIsOwn
          /\ EditableMeansUnsaved /\ ReleasedStaysUnsaved
      BY <1>1, <2>1
         DEF OneGroupPerDraft, ScheduleIsPinned, TaskHoldsConv, AnswerIsOwn,
             EditableMeansUnsaved, ReleasedStaysUnsaved, Holding
    <2>4. KeysAreFresh
      BY <1>1, <2>1, GroupOfTyped DEF KeysAreFresh, Holds, Holding, OldDraft
    <2>5. DraftFitsStatus
      BY <2>1, <2>2 DEF DraftFitsStatus, Holding, OldDraft
    <2>6. SubmittedAsHeld
      BY <1>1, <2>1, GroupOfTyped DEF SubmittedAsHeld, Holding, OldDraft
    <2> QED
      BY <1>1, <2>3, <2>4, <2>5, <2>6 DEF IInv
  <1> QED
    BY <1>2, <1>3 DEF Init

\* Before its month is pinned, nothing of a draft is on its way.
LEMMA NothingSent ==
  ASSUME IInv, Submittable
  PROVE  \A c \in calls : c.key # conv.draft.key
PROOF
  <1>1. CASE conv.status = "awaiting"
    BY <1>1 DEF IInv, EditableMeansUnsaved
  <1>2. CASE conv.status = "started" /\ conv.draft.month = NoMonth
    BY <1>2 DEF IInv, SubmittedAsHeld, SameSchedule, BoughtBy, TypeOK, Call, Purchase
  <1> QED
    BY <1>1, <1>2 DEF Submittable

\* Letting the open draft go touches the fate of its key only.
LEMMA LetGoShape ==
  ASSUME IInv, NEW k \in Keys
  PROVE  /\ LetGo(fate)[k] = "unused" => fate[k] = "unused"
         /\ LetGo(fate)[k] # "open"
         /\ LetGo(fate)[k] = "released" =>
              fate[k] = "released" \/ (conv.status = "awaiting" /\ conv.draft.key = k)
         /\ fate[k] = "unused" => LetGo(fate)[k] = "unused"
PROOF
  <1>1. CASE Holds(k)
    BY <1>1 DEF IInv, TypeOK, KeysAreFresh, LetGo, Holds
  <1>2. CASE ~Holds(k)
    BY <1>2 DEF IInv, TypeOK, KeysAreFresh, LetGo, Holds
  <1> QED
    BY <1>1, <1>2

\* The request a handler sends is of the draft the conversation holds.
LEMMA CallShape ==
  ASSUME IInv, CallCreate
  PROVE  \E c : /\ calls' = calls \cup {c}
                /\ c.tag = FreeTag /\ TagFree(FreeTag)
                /\ c.key = conv.draft.key /\ c.key \in Keys /\ fate[c.key] = "open"
                /\ SameSchedule(c.bought, BoughtBy(conv.draft))
PROOF
  <1>1. DEFINE c == [tag |-> FreeTag, key |-> task.draft.key, bought |-> BoughtBy(task.draft)]
  <1>2. calls' = calls \cup {c} /\ TagFree(FreeTag) /\ task.phase = "ready"
    BY FreeTagIsFree DEF CallCreate
  <1>3. /\ conv.status = "started" /\ conv.draft.key \in Keys
        /\ task.draft.key = conv.draft.key /\ task.draft.card = conv.draft.card
        /\ task.draft.what = conv.draft.what /\ task.draft.month = conv.draft.month
    BY <1>2, InHand DEF AtHand
  <1>4. fate[conv.draft.key] = "open"
    BY <1>3 DEF IInv, KeysAreFresh, Holds
  <1>5. /\ c.tag = FreeTag /\ c.key = conv.draft.key
        /\ SameSchedule(c.bought, BoughtBy(conv.draft))
    BY <1>3 DEF SameSchedule, BoughtBy
  <1> HIDE DEF c
  <1> QED
    BY <1>2, <1>3, <1>4, <1>5

\* The new draft has a key nobody has used.
LEMMA StartShape ==
  ASSUME IInv, StartDraft
  PROVE  \E k \in Keys :
           /\ fate[k] = "unused" /\ LetGo(fate)[k] = "unused"
           /\ conv'.status = "awaiting" /\ conv'.draft.key = k
           /\ conv'.draft.month = NoMonth
           /\ fate' = [LetGo(fate) EXCEPT ![k] = "open"]
           /\ task' = Idle /\ UNCHANGED <<groups, calls>>
PROOF
  <1>1. PICK k \in Keys : /\ fate[k] = "unused"
                          /\ conv'.status = "awaiting" /\ conv'.draft.key = k
                          /\ conv'.draft.month = NoMonth
                          /\ fate' = [LetGo(fate) EXCEPT ![k] = "open"]
    <2>1. PICK k \in Keys, c \in cards \cup {NoCard}, w \in Whats \cup {NoWhat},
             g \in known \cup {NoCategory, Proposed} :
            /\ fate[k] = "unused"
            /\ conv' = Holding("awaiting",
                 [key |-> k, card |-> c, what |-> w, month |-> NoMonth,
                  category |-> g, by |-> task.who])
            /\ fate' = [LetGo(fate) EXCEPT ![k] = "open"]
      BY DEF StartDraft
    <2> QED
      BY <2>1 DEF Holding
  <1>2. LetGo(fate)[k] = "unused"
    BY <1>1, LetGoShape
  <1> QED
    BY <1>1, <1>2 DEF StartDraft

\* The conversation is closed with a purchase or keeps the draft it submitted.
LEMMA ConcludeShape ==
  ASSUME IInv, Conclude
  PROVE  /\ task' = Idle /\ UNCHANGED <<groups, calls>>
         /\ conv.status = "started" /\ conv.draft.key \in Keys
         /\ task.draft.key = conv.draft.key
         /\ \/ /\ task.answer = "created" /\ conv' = Closed
               /\ fate' = [fate EXCEPT ![conv.draft.key] = "saved"]
            \/ /\ conv' = Holding("started", task.draft)
               /\ task.draft.card = conv.draft.card /\ task.draft.what = conv.draft.what
               /\ task.draft.month = conv.draft.month
               /\ fate' = fate
PROOF
  <1>1. task.phase = "answered" /\ task' = Idle /\ UNCHANGED <<groups, calls>>
    BY DEF Conclude
  <1>2. /\ conv.status = "started" /\ conv.draft.key \in Keys
        /\ task.draft.key = conv.draft.key /\ task.draft.card = conv.draft.card
        /\ task.draft.what = conv.draft.what /\ task.draft.month = conv.draft.month
    BY <1>1, InHand DEF AtHand
  <1>3. \/ /\ task.answer = "created" /\ conv' = Closed
           /\ fate' = [fate EXCEPT ![task.draft.key] = "saved"]
        \/ conv' = Holding("started", task.draft) /\ fate' = fate
    BY DEF Conclude, Verdict
  <1> QED
    BY <1>1, <1>2, <1>3

\* Submitting saves the draft with its month and its key.
LEMMA SaveShape ==
  ASSUME IInv, SaveSubmission
  PROVE  /\ conv' = Holding("started", task.draft)
         /\ task'.phase = "ready" /\ task'.draft = task.draft
         /\ UNCHANGED <<groups, calls, fate>>
         /\ conv.status # "closed" /\ conv.draft.key \in Keys
         /\ task.draft.key = conv.draft.key /\ task.draft.month \in Months
         /\ Complete(task.draft) /\ Submittable
PROOF
  <1>1. task.phase = "submitting" /\ task \in Task
    BY DEF SaveSubmission, IInv, TypeOK
  <1>2. Submittable /\ conv.draft.key \in Keys /\ Complete(task.draft)
        /\ task.draft.key = conv.draft.key /\ task.draft.month \in Months
    BY <1>1, InHand DEF AtHand, Complete
  <1>3. conv.status # "closed"
    BY <1>2 DEF Submittable
  <1> QED
    BY <1>1, <1>2, <1>3 DEF SaveSubmission, Task

\* Steps at work that touch nothing but the handler's own record.
Thinking == Prepare \/ ConfirmStarted \/ FindCategory \/ CreateCategory \/ AnswerLost

LEMMA ThinkingShape ==
  Thinking => UNCHANGED <<groups, conv, calls, fate>>
PROOF BY DEF Thinking, Prepare, ConfirmStarted, FindCategory, CreateCategory, AnswerLost

\* A key has one purchase: the database inserts nothing under a key it has.
LEMMA OneGroupNext ==
  ASSUME IInv, [Next]_vars
  PROVE  OneGroupPerDraft'
PROOF
  <1>1. CASE groups' = groups
    BY <1>1 DEF IInv, OneGroupPerDraft
  <1>2. CASE Regrouped
    BY <1>2 DEF Regrouped
  <1>3. ASSUME NEW c \in calls, ExecuteCreate(c)
        PROVE  OneGroupPerDraft'
    <2>1. CASE SameKey(c.key) # {}
      BY <1>1, <1>3, <2>1, Executed
    <2>2. CASE SameKey(c.key) = {}
      BY <1>3, <2>2, GroupOfTyped DEF ExecuteCreate, SameKey, IInv, OneGroupPerDraft
    <2> QED
      BY <2>1, <2>2
  <1>4. \/ Regrouped \/ groups' = groups \/ \E c \in calls : ExecuteCreate(c)
    BY StepCases, ThinkingShape, StartShape, SaveShape, ConcludeShape
       DEF Aside, Edited, Freed, Thinking, RepairOnLoad, CallCreate, LoseCall
  <1> QED
    BY <1>1, <1>2, <1>3, <1>4

\* Keys are minted fresh, and open exactly while the conversation holds them.
LEMMA FreshNext ==
  ASSUME IInv, [Next]_vars
  PROVE  KeysAreFresh'
PROOF
  <1>0. KeysAreFresh /\ TypeOK
    BY DEF IInv
  <1>1. CASE Aside \/ Thinking
    BY <1>0, <1>1, ThinkingShape DEF Aside, KeysAreFresh, Holds
  <1>2. CASE Edited
    BY <1>0, <1>2 DEF Edited, KeysAreFresh, Holds
  <1>3. CASE Freed
    BY <1>0, <1>3, LetGoShape DEF Freed, KeysAreFresh, Holds, Closed
  <1>4. CASE Regrouped
    BY <1>0, <1>4 DEF Regrouped, Alike, KeysAreFresh, Holds
  <1>5. CASE RepairOnLoad
    BY <1>0, <1>5 DEF RepairOnLoad, Keyless, Holding, KeysAreFresh, Holds
  <1>6. CASE StartDraft
    <2>1. PICK k \in Keys :
           /\ fate[k] = "unused" /\ LetGo(fate)[k] = "unused"
           /\ conv'.status = "awaiting" /\ conv'.draft.key = k
           /\ fate' = [LetGo(fate) EXCEPT ![k] = "open"]
           /\ UNCHANGED <<groups, calls>>
      BY <1>6, StartShape
    <2>2. LetGo(fate) \in [Keys -> Fates]
      BY <1>0, LetGoFate
    <2>3. \A j \in Keys : j # k => fate'[j] = LetGo(fate)[j]
      BY <2>1, <2>2
    <2>4. fate'[k] = "open"
      BY <2>1, <2>2
    <2> QED
      BY <1>0, <2>1, <2>3, <2>4, LetGoShape DEF KeysAreFresh, Holds
  <1>7. CASE SaveSubmission
    <2>1. /\ conv'.status = "started" /\ conv'.draft.key = conv.draft.key
          /\ conv.status # "closed" /\ UNCHANGED <<groups, calls, fate>>
      BY <1>7, SaveShape DEF Holding
    <2> QED
      BY <1>0, <2>1 DEF KeysAreFresh, Holds
  <1>8. CASE CallCreate
    <2>1. PICK c : /\ calls' = calls \cup {c} /\ c.key \in Keys
                   /\ fate[c.key] = "open"
      BY <1>8, CallShape
    <2>2. UNCHANGED <<groups, conv, fate>>
      BY <1>8 DEF CallCreate
    <2> QED
      BY <1>0, <2>1, <2>2 DEF KeysAreFresh, Holds
  <1>9. ASSUME NEW c \in calls, ExecuteCreate(c) \/ LoseCall(c)
        PROVE  KeysAreFresh'
    <2>1. /\ calls' \subseteq calls /\ UNCHANGED <<conv, fate>>
          /\ \A g \in groups' : g \in groups \/ g.key = c.key
      BY <1>9, Executed DEF ExecuteCreate, LoseCall
    <2> QED
      BY <1>0, <2>1 DEF KeysAreFresh, Holds
  <1>10. CASE Conclude
    <2>1. CASE conv' = Closed /\ fate' = [fate EXCEPT ![conv.draft.key] = "saved"]
      <3>1. UNCHANGED <<groups, calls>> /\ conv.draft.key \in Keys
        BY <1>10, ConcludeShape
      <3>2. \A k \in Keys : fate'[k] = IF k = conv.draft.key THEN "saved" ELSE fate[k]
        BY <1>0, <2>1 DEF TypeOK
      <3> QED
        BY <1>0, <2>1, <3>1, <3>2 DEF KeysAreFresh, Holds, Closed
    <2>2. CASE conv' = Holding("started", task.draft) /\ fate' = fate
      <3>1. /\ UNCHANGED <<groups, calls>> /\ conv.status = "started"
            /\ task.draft.key = conv.draft.key
        BY <1>10, ConcludeShape
      <3> QED
        BY <1>0, <2>2, <3>1 DEF KeysAreFresh, Holds, Holding
    <2> QED
      BY <1>10, <2>1, <2>2, ConcludeShape
  <1> QED
    BY <1>1, <1>2, <1>3, <1>4, <1>5, <1>6, <1>7, <1>8, <1>9, <1>10, StepCases
       DEF Thinking

\* What can be edited is not saved and nothing of it is on its way.
LEMMA EditableNext ==
  ASSUME IInv, [Next]_vars
  PROVE  EditableMeansUnsaved'
PROOF
  <1>0. EditableMeansUnsaved
    BY DEF IInv
  <1>1. CASE Aside \/ Thinking
    BY <1>0, <1>1, ThinkingShape DEF Aside, EditableMeansUnsaved
  <1>2. CASE Edited
    BY <1>0, <1>2 DEF Edited, EditableMeansUnsaved
  <1>3. CASE Freed
    BY <1>3 DEF Freed, EditableMeansUnsaved, Closed
  <1>4. CASE Regrouped
    BY <1>0, <1>4 DEF Regrouped, Alike, EditableMeansUnsaved
  <1>5. CASE RepairOnLoad
    BY <1>5 DEF RepairOnLoad, Holding, EditableMeansUnsaved
  <1>6. CASE StartDraft
    BY <1>6, StartShape DEF IInv, KeysAreFresh, EditableMeansUnsaved
  <1>7. CASE SaveSubmission
    BY <1>7, SaveShape DEF Holding, EditableMeansUnsaved
  <1>8. CASE CallCreate
    <2>1. conv.status = "started" /\ conv' = conv
      BY <1>8, InHand DEF CallCreate, AtHand
    <2> QED
      BY <2>1 DEF EditableMeansUnsaved
  <1>9. ASSUME NEW c \in calls, ExecuteCreate(c) \/ LoseCall(c)
        PROVE  EditableMeansUnsaved'
    <2>1. /\ calls' \subseteq calls /\ UNCHANGED conv
          /\ \A g \in groups' : g \in groups \/ g.key = c.key
      BY <1>9, Executed DEF ExecuteCreate, LoseCall
    <2> QED
      BY <1>0, <2>1 DEF EditableMeansUnsaved
  <1>10. CASE Conclude
    BY <1>10, ConcludeShape DEF Closed, Holding, EditableMeansUnsaved
  <1> QED
    BY <1>1, <1>2, <1>3, <1>4, <1>5, <1>6, <1>7, <1>8, <1>9, <1>10, StepCases
       DEF Thinking

\* A draft let go of while editable stays unsaved.
LEMMA ReleasedNext ==
  ASSUME IInv, [Next]_vars
  PROVE  ReleasedStaysUnsaved'
PROOF
  <1>0. ReleasedStaysUnsaved /\ TypeOK /\ EditableMeansUnsaved
    BY DEF IInv
  <1>1. CASE Aside \/ Thinking \/ Edited
    BY <1>0, <1>1, ThinkingShape DEF Aside, Edited, ReleasedStaysUnsaved
  <1>2. CASE Freed
    BY <1>0, <1>2, LetGoShape DEF Freed, ReleasedStaysUnsaved, EditableMeansUnsaved
  <1>3. CASE Regrouped
    BY <1>0, <1>3 DEF Regrouped, Alike, ReleasedStaysUnsaved
  <1>4. CASE RepairOnLoad
    BY <1>0, <1>4 DEF RepairOnLoad, ReleasedStaysUnsaved
  <1>5. CASE StartDraft
    <2>1. PICK k \in Keys : /\ fate' = [LetGo(fate) EXCEPT ![k] = "open"]
                            /\ UNCHANGED <<groups, calls>>
      BY <1>5, StartShape
    <2>2. \A j \in Keys : fate'[j] = IF j = k THEN "open" ELSE LetGo(fate)[j]
      BY <1>0, <2>1, LetGoFate
    <2> QED
      BY <1>0, <2>1, <2>2, LetGoShape DEF ReleasedStaysUnsaved, EditableMeansUnsaved
  <1>6. CASE SaveSubmission
    BY <1>0, <1>6, SaveShape DEF ReleasedStaysUnsaved
  <1>7. CASE CallCreate
    <2>1. PICK c : calls' = calls \cup {c} /\ fate[c.key] = "open"
      BY <1>7, CallShape
    <2>2. UNCHANGED <<groups, fate>>
      BY <1>7 DEF CallCreate
    <2> QED
      BY <1>0, <2>1, <2>2 DEF ReleasedStaysUnsaved
  <1>8. ASSUME NEW c \in calls, ExecuteCreate(c) \/ LoseCall(c)
        PROVE  ReleasedStaysUnsaved'
    <2>1. /\ calls' \subseteq calls /\ UNCHANGED fate
          /\ \A g \in groups' : g \in groups \/ g.key = c.key
      BY <1>8, Executed DEF ExecuteCreate, LoseCall
    <2> QED
      BY <1>0, <2>1 DEF ReleasedStaysUnsaved
  <1>9. CASE Conclude
    <2>1. /\ UNCHANGED <<groups, calls>>
          /\ \/ fate' = fate
             \/ fate' = [fate EXCEPT ![conv.draft.key] = "saved"]
      BY <1>9, ConcludeShape
    <2>2. \A k \in Keys : fate'[k] \in {fate[k], "saved"}
      BY <1>0, <2>1 DEF TypeOK
    <2> QED
      BY <1>0, <2>1, <2>2 DEF ReleasedStaysUnsaved
  <1> QED
    BY <1>1, <1>2, <1>3, <1>4, <1>5, <1>6, <1>7, <1>8, <1>9, StepCases
       DEF Thinking

\* All that is sent and saved for a draft has the same parcels.
LEMMA ScheduleNext ==
  ASSUME IInv, [Next]_vars
  PROVE  ScheduleIsPinned'
PROOF
  <1>0. ScheduleIsPinned
    BY DEF IInv
  <1>1. CASE UNCHANGED <<groups, calls>>
    BY <1>0, <1>1 DEF ScheduleIsPinned
  <1>2. CASE Regrouped
    BY <1>0, <1>2 DEF Regrouped, Alike, SameSchedule, ScheduleIsPinned
  <1>3. CASE CallCreate
    <2>1. PICK c : /\ calls' = calls \cup {c} /\ c.key = conv.draft.key
                   /\ SameSchedule(c.bought, BoughtBy(conv.draft))
      BY <1>3, CallShape
    <2>2. conv.status = "started" /\ conv.draft.month # NoMonth /\ groups' = groups
      BY <1>3 DEF CallCreate, IInv, TaskHoldsConv
    <2>3. /\ \A d \in calls : d.key = c.key => SameSchedule(d.bought, c.bought)
          /\ \A g \in groups : g.key = c.key => SameSchedule(c.bought, g.bought)
      BY <2>1, <2>2 DEF IInv, SubmittedAsHeld, SameSchedule, BoughtBy
    <2> QED
      BY <1>0, <2>1, <2>2, <2>3 DEF ScheduleIsPinned, SameSchedule
  <1>4. ASSUME NEW c \in calls, ExecuteCreate(c) \/ LoseCall(c)
        PROVE  ScheduleIsPinned'
    <2>1. /\ calls' \subseteq calls
          /\ \A g \in groups' : g \in groups \/ (g.key = c.key /\ g.bought = c.bought)
      BY <1>4, Executed DEF ExecuteCreate, LoseCall
    <2> QED
      BY <1>0, <2>1 DEF ScheduleIsPinned
  <1> QED
    BY <1>1, <1>2, <1>3, <1>4, StepCases, ThinkingShape, StartShape, SaveShape,
       ConcludeShape DEF Aside, Edited, Freed, RepairOnLoad, Thinking

\* Submitting pins the month of a complete draft, and nothing else does.
LEMMA FitsNext ==
  ASSUME IInv, [Next]_vars
  PROVE  DraftFitsStatus'
PROOF
  <1>0. DraftFitsStatus
    BY DEF IInv
  <1>1. CASE UNCHANGED conv
    BY <1>0, <1>1 DEF DraftFitsStatus, Complete
  <1>2. CASE Edited
    BY <1>2 DEF Edited, DraftFitsStatus
  <1>3. CASE Freed
    BY <1>3 DEF Freed, Closed, DraftFitsStatus
  <1>4. CASE RepairOnLoad
    BY <1>4 DEF RepairOnLoad, Keyless, Holding, DraftFitsStatus
  <1>5. CASE StartDraft
    BY <1>5, StartShape DEF DraftFitsStatus
  <1>6. CASE SaveSubmission
    BY <1>6, SaveShape DEF Holding, DraftFitsStatus, Complete
  <1>7. CASE Conclude
    BY <1>0, <1>7, ConcludeShape DEF Closed, Holding, DraftFitsStatus, Complete
  <1> QED
    BY <1>1, <1>2, <1>3, <1>4, <1>5, <1>6, <1>7, StepCases, ThinkingShape
       DEF Aside, Regrouped, Thinking, CallCreate, ExecuteCreate, LoseCall

\* What was sent and saved for the submitted draft is what the draft says.
LEMMA HeldNext ==
  ASSUME IInv, [Next]_vars
  PROVE  SubmittedAsHeld'
PROOF
  <1>0. SubmittedAsHeld
    BY DEF IInv
  <1>1. CASE UNCHANGED <<groups, conv, calls>>
    BY <1>0, <1>1 DEF SubmittedAsHeld, SameSchedule, BoughtBy
  <1>2. CASE conv'.status # "started"
    BY <1>2 DEF SubmittedAsHeld
  <1>3. CASE Regrouped
    BY <1>0, <1>3 DEF Regrouped, Alike, SubmittedAsHeld, SameSchedule, BoughtBy
  <1>4. CASE SaveSubmission
    <2>1. /\ task.phase = "submitting"
          /\ conv' = Holding("started", task.draft) /\ UNCHANGED <<groups, calls>>
          /\ task.draft.key = conv.draft.key /\ task.draft.month \in Months
          /\ task.draft.card = conv.draft.card /\ task.draft.what = conv.draft.what
          /\ Submittable
      BY <1>4, SaveShape, InHand DEF SaveSubmission, AtHand
    <2>2. \A c \in calls : c.key # conv.draft.key
      BY <2>1, NothingSent
    <2>3. \A g \in groups : g.key = conv.draft.key =>
            /\ g.bought.card = conv.draft.card /\ g.bought.what = conv.draft.what
            /\ g.bought.month = task.draft.month
      <3>1. CASE conv.status = "awaiting"
        BY <3>1 DEF IInv, EditableMeansUnsaved
      <3>2. CASE conv.status = "started"
        BY <2>1, <3>2 DEF IInv, SubmittedAsHeld, TaskHoldsConv
      <3> QED
        BY <2>1, <3>1, <3>2 DEF Submittable
    <2> QED
      BY <2>1, <2>2, <2>3 DEF SubmittedAsHeld, Holding
  <1>5. CASE CallCreate
    <2>1. PICK c : /\ calls' = calls \cup {c} /\ c.key = conv.draft.key
                   /\ SameSchedule(c.bought, BoughtBy(conv.draft))
      BY <1>5, CallShape
    <2>2. groups' = groups /\ conv' = conv
      BY <1>5 DEF CallCreate
    <2> QED
      BY <1>0, <2>1, <2>2 DEF SubmittedAsHeld, SameSchedule, BoughtBy
  <1>6. ASSUME NEW c \in calls, ExecuteCreate(c) \/ LoseCall(c)
        PROVE  SubmittedAsHeld'
    <2>1. /\ calls' \subseteq calls /\ conv' = conv
          /\ \A g \in groups' : g \in groups \/ (g.key = c.key /\ g.bought = c.bought)
      BY <1>6, Executed DEF ExecuteCreate, LoseCall
    <2> QED
      BY <1>0, <2>1 DEF SubmittedAsHeld, SameSchedule, BoughtBy
  <1>7. CASE Conclude
    <2>1. CASE conv' = Closed
      BY <1>2, <2>1 DEF Closed
    <2>2. CASE conv' = Holding("started", task.draft)
      <3>1. /\ UNCHANGED <<groups, calls>> /\ conv.status = "started"
            /\ conv'.draft.key = conv.draft.key /\ conv'.draft.card = conv.draft.card
            /\ conv'.draft.what = conv.draft.what /\ conv'.draft.month = conv.draft.month
        BY <1>7, <2>2, ConcludeShape DEF Holding, Closed
      <3> QED
        BY <1>0, <3>1 DEF SubmittedAsHeld, SameSchedule, BoughtBy
    <2> QED
      BY <1>7, <2>1, <2>2, ConcludeShape
  <1>8. Edited \/ Freed \/ RepairOnLoad \/ StartDraft => conv'.status # "started"
    BY StartShape DEF Edited, Freed, Closed, RepairOnLoad, Holding
  <1> QED
    BY <1>1, <1>2, <1>3, <1>4, <1>5, <1>6, <1>7, <1>8, StepCases, ThinkingShape
       DEF Aside, Thinking

\* A handler that prepares has found the month of what is saved, if anything is.
LEMMA PrepareShape ==
  ASSUME IInv, Prepare
  PROVE  \E m \in Months :
           /\ task'.phase = "submitting"
           /\ task'.draft = [conv.draft EXCEPT !.month = m]
           /\ conv.draft \in Draft /\ conv.draft.key \in Keys
           /\ Submittable /\ Complete(conv.draft)
           /\ \A g \in groups : g.key = conv.draft.key => g.bought.month = m
PROOF
  <1>1. PICK m \in Months :
          /\ Pins(conv.draft, m)
          /\ task' = AtWork("submitting", [conv.draft EXCEPT !.month = m])
    BY DEF Prepare
  <1>2. Submittable /\ Complete(conv.draft) /\ conv.draft \in Draft
        /\ conv.draft.key \in Keys /\ conv.draft.month = NoMonth /\ task.who \in Members
    <2>1. Submittable /\ Complete(conv.draft) /\ ~Keyless /\ task.phase = "queued"
      BY DEF Prepare, Queued
    <2>2. conv.draft \in Draft
      BY <2>1, OpenConv DEF Submittable, IInv
    <2>3. conv.draft.month = NoMonth
      BY <2>1 DEF Submittable, IInv, DraftFitsStatus
    <2> QED
      BY <2>1, <2>2, <2>3 DEF Submittable, Keyless, Draft, IInv, TypeOK
  <1>3. [conv.draft EXCEPT !.month = m] \in Draft
    BY <1>2 DEF Draft
  <1>4. /\ task'.phase = "submitting"
        /\ task'.draft = [conv.draft EXCEPT !.month = m]
    BY <1>1, <1>2, <1>3, AtWorkTyped DEF Phases
  <1>5. \A g \in groups : g.key = conv.draft.key => g.bought.month = m
    BY <1>1, <1>2 DEF Pins, Opens, SameKey, IInv, OneGroupPerDraft
  <1> QED
    BY <1>2, <1>4, <1>5

\* A category that is found changes nothing else of the draft in hand.
LEMMA FoundShape ==
  ASSUME IInv, FindCategory \/ CreateCategory
  PROVE  /\ task.phase \in {"ready", "naming"} /\ task'.phase \in {"ready", "naming"}
         /\ task'.draft = [task.draft EXCEPT !.category = task'.draft.category]
PROOF
  <1>1. task \in Task /\ task.draft \in Draft /\ task.phase \in {"ready", "naming"}
    BY DEF FindCategory, CreateCategory, IInv, TypeOK
  <1>2. CASE FindCategory
    <2>1. \/ \E g : task' = [task EXCEPT !.draft = [task.draft EXCEPT !.category = g]]
          \/ task' = [task EXCEPT !.phase = "naming"]
      BY <1>1, <1>2 DEF FindCategory, Task
    <2> QED
      BY <1>1, <2>1 DEF Task, Draft
  <1>3. CASE CreateCategory
    <2>1. PICK g : task' = [task EXCEPT !.phase = "ready", !.draft.category = g]
      BY <1>3 DEF CreateCategory
    <2>2. task' = [task EXCEPT !.phase = "ready",
                               !.draft = [task.draft EXCEPT !.category = g]]
      BY <1>1, <2>1 DEF Task
    <2>3. task'.phase = "ready" /\ task'.draft = [task.draft EXCEPT !.category = g]
      BY <1>1, <2>2 DEF Task
    <2> QED
      BY <1>1, <2>3 DEF Draft
  <1> QED
    BY <1>2, <1>3

\* A request that reports back does so to the handler that waits for it.
LEMMA AnsweredShape ==
  ASSUME IInv, NEW c \in calls, ExecuteCreate(c) \/ LoseCall(c), task' # task
  PROVE  /\ ExecuteCreate(c) /\ task.phase = "waiting" /\ task.tag = c.tag
         /\ task'.phase = "answered" /\ task'.draft = task.draft
         /\ task'.answer = "created" => Succeeds(c)
PROOF
  <1>1. ExecuteCreate(c) /\ task.phase = "waiting" /\ task.tag = c.tag
    BY DEF ExecuteCreate, LoseCall
  <1>2. DEFINE a == IF Succeeds(c) THEN "created" ELSE "error"
  <1>3. task' = [task EXCEPT !.phase = "answered", !.tag = NoTag, !.answer = a]
    BY <1>1 DEF ExecuteCreate
  <1>4. a = "created" => Succeeds(c)
    OBVIOUS
  <1> HIDE DEF a
  <1>5. task \in Task
    BY DEF IInv, TypeOK
  <1>6. task'.phase = "answered" /\ task'.draft = task.draft /\ task'.answer = a
    BY <1>3, <1>5 DEF Task
  <1> QED
    BY <1>1, <1>4, <1>6

\* A handler at work holds the conversation's draft.
LEMMA TaskNext ==
  ASSUME IInv, [Next]_vars
  PROVE  TaskHoldsConv'
PROOF
  <1>0. TaskHoldsConv /\ TypeOK
    BY DEF IInv
  <1>1. CASE task'.phase \in {"idle", "queued"}
    BY <1>1 DEF TaskHoldsConv
  <1>2. CASE UNCHANGED <<groups, conv, task>>
    BY <1>0, <1>2 DEF TaskHoldsConv, Submittable, Complete
  <1>3. CASE Regrouped
    BY <1>0, <1>3 DEF Regrouped, Alike, SameSchedule, TaskHoldsConv, Submittable, Complete
  <1>4. CASE Prepare
    <2>1. PICK m \in Months :
           /\ task'.phase = "submitting"
           /\ task'.draft = [conv.draft EXCEPT !.month = m]
           /\ conv.draft \in Draft /\ conv.draft.key \in Keys
           /\ Submittable /\ Complete(conv.draft)
           /\ \A g \in groups : g.key = conv.draft.key => g.bought.month = m
      BY <1>4, PrepareShape
    <2>2. task'.draft.month = m
      BY <2>1 DEF Draft
    <2>3. UNCHANGED <<groups, conv>>
      BY <1>4 DEF Prepare
    <2> QED
      BY <2>1, <2>2, <2>3 DEF TaskHoldsConv, Submittable, Complete
  <1>5. CASE SaveSubmission
    <2>1. /\ task'.phase = "ready" /\ task'.draft = task.draft
          /\ conv'.status = "started" /\ conv'.draft = task.draft
          /\ task.draft.month \in Months /\ task.draft.key \in Keys
      BY <1>5, SaveShape DEF Holding
    <2>2. task.draft \in Draft
      BY <1>5, InHand DEF SaveSubmission, AtHand
    <2>3. task.draft = [task.draft EXCEPT !.category = task.draft.category]
      BY <2>2 DEF Draft
    <2> QED
      BY <2>1, <2>3 DEF TaskHoldsConv
  <1>6. CASE ConfirmStarted
    <2>1. /\ conv.status = "started" /\ conv.draft.month # NoMonth /\ ~Keyless
          /\ task.phase = "queued" /\ conv' = conv /\ task' = AtWork("ready", conv.draft)
      BY <1>6 DEF ConfirmStarted, Queued
    <2>2. conv.draft \in Draft /\ task.who \in Members
      BY <1>0, <2>1, OpenConv DEF TypeOK
    <2>3. task'.phase = "ready" /\ task'.draft = conv.draft
      BY <2>1, <2>2, AtWorkTyped DEF Phases
    <2>4. conv.draft = [conv.draft EXCEPT !.category = conv.draft.category]
      BY <2>2 DEF Draft
    <2> QED
      BY <2>1, <2>3, <2>4 DEF TaskHoldsConv, Keyless
  <1>7. CASE FindCategory \/ CreateCategory
    <2>1. /\ task.phase \in {"ready", "naming"} /\ task'.phase \in {"ready", "naming"}
          /\ task'.draft = [task.draft EXCEPT !.category = task'.draft.category]
      BY <1>7, FoundShape
    <2>2. conv' = conv
      BY <1>7 DEF FindCategory, CreateCategory
    <2>3. /\ task.draft = [conv.draft EXCEPT !.category = task.draft.category]
          /\ conv.status = "started" /\ conv.draft.month # NoMonth
          /\ conv.draft.key # NoKey
      BY <1>0, <2>1 DEF TaskHoldsConv
    <2>4. conv.draft \in Draft
      BY <1>0, <2>3, OpenConv
    <2>5. task'.draft = [conv.draft EXCEPT !.category = task'.draft.category]
      BY <2>1, <2>3, <2>4 DEF Draft
    <2> QED
      BY <2>1, <2>2, <2>3, <2>5 DEF TaskHoldsConv
  <1>8. CASE CallCreate \/ AnswerLost
    <2>1. /\ task.phase \in {"ready", "waiting", "answered"}
          /\ task'.phase \in {"waiting", "answered"}
          /\ task'.draft = task.draft /\ conv' = conv
      BY <1>0, <1>8 DEF CallCreate, AnswerLost, TypeOK, Task
    <2> QED
      BY <1>0, <2>1 DEF TaskHoldsConv
  <1>9. ASSUME NEW c \in calls, ExecuteCreate(c) \/ LoseCall(c)
        PROVE  TaskHoldsConv'
    <2>1. /\ conv' = conv
          /\ \A g \in groups' : g \in groups \/ g.key = c.key
      BY <1>9, Executed DEF ExecuteCreate, LoseCall
    <2>2. CASE task' = task
      <3>1. Submittable => c.key # conv.draft.key
        BY NothingSent
      <3> QED
        BY <1>0, <2>1, <2>2, <3>1 DEF TaskHoldsConv, Submittable, Complete
    <2>3. CASE task' # task
      <3>1. /\ task.phase = "waiting" /\ task'.phase = "answered"
            /\ task'.draft = task.draft
        BY <1>9, <2>3, AnsweredShape
      <3> QED
        BY <1>0, <2>1, <3>1 DEF TaskHoldsConv
    <2> QED
      BY <2>2, <2>3
  <1>10. Edited \/ Freed \/ RepairOnLoad \/ StartDraft \/ Conclude
           => task'.phase \in {"idle", "queued"}
    BY StartShape, ConcludeShape, IdleTyped DEF Edited, Freed, RepairOnLoad
  <1> QED
    BY <1>1, <1>2, <1>3, <1>4, <1>5, <1>6, <1>7, <1>8, <1>9, <1>10, StepCases
       DEF Aside

\* What a handler is told is about its own draft.
LEMMA AnswerNext ==
  ASSUME IInv, [Next]_vars
  PROVE  AnswerIsOwn'
PROOF
  <1>0. AnswerIsOwn /\ TypeOK
    BY DEF IInv
  <1>1. CASE task'.phase \notin {"waiting", "answered"}
    BY <1>1 DEF AnswerIsOwn
  <1>2. CASE UNCHANGED <<groups, calls, task>>
    BY <1>0, <1>2 DEF AnswerIsOwn, SameSchedule, BoughtBy
  <1>3. CASE Regrouped
    BY <1>0, <1>3 DEF Regrouped, Alike, SameSchedule, AnswerIsOwn, BoughtBy
  <1>4. CASE CallCreate
    <2>1. PICK c : /\ calls' = calls \cup {c} /\ c.tag = FreeTag /\ TagFree(FreeTag)
                   /\ c.key = conv.draft.key
      BY <1>4, CallShape
    <2>2. task.phase = "ready" /\ task' = [task EXCEPT !.phase = "waiting", !.tag = FreeTag]
      BY <1>4 DEF CallCreate
    <2>3. task'.phase = "waiting" /\ task'.tag = FreeTag /\ task'.draft = task.draft
      BY <1>0, <2>2 DEF TypeOK, Task
    <2>4. task.draft.key = conv.draft.key
      BY <2>2, InHand DEF AtHand
    <2> QED
      BY <2>1, <2>3, <2>4 DEF AnswerIsOwn, TagFree
  <1>5. CASE AnswerLost
    <2>1. task'.phase = "answered" /\ task'.answer = "error"
      BY <1>0, <1>5 DEF AnswerLost, TypeOK, Task
    <2> QED
      BY <2>1 DEF AnswerIsOwn
  <1>6. ASSUME NEW c \in calls, ExecuteCreate(c) \/ LoseCall(c)
        PROVE  AnswerIsOwn'
    <2>1. groups \subseteq groups' /\ calls' \subseteq calls
      BY <1>6, Executed DEF ExecuteCreate, LoseCall
    <2>2. CASE task' = task
      BY <1>0, <2>1, <2>2 DEF AnswerIsOwn, SameSchedule, BoughtBy
    <2>3. CASE task' # task
      <3>1. /\ ExecuteCreate(c) /\ task.phase = "waiting" /\ task.tag = c.tag
            /\ task'.phase = "answered" /\ task'.draft = task.draft
            /\ task'.answer = "created" => Succeeds(c)
        BY <1>6, <2>3, AnsweredShape
      <3>2. c.key = task.draft.key /\ conv.status = "started"
            /\ task.draft.key = conv.draft.key /\ task.draft.card = conv.draft.card
            /\ task.draft.what = conv.draft.what /\ task.draft.month = conv.draft.month
        BY <1>0, <3>1, InHand DEF AnswerIsOwn, AtHand
      <3>3. SameSchedule(c.bought, BoughtBy(task.draft))
        BY <3>2 DEF IInv, SubmittedAsHeld, SameSchedule, BoughtBy
      <3>4. Succeeds(c) => \E g \in groups' : g.key = c.key /\ g.bought = c.bought
        BY <3>1, Executed
      <3> QED
        BY <3>1, <3>2, <3>3, <3>4 DEF AnswerIsOwn, SameSchedule, BoughtBy
    <2> QED
      BY <2>2, <2>3
  <1>7. /\ Edited \/ Freed \/ RepairOnLoad \/ StartDraft \/ Conclude \/ Prepare
             \/ SaveSubmission \/ FindCategory \/ CreateCategory
             => task'.phase \notin {"waiting", "answered"}
        /\ ConfirmStarted => task'.phase \notin {"waiting", "answered"}
    <2>1. ConfirmStarted => task'.phase = "ready"
      BY <1>0 DEF ConfirmStarted, AtWork, Idle
    <2> QED
      BY <2>1, StartShape, ConcludeShape, IdleTyped, PrepareShape, SaveShape, FoundShape
         DEF Edited, Freed, RepairOnLoad
  <1> QED
    BY <1>1, <1>2, <1>3, <1>4, <1>5, <1>6, <1>7, StepCases DEF Aside

\* The invariant is inductive.
LEMMA InvNext ==
  ASSUME IInv, [Next]_vars
  PROVE  IInv'
PROOF
  <1> QED
    BY TypeNext, OneGroupNext, EditableNext, ReleasedNext, ScheduleNext, FreshNext,
       FitsNext, HeldNext, TaskNext, AnswerNext DEF IInv

------------------------------------------------------------------------
(* Theorems.                                                             *)

\* Every reachable state satisfies the invariant.
THEOREM PurchaseInvariant == Spec => []IInv
PROOF
  <1>1. IInv /\ [Next]_vars => IInv'
    BY InvNext
  <1> QED
    BY InitInv, <1>1, PTL DEF Spec

\* Every variable keeps its type; a request is sent only for a complete draft
\* with a key, a month and a category.
THEOREM PurchaseTypeCorrect == Spec => []TypeOK
PROOF
  <1>1. IInv => TypeOK
    BY DEF IInv
  <1> QED
    BY PurchaseInvariant, <1>1, PTL

\* However often a draft is confirmed, and whatever is lost, late or changed by
\* the web, one purchase is saved for it.
THEOREM SavedOnce == Spec => []OneGroupPerDraft
PROOF
  <1>1. IInv => OneGroupPerDraft
    BY DEF IInv
  <1> QED
    BY PurchaseInvariant, <1>1, PTL

\* What the member may correct or cancel is not saved and cannot be.
THEOREM EditableUnsaved == Spec => []EditableMeansUnsaved
PROOF
  <1>1. IInv => EditableMeansUnsaved
    BY DEF IInv
  <1> QED
    BY PurchaseInvariant, <1>1, PTL

\* A draft that was given up is never saved.
THEOREM ReleasedUnsaved == Spec => []ReleasedStaysUnsaved
PROOF
  <1>1. IInv => ReleasedStaysUnsaved
    BY DEF IInv
  <1> QED
    BY PurchaseInvariant, <1>1, PTL

\* All requests for a draft, and its purchase, have the same parcels.
THEOREM SchedulePinned == Spec => []ScheduleIsPinned
PROOF
  <1>1. IInv => ScheduleIsPinned
    BY DEF IInv
  <1> QED
    BY PurchaseInvariant, <1>1, PTL

SavedStep ==
  \A k \in Keys : fate[k] # "saved" /\ fate'[k] = "saved" =>
    \E g \in groups : /\ g.key = k /\ task.draft.key = k
                      /\ SameSchedule(g.bought, BoughtBy(task.draft))

\* The bot says "salva" only in concluding, and there only of what is saved.
LEMMA SavedNext ==
  ASSUME IInv, [Next]_vars
  PROVE  SavedStep
PROOF
  <1>0. TypeOK /\ AnswerIsOwn
    BY DEF IInv
  <1>1. CASE fate' = fate
    BY <1>1 DEF SavedStep
  <1>2. CASE Freed
    BY <1>0, <1>2 DEF Freed, LetGo, TypeOK, SavedStep
  <1>3. CASE StartDraft
    <2>1. PICK k \in Keys : fate' = [LetGo(fate) EXCEPT ![k] = "open"]
      BY <1>3, StartShape
    <2>2. \A j \in Keys : fate'[j] = IF j = k THEN "open" ELSE LetGo(fate)[j]
      BY <1>0, <2>1, LetGoFate
    <2> QED
      BY <1>0, <2>2 DEF LetGo, TypeOK, SavedStep
  <1>4. CASE Conclude
    <2>1. CASE fate' # fate
      <3>1. /\ task.phase = "answered" /\ task.answer = "created"
            /\ task.draft.key = conv.draft.key
            /\ fate' = [fate EXCEPT ![conv.draft.key] = "saved"]
        BY <1>4, <2>1, ConcludeShape DEF Conclude
      <3>2. \A k \in Keys : k # conv.draft.key => fate'[k] = fate[k]
        BY <1>0, <3>1 DEF TypeOK
      <3> QED
        BY <1>0, <3>1, <3>2 DEF AnswerIsOwn, SavedStep
    <2> QED
      BY <1>1, <2>1
  <1> QED
    BY <1>1, <1>2, <1>3, <1>4, StepCases, ThinkingShape, SaveShape
       DEF Aside, Edited, Regrouped, RepairOnLoad, Thinking, CallCreate,
           ExecuteCreate, LoseCall

\* The bot reports a purchase as saved only when it is, with the parcels that
\* were confirmed.
THEOREM SavedTrue == Spec => SavedIsSaved
PROOF
  <1>1. IInv /\ [Next]_vars => [SavedStep]_vars
    BY SavedNext
  <1>2. Spec => [][SavedStep]_vars
    BY PurchaseInvariant, <1>1, PTL DEF Spec
  <1> QED
    BY <1>2 DEF SavedIsSaved, SavedStep

------------------------------------------------------------------------
(* Refinement of PaymentPromise.                                         *)

Promised == [Promise!Next]_<<SavedPurchases, ReleasedDrafts>>

\* A step that lets go of at most the editable draft is a release or nothing.
LEMMA LetsGoPromised ==
  ASSUME IInv, SavedPurchases' = SavedPurchases,
         \/ ReleasedDrafts' = ReleasedDrafts
         \/ /\ conv.status = "awaiting" /\ conv.draft.key \in Keys
            /\ ReleasedDrafts' = ReleasedDrafts \cup {conv.draft.key}
  PROVE  Promised
PROOF
  <1>1. CASE ReleasedDrafts' = ReleasedDrafts
    BY <1>1 DEF Promised
  <1>2. CASE /\ conv.status = "awaiting" /\ conv.draft.key \in Keys
             /\ ReleasedDrafts' = ReleasedDrafts \cup {conv.draft.key}
    <2>1. \A g \in groups : g.key # conv.draft.key
      BY <1>2 DEF IInv, EditableMeansUnsaved
    <2>2. Promise!Release(conv.draft.key)
      BY <1>2, <2>1 DEF Promise!Release, Promise!Unpaid, SavedPurchases
    <2> QED
      BY <1>2, <2>2 DEF Promised, Promise!Next
  <1> QED
    BY <1>1, <1>2

\* The drafts given up when the conversation moves on.
LEMMA LetGoReleases ==
  ASSUME IInv, NEW f, f = LetGo(fate)
  PROVE  LET R == {k \in Keys : f[k] = "released"}
         IN  \/ R = ReleasedDrafts
             \/ /\ conv.status = "awaiting" /\ conv.draft.key \in Keys
                /\ R = ReleasedDrafts \cup {conv.draft.key}
PROOF
  <1>0. fate \in [Keys -> Fates] /\ KeysAreFresh
    BY DEF IInv, TypeOK, Fates
  <1>1. CASE conv.status = "closed" \/ conv.draft.key = NoKey
    BY <1>1 DEF LetGo, ReleasedDrafts
  <1>2. CASE conv.status # "closed" /\ conv.draft.key # NoKey
    <2>1. conv.draft.key \in Keys /\ fate[conv.draft.key] = "open"
      BY <1>0, <1>2, OpenConv DEF IInv, Draft, KeysAreFresh, Holds
    <2>2. \A k \in Keys :
            f[k] = IF k # conv.draft.key THEN fate[k]
                   ELSE IF conv.status = "awaiting" THEN "released" ELSE "orphaned"
      BY <1>0, <1>2, <2>1 DEF LetGo
    <2>3. CASE conv.status = "awaiting"
      BY <2>1, <2>2, <2>3 DEF ReleasedDrafts
    <2>4. CASE conv.status # "awaiting"
      BY <2>1, <2>2, <2>4 DEF ReleasedDrafts
    <2> QED
      BY <2>3, <2>4
  <1> QED
    BY <1>1, <1>2

\* Every step saves one purchase, gives up one draft or changes nothing the
\* member counts.
LEMMA PromiseNext ==
  ASSUME IInv, [Next]_vars
  PROVE  Promised
PROOF
  <1>0. TypeOK /\ KeysAreFresh
    BY DEF IInv
  <1>1. CASE UNCHANGED <<groups, fate>>
    BY <1>1 DEF Promised, SavedPurchases, ReleasedDrafts
  <1>2. CASE Freed
    <2>1. SavedPurchases' = SavedPurchases /\ fate' = LetGo(fate)
      BY <1>2 DEF Freed, SavedPurchases
    <2> QED
      BY <2>1, LetGoReleases, LetsGoPromised DEF ReleasedDrafts
  <1>3. CASE Regrouped
    <2>1. SavedPurchases' = SavedPurchases
      BY <1>3 DEF Regrouped, Alike, SavedPurchases
    <2>2. ReleasedDrafts' = ReleasedDrafts
      BY <1>3 DEF Regrouped, ReleasedDrafts
    <2> QED
      BY <2>1, <2>2 DEF Promised
  <1>4. CASE StartDraft
    <2>1. PICK k \in Keys : /\ LetGo(fate)[k] = "unused" /\ UNCHANGED groups
                            /\ fate' = [LetGo(fate) EXCEPT ![k] = "open"]
      BY <1>4, StartShape
    <2>2. \A j \in Keys : fate'[j] = "released" <=> LetGo(fate)[j] = "released"
      BY <1>0, <2>1, LetGoFate
    <2>3. SavedPurchases' = SavedPurchases
      BY <2>1 DEF SavedPurchases
    <2>4. ReleasedDrafts' = {j \in Keys : LetGo(fate)[j] = "released"}
      BY <2>2 DEF ReleasedDrafts
    <2> QED
      BY <2>3, <2>4, LetGoReleases, LetsGoPromised
  <1>5. ASSUME NEW c \in calls, ExecuteCreate(c)
        PROVE  Promised
    <2>1. ReleasedDrafts' = ReleasedDrafts
      BY <1>5 DEF ExecuteCreate, ReleasedDrafts
    <2>2. CASE groups' = groups
      BY <2>1, <2>2 DEF Promised, SavedPurchases
    <2>3. CASE groups' # groups
      <3>1. /\ SameKey(c.key) = {} /\ c.key \in Keys
            /\ groups' = groups \cup {GroupOf(c.key, c.bought)}
        BY <1>5, <2>3, Executed DEF ExecuteCreate
      <3>2. SavedPurchases' = SavedPurchases \cup {[rid |-> c.key, id |-> c.key]}
        <4> DEFINE n == GroupOf(c.key, c.bought)
        <4>1. groups' = groups \cup {n} /\ n.key = c.key
          BY <3>1, GroupOfTyped
        <4> HIDE DEF n
        <4> QED
          BY <4>1 DEF SavedPurchases
      <3>3. c.key \notin ReleasedDrafts
        BY <3>1 DEF IInv, ReleasedStaysUnsaved, ReleasedDrafts
      <3>4. Promise!Pay(c.key, c.key)
        BY <2>1, <3>1, <3>2, <3>3
           DEF Promise!Pay, Promise!Unpaid, SavedPurchases, SameKey
      <3> QED
        BY <3>1, <3>4 DEF Promised, Promise!Next
    <2> QED
      BY <2>2, <2>3
  <1>6. CASE Conclude
    <2>1. /\ groups' = groups /\ conv.draft.key \in Keys
          /\ conv.status = "started"
          /\ fate' = fate \/ fate' = [fate EXCEPT ![conv.draft.key] = "saved"]
      BY <1>6, ConcludeShape
    <2>2. fate[conv.draft.key] = "open"
      BY <1>0, <2>1 DEF KeysAreFresh, Holds
    <2>3. \A k \in Keys : fate'[k] = "released" <=> fate[k] = "released"
      BY <1>0, <2>1, <2>2 DEF TypeOK
    <2> QED
      BY <2>1, <2>3 DEF Promised, SavedPurchases, ReleasedDrafts
  <1> QED
    BY <1>1, <1>2, <1>3, <1>4, <1>5, <1>6, StepCases, ThinkingShape, SaveShape
       DEF Aside, Edited, RepairOnLoad, Thinking, CallCreate, LoseCall

\* Bot, web, database and network together keep the promise.
THEOREM PurchasePromiseKept == Spec => PurchaseKeepsPromise
PROOF
  <1>1. IInv /\ [Next]_vars => [Promise!Next]_<<SavedPurchases, ReleasedDrafts>>
    BY PromiseNext DEF Promised
  <1> QED
    BY PurchaseInvariant, <1>1, PTL DEF Spec, PurchaseKeepsPromise
=============================================================================
