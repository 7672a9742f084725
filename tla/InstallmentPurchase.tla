------------------------ MODULE InstallmentPurchase ------------------------
(***************************************************************************)
(* Buying in parcels through the Telegram bot: the draft, the month its    *)
(* first parcel is pinned to, the category that is created on the way, the *)
(* create_installment_purchase RPC and what the web changes meanwhile.     *)
(*                                                                         *)
(* One chat of one Telegram user in one household.  Handlers of a chat run *)
(* one at a time and may die between any two requests they make; a request *)
(* that was sent may execute later.  The statuses started and uncertain of *)
(* a submitted draft are one here: every handler treats them alike.  Which *)
(* month a search for an open fatura finds depends on the closings of      *)
(* CardFatura and may differ each time, so it is any month.                *)
(***************************************************************************)
EXTENDS Integers, FiniteSets

CONSTANTS
  Members,     \* household members the Telegram account may be linked to
  Cards, Whats,  \* what is bought: description, total, count and date
  Months,
  Categories, Existing,  \* those that exist from the start
  Keys,        \* what randomUUID can return; a draft is known by its key
  Tags,        \* names of requests in flight, reused once they are gone
  Proposed,    \* the draft's category is a name that nobody has created yet
  NoOne, NoKey, NoCard, NoWhat, NoMonth, NoCategory, NoDraft, NoTag,
  WithLegacy   \* whether the run may start from a draft of an older version

ASSUME PurchaseAssumption ==
  /\ NoOne \notin Members
  /\ NoKey \notin Keys
  /\ NoCard \notin Cards
  /\ NoWhat \notin Whats
  /\ NoMonth \notin Months
  /\ Existing \subseteq Categories
  /\ {NoCategory, Proposed} \cap Categories = {} /\ NoCategory # Proposed
  /\ NoTag \notin Tags
  /\ WithLegacy \in BOOLEAN

VARIABLES
  groups,   \* installment_groups with their parcels
  cards,    \* cards that exist
  known,    \* categories that exist; each may be archived and restored at any
            \* time, so that is not kept
  named,    \* those of them with the proposed name
  active,   \* members whose membership is active
  linked,   \* the member the Telegram account resolves to, or NoOne
  conv,     \* bot_conversations: status and draft
  task,     \* the webhook handler at work on this chat
  calls,    \* create_installment_purchase requests not executed yet
  fate      \* what the bot told the member of each draft

webVars == <<cards, known, named, active, linked>>
vars    == <<groups, webVars, conv, task, calls, fate>>

------------------------------------------------------------------------
Picked   == Categories \cup {NoCategory}
Draft    == [key : Keys \cup {NoKey}, card : Cards \cup {NoCard},
             what : Whats \cup {NoWhat}, month : Months \cup {NoMonth},
             category : Picked \cup {Proposed}, by : Members]
Purchase == [card : Cards, what : Whats, month : Months, category : Picked,
             by : Members]
Group    == [key : Keys, bought : Purchase, name : {"own", "bank"}]
Call     == [tag : Tags, key : Keys, bought : Purchase]

Closed   == [status |-> "closed", draft |-> NoDraft]
Holding(status, d) == [status |-> status, draft |-> d]

Phases == {"idle", "queued", "submitting", "ready", "naming", "waiting",
           "answered"}
Vias   == {"text", "tap", "voice"}
Asks   == {"confirm", "cancel", "other"}

Idle == [phase |-> "idle", via |-> "text", ask |-> "other", who |-> NoOne,
         draft |-> NoDraft, tag |-> NoTag, answer |-> "none"]

AtWork(phase, d) == [Idle EXCEPT !.phase = phase, !.who = task.who, !.draft = d]

\* The group of a purchase, before a bank statement renames it.
GroupOf(k, p) == [key |-> k, bought |-> p, name |-> "own"]

BoughtBy(d) == [card |-> d.card, what |-> d.what, month |-> d.month,
                category |-> d.category, by |-> d.by]

\* Mutant: a purchase may be submitted with no total or count.
CompleteNoTotal(d) == d.card # NoCard

Complete(d) == d.card # NoCard /\ d.what # NoWhat

TagFree(t) == t # task.tag /\ \A c \in calls : c.tag # t
FreeTag    == CHOOSE t \in Tags : TagFree(t)
HasTag     == \E t \in Tags : TagFree(t)

------------------------------------------------------------------------
(* create_installment_purchase.                                          *)

SameKey(k)    == {g \in groups : g.key = k}
Replays(c)    == \A g \in SameKey(c.key) : g = GroupOf(c.key, c.bought)
Insertable(c) == c.bought.card \in cards

\* Mutants: a key that is used is an error, whatever it was used for; no
\* unique index on the key.
CreatesOnce(c)   == c.bought.by \in active /\ SameKey(c.key) = {} /\ Insertable(c)
CreatesAnyway(c) == c.bought.by \in active /\ Insertable(c)

\* The answer is the group, new or found under the key, when everything in it
\* is as requested; anything else is an error that does not tell whether the
\* purchase exists.
Succeeds(c) == /\ c.bought.by \in active
               /\ IF SameKey(c.key) = {} THEN Insertable(c) ELSE Replays(c)

------------------------------------------------------------------------
(* Initial states: nothing open, or a draft stored by an older version of  *)
(* the bot: without a key, or submitted with no month pinned.  The request *)
(* of the latter has been executed or lost.                                *)

OldDraft(k, p) == [key |-> k, card |-> p.card, what |-> p.what,
                   month |-> NoMonth, category |-> p.category, by |-> p.by]

StartsClean == /\ groups = {}
               /\ conv = Closed
               /\ fate = [k \in Keys |-> "unused"]

StartsLegacy ==
  \E p \in Purchase, k \in Keys :
    /\ p.category \in Existing \cup {NoCategory}
    /\ \/ /\ \E s \in {"awaiting", "started"} :
               conv = Holding(s, OldDraft(NoKey, p))
          /\ groups = {}
          /\ fate = [x \in Keys |-> "unused"]
       \/ /\ conv = Holding("started", OldDraft(k, p))
          /\ groups \in {{}, {GroupOf(k, p)}}
          /\ fate = [x \in Keys |-> IF x = k THEN "open" ELSE "unused"]

Init ==
  /\ known = Existing
  /\ named = {}
  /\ StartsClean \/ (WithLegacy /\ StartsLegacy)
  /\ cards = Cards
  /\ active = Members
  /\ linked \in Members
  /\ task = Idle
  /\ calls = {}

------------------------------------------------------------------------
(* The webhook handler: receiving, starting, correcting.                 *)

\* The sender is resolved to a member before the update joins the queue.
Receive(via, ask) ==
  /\ task.phase = "idle"
  /\ linked \in active
  /\ via = "voice" => ask = "other"
  /\ task' = [Idle EXCEPT !.phase = "queued", !.via = via, !.ask = ask,
                          !.who = linked]
  /\ UNCHANGED <<groups, webVars, conv, calls, fate>>

\* store.load: a draft without a key cannot be submitted safely.
Keyless == conv.status \in {"awaiting", "started"} /\ conv.draft.key = NoKey

RepairOnLoad ==
  /\ task.phase = "queued"
  /\ Keyless
  /\ conv' = Holding("recovery", conv.draft)
  /\ UNCHANGED <<groups, webVars, task, calls, fate>>

Queued(ask) == task.phase = "queued" /\ ~Keyless /\ task.ask = ask
Mine        == conv.status # "closed" /\ conv.draft.by = task.who
OnMine      == task.via \in {"text", "tap"} /\ Mine
Correcting(vias) == /\ Queued("other")
                    /\ task.via \in vias
                    /\ Mine
                    /\ conv.status = "awaiting"

\* What becomes of the open draft when the conversation moves on.
LetGo(f) == IF conv.status = "closed" \/ conv.draft.key = NoKey THEN f
            ELSE [f EXCEPT ![conv.draft.key] =
                    IF conv.status = "awaiting" THEN "released" ELSE "orphaned"]

\* A voice note replaces what is not submitted; a text replaces a closed
\* conversation and one whose draft another member created.
Replaces == \/ task.via = "voice" /\ conv.status \in {"closed", "awaiting"}
            \/ task.via = "text" /\ ~Mine

\* startInstallmentIntent: the key is minted with the draft; card, total and
\* count may be missing and the category may be a proposal.
StartDraft ==
  /\ Queued("other")
  /\ Replaces
  /\ cards # {}
  /\ \E k \in Keys, c \in cards \cup {NoCard}, w \in Whats \cup {NoWhat},
        g \in known \cup {NoCategory, Proposed} :
       /\ fate[k] = "unused"
       /\ conv' = Holding("awaiting",
                    [key |-> k, card |-> c, what |-> w, month |-> NoMonth,
                     category |-> g, by |-> task.who])
       /\ fate' = [LetGo(fate) EXCEPT ![k] = "open"]
  /\ task' = Idle
  /\ UNCHANGED <<groups, webVars, calls>>

StartElsewhere ==
  /\ task.phase = "queued" /\ ~Keyless
  /\ Replaces
  /\ conv' = Closed
  /\ fate' = LetGo(fate)
  /\ task' = Idle
  /\ UNCHANGED <<groups, webVars, calls>>

\* "cartao", or a tap on a card; "valor", "parcelas" and "data".  The pinned
\* month is forgotten.
Correct ==
  /\ \/ /\ Correcting({"text", "tap"})
        /\ \E c \in cards :
             conv' = Holding("awaiting",
                       [conv.draft EXCEPT !.card = c, !.month = NoMonth])
     \/ /\ Correcting({"text"})
        /\ \E w \in Whats :
             conv' = Holding("awaiting",
                       [conv.draft EXCEPT !.what = w, !.month = NoMonth])
  /\ task' = Idle
  /\ UNCHANGED <<groups, webVars, calls, fate>>

\* "categoria", a tap on a category or on "no new category".
ChooseCategory ==
  /\ Correcting({"text", "tap"})
  /\ \E g \in known \cup {NoCategory} :
       conv' = Holding("awaiting", [conv.draft EXCEPT !.category = g])
  /\ task' = Idle
  /\ UNCHANGED <<groups, webVars, calls, fate>>

\* A tap that accepts the proposed category: found, or created because the
\* list that was read did not have it.
AcceptProposal ==
  /\ Correcting({"tap"})
  /\ conv.draft.category = Proposed
  /\ task.who \in active
  /\ \E g \in named \cup (Categories \ known) :
       /\ known' = known \cup {g}
       /\ named' = named \cup {g}
       /\ conv' = Holding("awaiting", [conv.draft EXCEPT !.category = g])
  /\ task' = Idle
  /\ UNCHANGED <<groups, cards, active, linked, calls, fate>>

\* A draft that cannot be submitted safely is given up at the next message,
\* with the advice to look for the purchase.
Cancel ==
  /\ OnMine
  /\ \/ Queued("cancel") /\ conv.status = "awaiting"
     \/ task.phase = "queued" /\ conv.status = "recovery"
  /\ conv' = Closed
  /\ fate' = LetGo(fate)
  /\ task' = Idle
  /\ UNCHANGED <<groups, webVars, calls>>

\* The handler answers, or fails to prepare, and leaves the conversation.
Refuse ==
  /\ task.phase = "queued" /\ ~Keyless
  /\ \/ conv.status = "closed"
     \/ task.via = "tap" /\ ~Mine
     \/ task.via = "voice" /\ conv.status \in {"started", "recovery"}
     \/ Mine /\ conv.status = "awaiting" /\ task.ask \in {"other", "confirm"}
     \/ OnMine /\ conv.status = "started"
        /\ (task.ask # "confirm" \/ conv.draft.month = NoMonth)
  /\ task' = Idle
  /\ UNCHANGED <<groups, webVars, conv, calls, fate>>

------------------------------------------------------------------------
(* Confirming: the first month is pinned and the draft saved as submitted  *)
(* before anything is written.                                            *)

Submittable == \/ conv.status = "awaiting"
               \/ conv.status = "started" /\ conv.draft.month = NoMonth

\* resolveInstallmentOpenMonth: the month of the purchase that exists under the
\* key, else of the first open fatura, which needs the card.
Opens(d, m) == IF SameKey(d.key) # {}
               THEN \E g \in SameKey(d.key) : m = g.bought.month
               ELSE d.card \in cards

\* A month that is pinned stays.
Pins(d, m) == IF d.month # NoMonth THEN m = d.month ELSE Opens(d, m)

\* prepareInstallmentSubmission.
Prepare ==
  /\ Queued("confirm")
  /\ OnMine
  /\ Submittable
  /\ Complete(conv.draft)
  /\ task.who \in active
  /\ \E m \in Months :
       /\ Pins(conv.draft, m)
       /\ task' = AtWork("submitting", [conv.draft EXCEPT !.month = m])
  /\ UNCHANGED <<groups, webVars, conv, calls, fate>>

\* Mutants: the RPC is called before the draft is saved; the draft is saved
\* without the month that was found.
SaveSubmissionLate ==
  /\ task.phase = "submitting"
  /\ task' = [task EXCEPT !.phase = "ready"]
  /\ UNCHANGED <<groups, webVars, conv, calls, fate>>

SaveUnpinned ==
  /\ task.phase = "submitting"
  /\ conv' = Holding("started", [task.draft EXCEPT !.month = NoMonth])
  /\ task' = [task EXCEPT !.phase = "ready"]
  /\ UNCHANGED <<groups, webVars, calls, fate>>

SaveSubmission ==
  /\ task.phase = "submitting"
  /\ conv' = Holding("started", task.draft)
  /\ task' = [task EXCEPT !.phase = "ready"]
  /\ UNCHANGED <<groups, webVars, calls, fate>>

\* A submitted draft can only be confirmed again, as it was saved.
ConfirmStarted ==
  /\ Queued("confirm")
  /\ OnMine
  /\ conv.status = "started"
  /\ conv.draft.month # NoMonth
  /\ task' = AtWork("ready", conv.draft)
  /\ UNCHANGED <<groups, webVars, conv, calls, fate>>

\* createOrReuseCategory lists the categories and creates one in a later
\* request; nothing keeps two people from creating the same name.
FindCategory ==
  /\ task.phase = "ready"
  /\ task.draft.category = Proposed
  /\ IF task.who \in active /\ named # {}
     THEN \E g \in named : task' = [task EXCEPT !.draft.category = g]
     ELSE task' = [task EXCEPT !.phase = "naming"]
  /\ UNCHANGED <<groups, webVars, conv, calls, fate>>

CreateCategory ==
  /\ task.phase = "naming"
  /\ task.who \in active
  /\ \E g \in Categories \ known :
       /\ known' = known \cup {g}
       /\ named' = named \cup {g}
       /\ task' = [task EXCEPT !.phase = "ready", !.draft.category = g]
  /\ UNCHANGED <<groups, cards, active, linked, conv, calls, fate>>

CallCreate ==
  /\ task.phase = "ready"
  /\ task.draft.category # Proposed
  /\ HasTag
  /\ calls' = calls \cup {[tag |-> FreeTag, key |-> task.draft.key,
                           bought |-> BoughtBy(task.draft)]}
  /\ task' = [task EXCEPT !.phase = "waiting", !.tag = FreeTag]
  /\ UNCHANGED <<groups, webVars, conv, fate>>

\* The database executes a request, whether or not anyone still waits for it.
ExecuteCreate(c) ==
  /\ c \in calls
  /\ groups' = IF Succeeds(c)
               THEN groups \cup {GroupOf(c.key, c.bought)}
               ELSE groups
  /\ calls' = calls \ {c}
  /\ task' = IF task.phase = "waiting" /\ task.tag = c.tag
             THEN [task EXCEPT !.phase = "answered", !.tag = NoTag,
                     !.answer = IF Succeeds(c) THEN "created" ELSE "error"]
             ELSE task
  /\ UNCHANGED <<webVars, conv, fate>>

LoseCall(c) ==
  /\ c \in calls
  /\ calls' = calls \ {c}
  /\ UNCHANGED <<groups, webVars, conv, task, fate>>

\* Mutant: an error is taken for proof that nothing was saved.
VerdictReopens(answer) == IF answer = "created" THEN "saved" ELSE "awaiting"
\* Mutant: an error is taken for a replay.
VerdictTrusts(answer) == "saved"

\* Anything but the group itself leaves the outcome open.
Verdict(answer) == IF answer = "created" THEN "saved" ELSE "started"

\* The reply is lost, the client gives up, or logging the interaction fails.
AnswerLost ==
  /\ task.phase = "waiting" \/ (task.phase = "answered" /\ task.answer = "created")
  /\ task' = [task EXCEPT !.phase = "answered", !.tag = NoTag, !.answer = "error"]
  /\ UNCHANGED <<groups, webVars, conv, calls, fate>>

\* The conversation is saved: closed, or as submitted with the category found.
Conclude ==
  /\ task.phase = "answered"
  /\ IF Verdict(task.answer) = "saved"
     THEN /\ conv' = Closed
          /\ fate' = [fate EXCEPT ![task.draft.key] = "saved"]
     ELSE /\ conv' = Holding(Verdict(task.answer), task.draft)
          /\ fate' = fate
  /\ task' = Idle
  /\ UNCHANGED <<groups, webVars, calls>>

\* The process dies, or a request of the handler fails.  What was sent stays
\* in flight.
HandlerStops ==
  /\ task.phase # "idle"
  /\ task' = Idle
  /\ UNCHANGED <<groups, webVars, conv, calls, fate>>

------------------------------------------------------------------------
(* The web, membership and the Telegram link.                            *)

\* update_installment_group_category.
Recategorize(g) ==
  /\ \E c \in known \cup {NoCategory} :
       groups' = (groups \ {g}) \cup {[g EXCEPT !.bought.category = c]}
  /\ UNCHANGED <<webVars, conv, task, calls, fate>>

\* merge_category moves every group of the source.
Merge(s, t) ==
  /\ s # t
  /\ groups' = {IF g.bought.category = s THEN [g EXCEPT !.bought.category = t]
                ELSE g : g \in groups}
  /\ UNCHANGED <<webVars, conv, task, calls, fate>>

\* confirm_import_v2: a line of a statement that is linked to the purchase gives
\* it, once, the bank's description.
LinkStatement(g) ==
  /\ g.name = "own"
  /\ groups' = (groups \ {g}) \cup {[g EXCEPT !.name = "bank"]}
  /\ UNCHANGED <<webVars, conv, task, calls, fate>>

CreateOnWeb ==
  /\ named = {}
  /\ \E g \in Categories \ known :
       /\ known' = known \cup {g}
       /\ named' = {g}
  /\ UNCHANGED <<groups, cards, active, linked, conv, task, calls, fate>>

\* A card with purchases cannot be deleted.
DeleteCard(c) ==
  /\ c \in cards
  /\ \A g \in groups : g.bought.card # c
  /\ cards' = cards \ {c}
  /\ UNCHANGED <<groups, known, named, active, linked, conv, task, calls, fate>>

SetMembership(m) ==
  /\ active' = IF m \in active THEN active \ {m} ELSE active \cup {m}
  /\ UNCHANGED <<groups, cards, known, named, linked, conv, task, calls, fate>>

Unlink ==
  /\ linked \in active
  /\ linked' = NoOne
  /\ UNCHANGED <<groups, cards, known, named, active, conv, task, calls, fate>>

Link(m) ==
  /\ linked = NoOne
  /\ m \in active
  /\ linked' = m
  /\ UNCHANGED <<groups, cards, known, named, active, conv, task, calls, fate>>

------------------------------------------------------------------------
Handler == \/ RepairOnLoad \/ StartDraft \/ StartElsewhere \/ Correct
           \/ ChooseCategory \/ AcceptProposal \/ Cancel \/ Refuse
           \/ Prepare \/ SaveSubmission \/ ConfirmStarted
           \/ FindCategory \/ CreateCategory \/ CallCreate
           \/ AnswerLost \/ Conclude \/ HandlerStops

Database == \E c \in calls : ExecuteCreate(c) \/ LoseCall(c)

Web == \/ \E g \in groups : Recategorize(g) \/ LinkStatement(g)
       \/ \E s, t \in known : Merge(s, t)
       \/ CreateOnWeb
       \/ \E c \in cards : DeleteCard(c)

World == \/ \E m \in Members : SetMembership(m) \/ Link(m)
         \/ Unlink

Next == \/ \E via \in Vias, ask \in Asks : Receive(via, ask)
        \/ Handler \/ Database \/ Web \/ World

Spec == Init /\ [][Next]_vars

------------------------------------------------------------------------
(* Properties.                                                           *)

Task == [phase : Phases, via : Vias, ask : Asks, who : Members \cup {NoOne},
         draft : Draft \cup {NoDraft}, tag : Tags \cup {NoTag},
         answer : {"none", "created", "error"}]

\* Every variable holds a value of its kind; a request is only ever sent for a
\* complete draft with a key, a month and a category.
TypeOK ==
  /\ groups \subseteq Group
  /\ cards \subseteq Cards
  /\ named \subseteq known /\ known \subseteq Categories
  /\ active \subseteq Members
  /\ linked \in Members \cup {NoOne}
  /\ \/ conv = Closed
     \/ conv \in [status : {"awaiting", "started", "recovery"}, draft : Draft]
  /\ task \in Task
  /\ task.phase # "idle" => task.who \in Members
  /\ task.phase \notin {"idle", "queued"} => task.draft \in Draft
  /\ calls \subseteq Call
  /\ fate \in [Keys -> {"unused", "open", "saved", "released", "orphaned"}]

\* However often a draft is confirmed, and whatever is lost or late, one
\* purchase is saved for it.
OneGroupPerDraft == \A g, h \in groups : g.key = h.key => g = h

\* While the member may correct or cancel a draft, nothing of it is saved and
\* nothing on its way can save it.
EditableMeansUnsaved ==
  conv.status = "awaiting" =>
    /\ \A g \in groups : g.key # conv.draft.key
    /\ \A c \in calls : c.key # conv.draft.key

\* A draft that was cancelled or replaced is never saved afterwards.
ReleasedStaysUnsaved ==
  \A k \in Keys : fate[k] = "released" =>
    /\ \A g \in groups : g.key # k
    /\ \A c \in calls : c.key # k

SameSchedule(p, q) == p.card = q.card /\ p.what = q.what /\ p.month = q.month

\* "a crash after the commit still replays the same schedule": all requests
\* sent for a draft, and the purchase saved for it, have the same parcels in
\* the same months, however faturas close or reopen between two retries.
ScheduleIsPinned ==
  /\ \A c, d \in calls : c.key = d.key => SameSchedule(c.bought, d.bought)
  /\ \A c \in calls, g \in groups :
       c.key = g.key => SameSchedule(c.bought, g.bought)

\* The bot says "salva" only of a purchase that is saved as it was confirmed,
\* but for its category and name, which the web may have changed since.
SavedIsSaved ==
  [][\A k \in Keys : fate[k] # "saved" /\ fate'[k] = "saved" =>
       \E g \in groups : /\ g.key = k /\ task.draft.key = k
                         /\ SameSchedule(g.bought, BoughtBy(task.draft))]_vars

------------------------------------------------------------------------
(* What makes these properties inductive.                                *)

Holds(k) == conv.status # "closed" /\ conv.draft.key = k

\* Nothing is known of a key before it is minted, and of a minted one the
\* conversation is open exactly while it holds it.
KeysAreFresh ==
  \A k \in Keys :
    /\ fate[k] = "unused" => /\ \A g \in groups : g.key # k
                             /\ \A c \in calls : c.key # k
    /\ fate[k] = "open" <=> Holds(k)

\* The month is pinned by submitting, and what is submitted is complete.
DraftFitsStatus ==
  /\ conv.status = "awaiting" => conv.draft.month = NoMonth
  /\ conv.status = "started" => Complete(conv.draft)
  /\ conv.status = "recovery" => conv.draft.key = NoKey

\* Whatever was sent or saved for the submitted draft is what it says; before
\* its month is pinned nothing is on its way.
SubmittedAsHeld ==
  conv.status = "started" =>
    /\ \A g \in groups : g.key = conv.draft.key =>
         /\ g.bought.card = conv.draft.card /\ g.bought.what = conv.draft.what
         /\ conv.draft.month # NoMonth => g.bought.month = conv.draft.month
    /\ \A c \in calls : c.key = conv.draft.key =>
         SameSchedule(c.bought, BoughtBy(conv.draft))

\* A handler at work holds the conversation's draft, but for the month it is
\* about to pin or the category it has found.
TaskHoldsConv ==
  /\ task.phase = "submitting" =>
       /\ Submittable /\ Complete(conv.draft)
       /\ task.draft.month # NoMonth
       /\ task.draft = [conv.draft EXCEPT !.month = task.draft.month]
       /\ \A g \in groups :
            g.key = conv.draft.key => g.bought.month = task.draft.month
  /\ task.phase \in {"ready", "naming", "waiting", "answered"} =>
       /\ conv.status = "started" /\ conv.draft.month # NoMonth
       /\ task.draft = [conv.draft EXCEPT !.category = task.draft.category]
  /\ task.phase \notin {"idle", "queued"} => conv.draft.key # NoKey

\* The request a handler waits for is of its draft; a success it was told of
\* is a purchase with the draft's parcels.
AnswerIsOwn ==
  /\ task.phase = "waiting" =>
       \A c \in calls : c.tag = task.tag => c.key = task.draft.key
  /\ task.phase = "answered" /\ task.answer = "created" =>
       \E g \in groups : /\ g.key = task.draft.key
                         /\ SameSchedule(g.bought, BoughtBy(task.draft))

IInv == /\ TypeOK
        /\ OneGroupPerDraft
        /\ EditableMeansUnsaved
        /\ ReleasedStaysUnsaved
        /\ ScheduleIsPinned
        /\ KeysAreFresh
        /\ DraftFitsStatus
        /\ SubmittedAsHeld
        /\ TaskHoldsConv
        /\ AnswerIsOwn

------------------------------------------------------------------------
(* The promise of PaymentPromise.                                        *)

SavedPurchases == {[rid |-> g.key, id |-> g.key] : g \in groups}
ReleasedDrafts == {k \in Keys : fate[k] = "released"}

Promise == INSTANCE PaymentPromise
             WITH Intentions <- Keys, Ids <- Keys,
                  payments <- SavedPurchases, released <- ReleasedDrafts

\* The promise of PaymentPromise made of purchases: each step saves one
\* intention that was not given up, gives up one that is not saved, or changes
\* nothing the member counts.
PurchaseKeepsPromise == [][Promise!Next]_<<SavedPurchases, ReleasedDrafts>>

------------------------------------------------------------------------
(* Liveness.                                                             *)

\* The category a retry of the draft would ask for.
WouldAsk(d) == IF d.category = Proposed THEN named ELSE {d.category}

\* What a retry cannot get past: the saved purchase has another category than
\* the draft or the bank's name, or the draft's card was deleted before anything
\* was saved.
Tampered == \/ \E g \in SameKey(conv.draft.key) :
                 g.name = "bank" \/ WouldAsk(conv.draft) # {g.bought.category}
            \/ SameKey(conv.draft.key) = {} /\ conv.draft.card \notin cards

Ended == conv.status # "started" \/ linked \notin active \/ linked # conv.draft.by

\* "Tente confirmar novamente": a member who keeps confirming a submitted draft
\* gets an end to it, unless the web changes what it would be a retry of.
ConfirmingConcludes == (conv.status = "started") ~> (Ended \/ Tampered)

\* The same with no exception.
ConfirmingAlwaysConcludes == (conv.status = "started") ~> Ended

\* The member confirms again and again, and no crash or lost reply strikes the
\* same step every time.  Nothing is assumed of a single attempt.
AnswerWaiting == \E c \in calls : task.phase = "waiting" /\ task.tag = c.tag
                                  /\ ExecuteCreate(c)
ConcludeSaved == Conclude /\ Verdict(task.answer) = "saved"

KeepsConfirming ==
  /\ SF_vars(Receive("text", "confirm"))
  /\ SF_vars(RepairOnLoad \/ Prepare \/ ConfirmStarted)
  /\ SF_vars(SaveSubmission \/ CallCreate)
  /\ SF_vars(FindCategory)
  /\ SF_vars(CreateCategory)
  /\ SF_vars(AnswerWaiting)
  /\ SF_vars(ConcludeSaved)
  /\ WF_vars(Handler)
  /\ WF_vars(\E c \in calls : ExecuteCreate(c))

FairSpec == Spec /\ KeepsConfirming
=============================================================================
