----------------------------- MODULE BotPrompts -----------------------------
(***************************************************************************)
(* Ordinary entries through the Telegram bot: a text or a voice note opens *)
(* a draft, buttons and texts change it, and a confirmation records it.    *)
(* The buttons of a prompt carry a token that the conversation keeps; the  *)
(* id of the message is kept too, once Telegram has told it.               *)
(*                                                                         *)
(* One chat, in which several Telegram users may write and press each      *)
(* other's buttons.  The updates of the chat are handled one at a time,    *)
(* but their senders are resolved before they wait for their turn.  A      *)
(* handler makes its requests in order (insert, save, send, save again)    *)
(* and may die, or fail to send, between any two of them.                  *)
(*                                                                         *)
(* A draft's content (amount, date, category, responsible, instrument) is  *)
(* one value.  The drafts of other flows take the same path and are        *)
(* confirmed in modules of their own.                                      *)
(***************************************************************************)
EXTENDS Integers, FiniteSets

CONSTANTS
  Senders,       \* Telegram users in the chat
  People,        \* household members
  Contents,      \* what a draft with an amount says
  Drafts,        \* names of drafts, which the code does not have
  PromptTokens,  \* what randomBytes returns
  MessageIds,
  Nobody, NoContent, NoDraft, Unbound, NoMessage   \* absent values

ASSUME PromptAssumption ==
  /\ Nobody \notin People
  /\ NoContent \notin Contents
  /\ NoDraft \notin Drafts
  /\ Unbound \notin PromptTokens
  /\ NoMessage \notin MessageIds

VARIABLES
  speaksFor,  \* the member each Telegram user is linked to
  chats,      \* bot_conversations of the chat, by Telegram user
  prompts,    \* messages of the bot that have buttons
  waiting,    \* updates whose sender is resolved, in the chat's queue
  handling,   \* the webhook handler at work
  entries,    \* history: how each transaction came to be recorded
  times,      \* how often each draft was recorded
  lost        \* history: handlers that recorded a draft and did not save that

promptVars == <<speaksFor, chats, prompts, waiting, handling, entries, times, lost>>

------------------------------------------------------------------------
(* Records.                                                              *)

\* asked: awaiting_confirmation; amount: needs_amount; naming:
\* awaiting_category_name; choosing: awaiting_payment_choice.
Live == {"asked", "amount", "naming", "choosing"}

\* No draft while naming: the category is created for itself.
Conversation == [status : Live \cup {"none", "saved", "cancelled"},
         draft : Drafts \cup {NoDraft}, content : Contents \cup {NoContent},
         creator : People \cup {Nobody},
         token : PromptTokens \cup {Unbound}, prompt : MessageIds \cup {NoMessage}]

NoChat == [status |-> "none", draft |-> NoDraft, content |-> NoContent,
           creator |-> Nobody, token |-> Unbound, prompt |-> NoMessage]

\* What the buttons of a message are, and what its text says of the draft.
Prompt == [id : MessageIds, to : Senders, token : PromptTokens \cup {Unbound},
           buttons : {"summary", "grid", "name", "choice"},
           content : Contents \cup {NoContent}]

\* "set" names a content: a correction, a choice of a grid, a name typed.
Ask == [what : {"confirm", "cancel", "name", "look"}] \cup
       [what : {"set"}, content : Contents \cup {NoContent}]
Asked(w) == [what |-> w]
Setting(v) == [what |-> "set", content |-> v]

Offered(buttons) ==
  CASE buttons = "summary" -> {Asked("confirm"), Asked("cancel"), Asked("look")}
                              \cup {Setting(v) : v \in Contents}
    [] buttons = "grid"    -> {Asked("name")} \cup {Setting(v) : v \in Contents}
    [] buttons = "name"    -> {Asked("cancel")}
    [] buttons = "choice"  -> {Setting(v) : v \in Contents}

Typed  == [from : Senders, by : People, kind : {"text", "voice"}, ask : Ask]
Tapped == [from : Senders, by : People, kind : {"tap"}, ask : Ask, on : Prompt]

\* next is what will be saved; buttons are those of the reply, if any; keep is
\* the prompt that stays current when the reply has none.
Idle == [phase |-> "idle"]
Handler == {Idle} \cup
  [phase : {"recording", "saving", "sending", "sent"}, of : Typed \cup Tapped,
   next : Conversation, buttons : {"summary", "grid", "name", "choice", "none"},
   keep : MessageIds \cup {NoMessage}]

\* History: what was recorded, who confirmed it, what the confirmed message
\* said and to whom it was sent.
Entry == [draft : Drafts, content : Contents, creator : People, by : People,
          from : Senders, shown : Contents \cup {NoContent}, to : Senders]

Row(u)     == chats[u.from]
Belongs(u) == Row(u).creator = u.by

------------------------------------------------------------------------
(* Whose button it is.                                                   *)

\* Mutant: a button without a token needs no message id that was kept.
BoundLoosely(c, m) == m.token # Unbound => m.token = c.token

\* parsePromptCallbackData and the checks of the token.
BoundTo(c, m) == IF m.token # Unbound THEN m.token = c.token
                 ELSE c.prompt # NoMessage

\* Everything handleWebhook checks before it applies a tap.
TapAccepted(u) ==
  /\ \A s \in Senders \ {u.from} : chats[s].prompt # u.on.id    \* hasOtherPrompt
  /\ Row(u).status # "none"
  /\ BoundTo(Row(u), u.on)
  /\ Row(u).prompt \in {NoMessage, u.on.id}
  /\ Belongs(u)

\* "confirmar" typed again.
AlreadySaved(u) == /\ u.kind = "text" /\ u.ask = Asked("confirm")
                   /\ Row(u).status = "saved" /\ Belongs(u)

\* Goes to the draft that exists; other texts and every voice note open one.
Continues(u) == /\ Row(u).status \in Live
                /\ \/ u.kind = "tap" /\ TapAccepted(u)
                   \/ u.kind = "text" /\ Belongs(u)
Opens(u) == \/ u.kind = "voice"
            \/ /\ u.kind = "text" /\ ~AlreadySaved(u)
              /\ (Row(u).status \notin Live \/ ~Belongs(u))

------------------------------------------------------------------------
(* Receiving.                                                            *)

Receive(u) ==
  /\ u \notin waiting
  /\ waiting' = waiting \cup {u}
  /\ UNCHANGED <<speaksFor, chats, prompts, handling, entries, times, lost>>

\* Only a linked user is listened to.
ReceiveTyped(s, kind, ask) ==
  /\ speaksFor[s] \in People
  /\ Receive([from |-> s, by |-> speaksFor[s], kind |-> kind, ask |-> ask])

ReceiveTap(s, m, ask) ==
  /\ speaksFor[s] \in People
  /\ ask \in Offered(m.buttons)
  /\ Receive([from |-> s, by |-> speaksFor[s], kind |-> "tap", ask |-> ask, on |-> m])

\* A tap that is refused, or silent; a note that cannot be transcribed.
Ignore(u) ==
  /\ handling = Idle /\ u \in waiting
  /\ \/ u.kind = "tap" /\ (~TapAccepted(u) \/ Row(u).status \notin Live)
     \/ AlreadySaved(u)
     \/ u.kind = "voice"
  /\ waiting' = waiting \ {u}
  /\ UNCHANGED <<speaksFor, chats, prompts, handling, entries, times, lost>>

\* The row is older than a day, and deleted when its user's update loads it.
ExpireChat(s) ==
  /\ handling = Idle /\ \E u \in waiting : u.from = s
  /\ chats' = [chats EXCEPT ![s] = NoChat]
  /\ UNCHANGED <<speaksFor, prompts, waiting, handling, entries, times, lost>>

TokenFree(t) == /\ \A s \in Senders : chats[s].token # t
                /\ \A m \in prompts : m.token # t

\* Mutant: the id of the prompt that is replaced stays.
KeepsPromptId(u) == Row(u).prompt

\* The message id of the first save, when the state is a new one or the
\* reply has buttons.
PromptSaved(u) == NoMessage

\* The message id of the second save, when the reply has no buttons.
PromptKept(u) ==
  IF u.kind = "text" /\ Row(u).status \notin Live THEN Row(u).prompt ELSE NoMessage

\* The token, when the reply has no buttons.
TokenKept(u) == IF Continues(u) THEN Row(u).token ELSE Unbound

ReplyWith(u, phase, c, buttons, keep) ==
  /\ handling = Idle /\ u \in waiting
  /\ waiting' = waiting \ {u}
  /\ handling' = [phase |-> phase, of |-> u, buttons |-> buttons, next |-> c,
                  keep |-> keep]
  /\ UNCHANGED <<speaksFor, chats, prompts, entries, times, lost>>

\* A new state of the conversation, or buttons that replace the last ones.
Reply(u, phase, c, buttons) ==
  \E t \in {x \in PromptTokens : buttons # "none" /\ TokenFree(x)}
           \cup {y \in {TokenKept(u)} : buttons = "none"} :
    ReplyWith(u, phase, [c EXCEPT !.token = t, !.prompt = PromptSaved(u)], buttons,
           PromptKept(u))

\* Words only: the state, its token and its prompt stay.
ReplyOnly(u) == ReplyWith(u, "saving", Row(u), "none", Row(u).prompt)

------------------------------------------------------------------------
(* startConversation, also from audio.                                   *)

DraftFree(d) == times[d] = 0 /\ \A s \in Senders : chats[s].draft # d

NewChat(u, status, d, v) ==
  [NoChat EXCEPT !.status = status, !.draft = d, !.content = v, !.creator = u.by]

\* statusForDraft
StatusFor(v) == IF v = NoContent THEN "amount" ELSE "asked"

\* keyboardForState
ButtonsOf(status) == CASE status = "asked" -> "summary" [] status = "naming" -> "name"
                       [] status = "choosing" -> "choice" [] OTHER -> "none"

\* An entry, complete, without its amount, or with two instruments that fit;
\* a word of a draft that is gone makes an entry without an amount.
OpenDraft(u, d) ==
  /\ Opens(u) /\ DraftFree(d)
  /\ \/ /\ u.ask.what = "set"
        /\ \E status \in {"choosing", StatusFor(u.ask.content)} :
             Reply(u, "saving", NewChat(u, status, d, u.ask.content), ButtonsOf(status))
     \/ /\ u.ask.what \in {"confirm", "cancel"}
        /\ Reply(u, "saving", NewChat(u, "amount", d, NoContent), "none")

\* "nova categoria" on its own; recent entries, or anything not understood.
OpenNothing(u) ==
  /\ Opens(u)
  /\ u.ask.what \in {"name", "look"}
  /\ LET status == IF u.ask.what = "name" THEN "naming" ELSE "cancelled"
     IN Reply(u, "saving", NewChat(u, status, NoDraft, NoContent), ButtonsOf(status))

------------------------------------------------------------------------
(* applyMessage and applyCallback.                                       *)

Shows(u, c) == Reply(u, "saving", c, ButtonsOf(c.status))
With(c, v)  == [c EXCEPT !.status = StatusFor(v), !.content = v]
Open(u)     == Continues(u) /\ Row(u).status \in {"asked", "amount"}

\* A correction; only a text gives the amount that is missing.
CorrectByText(u) ==
  /\ Open(u) /\ u.kind = "text" /\ u.ask.what = "set"
  /\ \E v \in {u.ask.content, NoContent} :
       /\ v = NoContent => Row(u).content = NoContent
       /\ Shows(u, With(Row(u), v))

\* A category, a responsible.
SetByTap(u) ==
  /\ Open(u) /\ u.kind = "tap" /\ u.ask.what = "set"
  /\ Shows(u, With(Row(u), IF Row(u).content = NoContent THEN NoContent
                           ELSE u.ask.content))

\* An account or a card of those offered, still active.
ChooseInstrument(u) ==
  /\ Continues(u) /\ Row(u).status = "choosing" /\ u.ask.what = "set"
  /\ Row(u).content = NoContent \/ u.ask.content # NoContent
  /\ Shows(u, With(Row(u), IF Row(u).content = NoContent THEN NoContent
                           ELSE u.ask.content))

AskName(u) ==
  /\ Open(u) /\ u.ask.what = "name"
  /\ Shows(u, [Row(u) EXCEPT !.status = "naming"])

\* Whatever is typed is a name, except "cancelar": the draft's new category.
GiveName(u) ==
  /\ Continues(u) /\ Row(u).status = "naming" /\ Row(u).draft # NoDraft
  /\ u.kind = "text" /\ u.ask.what \notin {"cancel", "look"}
  /\ \E v \in IF Row(u).content = NoContent THEN {NoContent} ELSE Contents :
       Shows(u, With(Row(u), v))

\* The category exists now; nothing else was asked for.
NameCategory(u) ==
  /\ Continues(u) /\ Row(u).status = "naming" /\ Row(u).draft = NoDraft
  /\ u.kind = "text" /\ u.ask.what \notin {"cancel", "look"}
  /\ Shows(u, [Row(u) EXCEPT !.status = "cancelled"])

\* The categories, or the members.
ShowGrid(u) ==
  /\ Open(u) /\ u.kind = "tap" /\ u.ask.what = "look"
  /\ Reply(u, "saving", Row(u), "grid")

\* Recent entries, or a text that corrects nothing.
SayOnly(u) ==
  /\ Open(u) /\ u.kind = "text"
  /\ u.ask = Asked("look") \/ u.ask = Setting(NoContent)
  /\ ReplyOnly(u)

\* Not a valid name; none of the instruments offered.
AskAgain(u) ==
  /\ Continues(u) /\ u.kind = "text"
  /\ \/ Row(u).status = "naming" /\ u.ask.what = "look"
     \/ Row(u).status = "choosing" /\ (u.ask.what # "set" \/ u.ask = Setting(NoContent))
  /\ Shows(u, Row(u))

CancelDraft(u) ==
  /\ Open(u) /\ u.ask.what = "cancel"
  /\ Shows(u, [Row(u) EXCEPT !.status = "cancelled"])

\* The draft is back, with its amount or without.
CancelName(u) ==
  /\ Continues(u) /\ Row(u).status = "naming" /\ u.ask.what = "cancel"
  /\ Shows(u, [Row(u) EXCEPT !.status = IF Row(u).draft = NoDraft THEN "cancelled"
                                        ELSE "asked"])

\* confirmDraft, with the proposed category if there is one, and persist.
\* Without an account, or refused by the domain, the draft is shown again.
ConfirmEntry(u) ==
  /\ Open(u) /\ u.ask.what = "confirm"
  /\ IF Row(u).content = NoContent THEN Shows(u, With(Row(u), NoContent))
     ELSE \/ Shows(u, With(Row(u), Row(u).content))
          \/ Reply(u, "recording", [Row(u) EXCEPT !.status = "saved"], "none")

------------------------------------------------------------------------
(* The handler's requests, in order.                                     *)

\* What the pressed message said; a text confirms what the draft says.
Shown(h) == IF h.of.kind = "tap" THEN h.of.on.content ELSE h.next.content
ShownTo(h) == IF h.of.kind = "tap" THEN h.of.on.to ELSE h.of.from

\* deps.createTransaction
RecordEntry ==
  /\ handling.phase = "recording"
  /\ entries' = entries \cup
       {[draft |-> handling.next.draft, content |-> handling.next.content,
         creator |-> handling.next.creator, by |-> handling.of.by,
         from |-> handling.of.from, shown |-> Shown(handling),
         to |-> ShownTo(handling)]}
  /\ times' = [times EXCEPT ![handling.next.draft] = @ + 1]
  /\ handling' = [handling EXCEPT !.phase = "saving"]
  /\ UNCHANGED <<speaksFor, chats, prompts, waiting, lost>>

\* Mutant: the reply goes out before the outcome is saved.
SaveLate ==
  /\ handling.phase = "saving"
  /\ handling' = [handling EXCEPT !.phase = "sending"]
  /\ UNCHANGED <<speaksFor, chats, prompts, waiting, entries, times, lost>>

\* Persist first.
SaveChat ==
  /\ handling.phase = "saving"
  /\ chats' = [chats EXCEPT ![handling.of.from] = handling.next]
  /\ handling' = [handling EXCEPT !.phase = "sending"]
  /\ UNCHANGED <<speaksFor, prompts, waiting, entries, times, lost>>

\* The old buttons are stripped, which may fail: they can still be pressed.
SendReply ==
  /\ handling.phase = "sending"
  /\ \/ /\ handling.buttons = "none"
        /\ handling' = [handling EXCEPT !.phase = "sent", !.next.prompt = handling.keep]
        /\ UNCHANGED prompts
     \/ \E i \in MessageIds :
        /\ handling.buttons # "none"
        /\ \A m \in prompts : m.id # i
        /\ prompts' = prompts \cup
             {[id |-> i, to |-> handling.of.from, token |-> handling.next.token,
               buttons |-> handling.buttons, content |-> handling.next.content]}
        /\ handling' = [handling EXCEPT !.phase = "sent", !.next.prompt = i]
  /\ UNCHANGED <<speaksFor, chats, waiting, entries, times, lost>>

SaveAgain ==
  /\ handling.phase = "sent"
  /\ chats' = [chats EXCEPT ![handling.of.from] = handling.next]
  /\ handling' = Idle
  /\ UNCHANGED <<speaksFor, prompts, waiting, entries, times, lost>>

\* The process dies, or a request fails; logging the interaction, between
\* recording and saving, may fail too.
HandlerFails ==
  /\ handling # Idle
  /\ handling' = Idle
  /\ lost' = IF handling.phase = "saving" /\ handling.next.status = "saved"
             THEN [lost EXCEPT ![handling.next.draft] = @ + 1] ELSE lost
  /\ UNCHANGED <<speaksFor, chats, prompts, waiting, entries, times>>

\* Linked to a member nobody else speaks for, or unlinked.
Relink(s, m) ==
  /\ m # Nobody => \A x \in Senders : speaksFor[x] # m
  /\ speaksFor' = [speaksFor EXCEPT ![s] = m]
  /\ UNCHANGED <<chats, prompts, waiting, handling, entries, times, lost>>

------------------------------------------------------------------------
\* A draft may be from before prompts had tokens, its message id kept or not.
OldChat(s, d, v, m, i) ==
  [NoChat EXCEPT !.status = "asked", !.draft = d, !.content = v, !.creator = m,
                 !.prompt = i]
OldPrompt(s, v, i) ==
  [id |-> i, to |-> s, token |-> Unbound, buttons |-> "summary", content |-> v]

PromptInit ==
  /\ speaksFor \in [Senders -> People \cup {Nobody}]
  /\ \A s, x \in Senders : s # x => speaksFor[s] = Nobody \/ speaksFor[s] # speaksFor[x]
  /\ \/ chats = [s \in Senders |-> NoChat] /\ prompts = {}
     \/ \E s \in Senders, d \in Drafts, v \in Contents, i \in MessageIds :
          /\ speaksFor[s] # Nobody
          /\ prompts = {OldPrompt(s, v, i)}
          /\ \E k \in {i, NoMessage} :
               chats = [x \in Senders |-> IF x = s THEN OldChat(s, d, v, speaksFor[s], k)
                                          ELSE NoChat]
  /\ waiting = {} /\ handling = Idle /\ entries = {}
  /\ times = [d \in Drafts |-> 0] /\ lost = [d \in Drafts |-> 0]

Converse(u) ==
  \/ \E d \in Drafts : OpenDraft(u, d)
  \/ OpenNothing(u) \/ CorrectByText(u) \/ SetByTap(u) \/ ChooseInstrument(u)
  \/ AskName(u) \/ GiveName(u) \/ NameCategory(u)
  \/ ShowGrid(u) \/ SayOnly(u) \/ AskAgain(u)
  \/ CancelDraft(u) \/ CancelName(u) \/ ConfirmEntry(u) \/ Ignore(u)

HandlerStep == RecordEntry \/ SaveChat \/ SendReply \/ SaveAgain \/ HandlerFails

PromptNext ==
  \/ \E s \in Senders, ask \in Ask :
       \/ \E kind \in {"text", "voice"} : ReceiveTyped(s, kind, ask)
       \/ \E m \in prompts : ReceiveTap(s, m, ask)
  \/ \E u \in waiting : Converse(u)
  \/ HandlerStep
  \/ \E s \in Senders : ExpireChat(s) \/ \E m \in People \cup {Nobody} : Relink(s, m)

PromptSpec == PromptInit /\ [][PromptNext]_promptVars

------------------------------------------------------------------------
(* Properties.                                                           *)

\* Every variable has its type.
PromptTypeOK ==
  /\ speaksFor \in [Senders -> People \cup {Nobody}]
  /\ chats \in [Senders -> Conversation]
  /\ prompts \in SUBSET Prompt
  /\ waiting \in SUBSET (Typed \cup Tapped)
  /\ handling \in Handler
  /\ entries \in SUBSET Entry
  /\ times \in [Drafts -> Nat] /\ lost \in [Drafts -> Nat]

\* Whoever presses which of the chat's buttons, old or new, and whatever was
\* not sent or not saved: what is recorded is what the pressed message said,
\* to the one who pressed it, in the name of the member it was created by.
RecordedAsConfirmed ==
  \A e \in entries : e.content = e.shown /\ e.from = e.to /\ e.creator = e.by

\* Taps and texts repeated or at once record a draft once, and once more for
\* each handler that dies between recording it and saving that.
RecordedOnce == \A d \in Drafts : times[d] <= 1 + lost[d]

\* The buttons that carry the token of a draft are not refused to its owner
\* because another message is remembered, whatever could not be saved.
PromptStaysUsable ==
  handling = Idle =>
    \A s \in Senders, m \in prompts :
      (chats[s].status \in Live /\ m.token # Unbound /\ m.token = chats[s].token)
         => /\ m.to = s /\ chats[s].prompt \in {NoMessage, m.id}
            /\ \A x \in Senders \ {s} : chats[x].prompt # m.id
=============================================================================
