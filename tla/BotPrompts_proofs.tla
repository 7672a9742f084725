------------------------- MODULE BotPrompts_proofs -------------------------
(***************************************************************************)
(* What the buttons of a chat can do, for any senders, members, drafts,    *)
(* prompts and updates: type correctness and the properties of BotPrompts, *)
(* from one inductive invariant.  A conversation and the state that its    *)
(* handler is about to save obey the same parts of it.                     *)
(***************************************************************************)
EXTENDS BotPrompts, TLAPS

Busy == handling.phase # "idle"
Mine == handling.of.from

\* What a conversation says of itself.
Sound(c) ==
  /\ c.status # "none" => c.creator \in People
  /\ c.status \in {"asked", "amount", "choosing", "saved"} => c.draft \in Drafts
  /\ c.status = "amount" => c.content = NoContent
  /\ c.status = "saved" => c.content \in Contents
  /\ c.status \notin Live => c.prompt = NoMessage

SoundRows == /\ \A s \in Senders : Sound(chats[s])
             /\ Busy => Sound(handling.next)

\* The buttons that a conversation takes were sent to its owner, and a summary
\* with them says what the draft says.
Fits(m, s, c) ==
  /\ m.to = s
  /\ c.prompt \in {NoMessage, m.id}
  /\ m.buttons = "summary" /\ c.status \in Live =>
       c.status \in {"asked", "amount"} /\ m.content = c.content

Bound(s, c) ==
  /\ \A m \in prompts : m.token # Unbound /\ m.token = c.token => Fits(m, s, c)
  /\ c.prompt # NoMessage =>
       \E m \in prompts : m.id = c.prompt /\ Fits(m, s, c)

BoundRows == /\ \A s \in Senders : Bound(s, chats[s])
             /\ Busy => Bound(Mine, handling.next)

Apart == \A m, n \in prompts :
           m # n => m.id # n.id /\ (m.token # Unbound => m.token # n.token)

\* A tap is on a message that was sent, with one of its buttons.
Pressed == \A u \in waiting :
             u.kind = "tap" => u.on \in prompts /\ u.ask \in Offered(u.on.buttons)

\* Buttons are sent with a conversation that waits for an answer.
Suits(buttons, status) == /\ buttons # "none" => status \in Live
                          /\ buttons = "summary" => status = "asked"

\* Buttons about to be sent have a token of their own.
NewButtons ==
  Busy /\ handling.buttons # "none" =>
    /\ Suits(handling.buttons, handling.next.status)
    /\ handling.next.token # Unbound
    /\ \A s \in Senders \ {Mine} : chats[s].token # handling.next.token
    /\ handling.phase # "sent" =>
         /\ handling.next.prompt = NoMessage
         /\ \A m \in prompts : m.token # handling.next.token

Alike(c, e) == /\ c.status = e.status /\ c.draft = e.draft /\ c.content = e.content
               /\ c.creator = e.creator /\ c.token = e.token

\* After the first save only the message id is still to be saved.
Carried ==
  Busy =>
    /\ handling.phase = "sent" => Alike(chats[Mine], handling.next)
    /\ handling.phase # "sent" => handling.keep \in {NoMessage, handling.next.prompt}
    /\ handling.phase = "sending" => handling.next = chats[Mine]

\* A confirmation was given by the creator, on what the draft says.
Recording ==
  handling.phase = "recording" =>
    /\ handling.next.status = "saved" /\ handling.buttons = "none"
    /\ handling.next.creator = handling.of.by
    /\ Shown(handling) = handling.next.content
    /\ ShownTo(handling) = Mine

OwnDrafts ==
  /\ \A s, x \in Senders :
       s # x /\ chats[s].draft # NoDraft => chats[s].draft # chats[x].draft
  /\ Busy => \A x \in Senders \ {Mine} :
               chats[x].draft # NoDraft => chats[x].draft # handling.next.draft

\* A draft that can still be confirmed was recorded only by handlers that died.
Unrecorded(c) == c.status \in Live /\ c.draft # NoDraft => times[c.draft] <= lost[c.draft]
RecordedNow(d) == /\ handling.phase = "saving" /\ handling.next.status = "saved"
                  /\ handling.next.draft = d
Counted ==
  /\ RecordedOnce
  /\ \A s \in Senders : RecordedNow(chats[s].draft) \/ Unrecorded(chats[s])
  /\ Busy => Unrecorded(handling.next)
  /\ handling.phase = "recording" =>
       times[handling.next.draft] <= lost[handling.next.draft]

ButtonsInv == SoundRows /\ BoundRows /\ Apart /\ Pressed /\ NewButtons
DraftsInv  == Carried /\ Recording /\ OwnDrafts /\ Counted /\ RecordedAsConfirmed
PIInv == PromptTypeOK /\ ButtonsInv /\ DraftsInv

------------------------------------------------------------------------
(* Records.                                                              *)

LEMMA IdleIsIdle ==
  ASSUME PromptTypeOK
  PROVE  /\ handling.phase \in {"idle", "recording", "saving", "sending", "sent"}
         /\ Busy <=> handling # Idle
         /\ Busy => /\ handling.of \in Typed \cup Tapped /\ handling.next \in Conversation
                    /\ handling.buttons \in {"summary", "grid", "name", "choice", "none"}
                    /\ handling.keep \in MessageIds \cup {NoMessage}
                    /\ Mine \in Senders /\ handling.of.by \in People
                    /\ handling = [phase |-> handling.phase, of |-> handling.of,
                                   next |-> handling.next, buttons |-> handling.buttons,
                                   keep |-> handling.keep]
  BY DEF PromptTypeOK, Handler, Idle, Busy, Mine, Typed, Tapped

LEMMA RowTyped ==
  ASSUME PromptTypeOK, NEW s \in Senders
  PROVE  chats[s] \in Conversation
  BY DEF PromptTypeOK

LEMMA UpdateTyped ==
  ASSUME PromptTypeOK, NEW u \in waiting
  PROVE  /\ u \in Typed \cup Tapped /\ u.from \in Senders /\ u.by \in People
         /\ u.ask \in Ask /\ u.kind \in {"text", "voice", "tap"}
         /\ Row(u) \in Conversation /\ Row(u) = chats[u.from]
  BY DEF PromptTypeOK, Typed, Tapped, Row

------------------------------------------------------------------------
(* Nothing of the past is recorded yet.                                  *)

LEMMA StartsSound == PromptInit => PIInv
<1> SUFFICES ASSUME PromptInit PROVE PIInv
  OBVIOUS
<1>1. /\ waiting = {} /\ handling = Idle /\ handling.phase = "idle" /\ entries = {}
      /\ \A d \in Drafts : times[d] = 0 /\ lost[d] = 0
      /\ times \in [Drafts -> Nat] /\ lost \in [Drafts -> Nat]
      /\ speaksFor \in [Senders -> People \cup {Nobody}]
  BY DEF PromptInit, Idle
<1>2. NoChat \in Conversation
  BY DEF NoChat, Conversation
<1>3. ~Busy
  BY <1>1 DEF Busy
<1>4. CASE chats = [s \in Senders |-> NoChat] /\ prompts = {}
  <2>1. PromptTypeOK
    BY <1>1, <1>2, <1>4 DEF PromptTypeOK, Handler
  <2>2. ButtonsInv
    BY <1>1, <1>3, <1>4 DEF ButtonsInv, SoundRows, BoundRows, Apart, Pressed, NewButtons,
       Sound, Bound, NoChat
  <2>3. DraftsInv
    BY <1>1, <1>3, <1>4 DEF DraftsInv, Carried, Recording, OwnDrafts, Counted, Unrecorded,
       RecordedOnce, RecordedAsConfirmed, NoChat
  <2> QED
    BY <2>1, <2>2, <2>3 DEF PIInv
<1>5. ASSUME NEW s \in Senders, NEW d \in Drafts, NEW v \in Contents, NEW i \in MessageIds,
             NEW k \in {i, NoMessage}, speaksFor[s] # Nobody,
             prompts = {OldPrompt(s, v, i)},
             chats = [x \in Senders |-> IF x = s THEN OldChat(s, d, v, speaksFor[s], k)
                                        ELSE NoChat]
      PROVE  PIInv
  <2> DEFINE c == OldChat(s, d, v, speaksFor[s], k)
  <2>0. speaksFor[s] \in People
    BY <1>1, <1>5
  <2>1. /\ c \in Conversation
        /\ c.status = "asked" /\ c.draft = d /\ c.content = v /\ c.creator = speaksFor[s]
        /\ c.token = Unbound /\ c.prompt = k
    BY <2>0 DEF OldChat, NoChat, Conversation, Live
  <2> HIDE DEF c
  <2>2. OldPrompt(s, v, i) \in Prompt
    BY DEF OldPrompt, Prompt
  <2>4. PromptTypeOK
    BY <1>1, <1>2, <1>5, <2>1, <2>2 DEF PromptTypeOK, Handler, c
  <2>5. /\ chats[s] = c
        /\ \A x \in Senders \ {s} : chats[x] = NoChat
    BY <1>5 DEF c
  <2>6. Sound(chats[s]) /\ Bound(s, chats[s])
    BY <2>0, <2>1, <2>5, <1>5 DEF Sound, Bound, Fits, OldPrompt, Live
  <2>7. \A x \in Senders \ {s} : Sound(chats[x]) /\ Bound(x, chats[x])
    BY <2>5 DEF Sound, Bound, NoChat
  <2>8. ButtonsInv
    BY <1>1, <1>3, <1>5, <2>6, <2>7 DEF ButtonsInv, SoundRows, BoundRows, Apart, Pressed,
       NewButtons
  <2>9. OwnDrafts
    BY <1>3, <2>1, <2>5 DEF OwnDrafts, NoChat
  <2>10. DraftsInv
    BY <1>1, <1>3, <2>1, <2>5, <2>9 DEF DraftsInv, Carried, Recording, Counted, Unrecorded,
       RecordedOnce, RecordedAsConfirmed, NoChat
  <2> QED
    BY <2>4, <2>8, <2>10 DEF PIInv
<1> QED
  BY <1>4, <1>5 DEF PromptInit

------------------------------------------------------------------------
(* What a handler may start with, and that it then keeps the invariant.    *)

Takes(u, phase, c, buttons, keep) ==
  /\ phase \in {"recording", "saving"} /\ c \in Conversation
  /\ buttons \in {"summary", "grid", "name", "choice", "none"}
  /\ keep \in {NoMessage, c.prompt}
  /\ Sound(c) /\ Bound(u.from, c) /\ Unrecorded(c)
  /\ buttons # "none" =>
       /\ Suits(buttons, c.status) /\ c.token # Unbound /\ c.prompt = NoMessage
       /\ \A s \in Senders : chats[s].token # c.token
       /\ \A m \in prompts : m.token # c.token
  /\ \A x \in Senders \ {u.from} : chats[x].draft # NoDraft => chats[x].draft # c.draft
  /\ phase = "recording" =>
       /\ c.status = "saved" /\ buttons = "none" /\ c.creator = u.by
       /\ u.kind = "tap" => u.on.content = c.content /\ u.on.to = u.from
       /\ times[c.draft] <= lost[c.draft]

LEMMA Begins ==
  ASSUME PIInv, NEW u \in waiting, NEW phase, NEW c, NEW buttons, NEW keep,
         ReplyWith(u, phase, c, buttons, keep), Takes(u, phase, c, buttons, keep)
  PROVE  PIInv'
<1>1. /\ handling = Idle /\ waiting' = waiting \ {u}
      /\ handling' = [phase |-> phase, of |-> u, buttons |-> buttons, next |-> c,
                      keep |-> keep]
      /\ UNCHANGED <<speaksFor, chats, prompts, entries, times, lost>>
  BY DEF ReplyWith
<1>2. /\ handling'.phase = phase /\ handling'.of = u /\ handling'.buttons = buttons
      /\ handling'.next = c /\ handling'.keep = keep /\ ~Busy
      /\ phase \in {"recording", "saving"} /\ c \in Conversation
      /\ buttons \in {"summary", "grid", "name", "choice", "none"}
      /\ keep \in MessageIds \cup {NoMessage}
  BY <1>1 DEF Busy, Idle, Takes, Conversation
<1>3. PromptTypeOK'
  <2>1. u \in Typed \cup Tapped
    BY DEF PIInv, PromptTypeOK
  <2>2. handling' \in Handler
    BY <1>1, <1>2, <2>1 DEF Handler
  <2> QED
    BY <1>1, <2>2 DEF PIInv, PromptTypeOK
<1>4. ButtonsInv'
  <2>1. SoundRows'
    BY <1>1, <1>2 DEF PIInv, ButtonsInv, SoundRows, Takes, Sound
  <2>2. BoundRows'
    BY <1>1, <1>2 DEF PIInv, ButtonsInv, BoundRows, Takes, Bound, Fits, Mine
  <2>3. Apart' /\ Pressed'
    BY <1>1 DEF PIInv, ButtonsInv, Apart, Pressed
  <2>4. NewButtons'
    BY <1>1, <1>2 DEF NewButtons, Takes, Mine
  <2> QED
    BY <2>1, <2>2, <2>3, <2>4 DEF ButtonsInv
<1>5. DraftsInv'
  <2>1. Carried'
    BY <1>1, <1>2 DEF Carried, Takes
  <2>2. Recording'
    BY <1>1, <1>2 DEF Recording, Takes, Shown, ShownTo, Mine
  <2>3. OwnDrafts'
    BY <1>1, <1>2 DEF PIInv, DraftsInv, OwnDrafts, Takes, Mine
  <2>4. \A s \in Senders : Unrecorded(chats[s])
    BY <1>1 DEF PIInv, DraftsInv, Counted, RecordedNow, Idle
  <2>5. Counted'
    BY <1>1, <1>2, <2>4 DEF PIInv, DraftsInv, Counted, RecordedOnce, Takes, Unrecorded
  <2>6. RecordedAsConfirmed'
    BY <1>1 DEF PIInv, DraftsInv, RecordedAsConfirmed
  <2> QED
    BY <2>1, <2>2, <2>3, <2>5, <2>6 DEF DraftsInv
<1> QED
  BY <1>3, <1>4, <1>5 DEF PIInv

\* The state a reply leaves behind, before its token.
Leaves(u, phase, c, buttons) ==
  /\ phase \in {"recording", "saving"} /\ c \in Conversation
  /\ Suits(buttons, c.status)
  /\ c.status \in {"asked", "choosing", "naming"} => buttons # "none"
  /\ c.status # "none" => c.creator \in People
  /\ c.status \in {"asked", "amount", "choosing", "saved"} => c.draft \in Drafts
  /\ c.status = "amount" => c.content = NoContent
  /\ c.status = "saved" => c.content \in Contents
  /\ Unrecorded(c)
  /\ \A x \in Senders \ {u.from} : chats[x].draft # NoDraft => chats[x].draft # c.draft
  /\ c.status = "amount" /\ Continues(u) /\ Row(u).status \in {"asked", "amount"} =>
       Row(u).content = NoContent
  /\ phase = "recording" =>
       /\ c.status = "saved" /\ buttons = "none" /\ c.creator = u.by
       /\ u.kind = "tap" => u.on.content = c.content /\ u.on.to = u.from
       /\ times[c.draft] <= lost[c.draft]

LEMMA Replies ==
  ASSUME PIInv, NEW u \in waiting, NEW phase, NEW c, NEW buttons,
         buttons \in {"summary", "grid", "name", "choice", "none"},
         Reply(u, phase, c, buttons), Leaves(u, phase, c, buttons)
  PROVE  PIInv'
<1>1. PICK t \in {x \in PromptTokens : buttons # "none" /\ TokenFree(x)}
                \cup {y \in {TokenKept(u)} : buttons = "none"} :
        ReplyWith(u, phase, [c EXCEPT !.token = t, !.prompt = PromptSaved(u)], buttons,
                  PromptKept(u))
  BY DEF Reply
<1>2. /\ handling = Idle /\ ~Busy /\ u.from \in Senders
      /\ Row(u) = chats[u.from] /\ Row(u) \in Conversation
      /\ Sound(Row(u)) /\ Bound(u.from, Row(u))
  BY <1>1, UpdateTyped DEF ReplyWith, Busy, Idle, PIInv, ButtonsInv, SoundRows, BoundRows
<1>3. t \in PromptTokens \cup {Unbound} /\ TokenKept(u) \in PromptTokens \cup {Unbound}
  BY <1>2 DEF TokenKept, Conversation
<1> DEFINE e == [c EXCEPT !.token = t, !.prompt = PromptSaved(u)]
<1>4. /\ e \in Conversation /\ e.token = t /\ e.prompt = NoMessage
      /\ e.status = c.status /\ e.draft = c.draft /\ e.content = c.content
      /\ e.creator = c.creator
  <2>1. c \in Conversation
    BY DEF Leaves
  <2> QED
    BY <1>3, <2>1 DEF Conversation, PromptSaved
<1> HIDE DEF e
<1>5. PromptKept(u) = NoMessage
  BY <1>2 DEF PromptKept, Sound
<1>6. buttons # "none" => /\ t # Unbound /\ \A s \in Senders : chats[s].token # t
                          /\ \A m \in prompts : m.token # t
  BY PromptAssumption DEF TokenFree
<1>7. Bound(u.from, e)
  <2>1. CASE buttons # "none"
    BY <1>4, <1>6, <2>1 DEF Bound
  <2>2. CASE buttons = "none"
    <3> SUFFICES ASSUME NEW m \in prompts, m.token # Unbound, m.token = t
                 PROVE  Fits(m, u.from, e)
      BY <1>4 DEF Bound
    <3>1. Continues(u) /\ t = Row(u).token
      BY <2>2 DEF TokenKept
    <3>2. Fits(m, u.from, Row(u)) /\ Row(u).status \in Live
      BY <1>2, <3>1 DEF Bound, Continues
    <3>3. ASSUME m.buttons = "summary", e.status \in Live
          PROVE  e.status = "amount" /\ m.content = e.content
      <4>1. e.status = "amount" /\ e.content = NoContent
        BY <1>4, <2>2, <3>3 DEF Leaves, Live
      <4>2. Row(u).status \in {"asked", "amount"} /\ m.content = Row(u).content
        BY <3>2, <3>3 DEF Fits
      <4> QED
        BY <1>4, <3>1, <4>1, <4>2 DEF Leaves
    <3> QED
      BY <1>4, <3>2, <3>3 DEF Fits
  <2> QED
    BY <2>1, <2>2
<1>8. Takes(u, phase, e, buttons, PromptKept(u))
  BY <1>4, <1>5, <1>6, <1>7 DEF Takes, Leaves, Sound, Unrecorded
<1> QED
  BY <1>1, <1>8, Begins DEF e

------------------------------------------------------------------------
(* Opening a draft, and going on with it.                                *)

LEMMA IdleRows ==
  ASSUME PIInv, NEW u \in waiting, NEW phase, NEW c, NEW buttons,
         Reply(u, phase, c, buttons)
  PROVE  /\ handling = Idle /\ \A s \in Senders : Unrecorded(chats[s])
         /\ u \in Typed \cup Tapped /\ u.from \in Senders /\ u.by \in People
         /\ u.ask \in Ask
         /\ Row(u) = chats[u.from] /\ Row(u) \in Conversation
         /\ Sound(Row(u)) /\ Bound(u.from, Row(u)) /\ Unrecorded(Row(u))
<1>1. handling = Idle
  BY DEF Reply, ReplyWith
<1>2. \A s \in Senders : Unrecorded(chats[s])
  BY <1>1 DEF PIInv, DraftsInv, Counted, RecordedNow, Idle
<1> QED
  BY <1>1, <1>2, UpdateTyped DEF PIInv, ButtonsInv, SoundRows, BoundRows

LEMMA AskContent ==
  ASSUME NEW ask \in Ask, ask.what = "set"
  PROVE  ask.content \in Contents \cup {NoContent}
  BY DEF Ask

LEMMA ButtonsTyped ==
  ASSUME NEW status
  PROVE  /\ ButtonsOf(status) \in {"summary", "grid", "name", "choice", "none"}
         /\ status \in {"asked", "choosing", "naming"} => ButtonsOf(status) # "none"
         /\ Suits(ButtonsOf(status), status)
  BY DEF ButtonsOf, Suits, Live

LEMMA OpenDraftKeeps ==
  ASSUME PIInv, NEW u \in waiting, NEW d \in Drafts, OpenDraft(u, d)
  PROVE  PIInv'
<1>1. PICK status, v :
        /\ Reply(u, "saving", NewChat(u, status, d, v), ButtonsOf(status))
        /\ v \in Contents \cup {NoContent}
        /\ status \in {"choosing", StatusFor(v)}
  <2>1. u.ask \in Ask /\ ButtonsOf("amount") = "none" /\ StatusFor(NoContent) = "amount"
    BY UpdateTyped DEF PIInv, ButtonsOf, StatusFor
  <2>2. CASE u.ask.what = "set"
    BY <2>1, <2>2, AskContent DEF OpenDraft
  <2>3. CASE u.ask.what \in {"confirm", "cancel"}
    BY <2>1, <2>3 DEF OpenDraft
  <2> QED
    BY <2>2, <2>3 DEF OpenDraft
<1> DEFINE c == NewChat(u, status, d, v)
<1>2. /\ u.by \in People /\ times[d] = 0 /\ \A s \in Senders : chats[s].draft # d
      /\ times[d] <= lost[d]
  BY <1>1, IdleRows DEF OpenDraft, DraftFree, PIInv, PromptTypeOK
<1>3. ~Continues(u)
  BY UpdateTyped DEF OpenDraft, Opens, Continues, PIInv
<1>4. status \in {"choosing", "amount", "asked"} /\ (status = "amount" => v = NoContent)
  BY <1>1 DEF StatusFor
<1>5. /\ c \in Conversation /\ c.status = status /\ c.draft = d /\ c.content = v
      /\ c.creator = u.by
  BY <1>1, <1>2, <1>4 DEF NewChat, NoChat, Conversation, Live
<1> HIDE DEF c
<1>6. Leaves(u, "saving", c, ButtonsOf(status))
  BY <1>2, <1>3, <1>4, <1>5, ButtonsTyped DEF Leaves, Unrecorded
<1> QED
  BY <1>1, <1>6, Replies, ButtonsTyped DEF c

LEMMA OpenNothingKeeps ==
  ASSUME PIInv, NEW u \in waiting, OpenNothing(u)
  PROVE  PIInv'
<1> DEFINE status == IF u.ask.what = "name" THEN "naming" ELSE "cancelled"
<1> DEFINE c == NewChat(u, status, NoDraft, NoContent)
<1>1. Reply(u, "saving", c, ButtonsOf(status))
  BY DEF OpenNothing
<1>2. u.by \in People
  BY <1>1, IdleRows
<1>3. status \in {"naming", "cancelled"}
  OBVIOUS
<1>4. /\ c \in Conversation /\ c.status = status /\ c.draft = NoDraft
      /\ c.creator = u.by
  BY <1>2, <1>3 DEF NewChat, NoChat, Conversation, Live
<1> HIDE DEF c, status
<1>5. Leaves(u, "saving", c, ButtonsOf(status))
  BY <1>2, <1>3, <1>4, ButtonsTyped DEF Leaves, Unrecorded
<1> QED
  BY <1>1, <1>5, Replies, ButtonsTyped

\* A draft goes on: it keeps its name and its creator.
LEMMA Goes ==
  ASSUME PIInv, NEW u \in waiting, Continues(u), NEW c \in Conversation, NEW buttons,
         buttons \in {"summary", "grid", "name", "choice", "none"},
         Reply(u, "saving", c, buttons),
         c.draft = Row(u).draft, c.creator = Row(u).creator,
         c.status \in Live \cup {"cancelled"},
         Suits(buttons, c.status),
         c.status \in {"asked", "choosing", "naming"} => buttons # "none",
         c.status \in {"asked", "amount", "choosing"} => c.draft \in Drafts,
         c.status = "amount" =>
           /\ c.content = NoContent
           /\ Row(u).status \in {"asked", "amount"} => Row(u).content = NoContent
  PROVE  PIInv'
<1>1. /\ Row(u) = chats[u.from] /\ u.from \in Senders /\ Sound(Row(u))
      /\ Unrecorded(Row(u)) /\ Row(u).status \in Live
  BY IdleRows DEF Continues
<1>2. c.creator \in People /\ Unrecorded(c) /\ c.status # "saved"
  BY <1>1 DEF Sound, Unrecorded, Live
<1>3. \A x \in Senders \ {u.from} : chats[x].draft # NoDraft => chats[x].draft # c.draft
  BY <1>1 DEF PIInv, DraftsInv, OwnDrafts
<1>4. Leaves(u, "saving", c, buttons)
  BY <1>2, <1>3 DEF Leaves
<1> QED
  BY <1>4, Replies

\* A draft goes on with other content.
LEMMA GoesWith ==
  ASSUME PIInv, NEW u \in waiting, Continues(u), Row(u).draft \in Drafts,
         NEW v \in Contents \cup {NoContent}, Shows(u, With(Row(u), v)),
         v = NoContent =>
           (Row(u).status \in {"asked", "amount"} => Row(u).content = NoContent)
  PROVE  PIInv'
<1> DEFINE c == With(Row(u), v)
<1>1. Row(u) \in Conversation
  BY UpdateTyped DEF PIInv
<1>2. /\ c \in Conversation /\ c.status = StatusFor(v) /\ c.content = v
      /\ c.draft = Row(u).draft /\ c.creator = Row(u).creator
      /\ StatusFor(v) \in {"asked", "amount"} /\ (StatusFor(v) = "amount" => v = NoContent)
  BY <1>1 DEF With, StatusFor, Conversation, Live
<1>3. Reply(u, "saving", c, ButtonsOf(c.status))
  BY DEF Shows
<1> HIDE DEF c
<1>4. PIInv'
  BY <1>2, <1>3, Goes, ButtonsTyped DEF Live
<1> QED
  BY <1>4

\* A draft goes on in another status, its content the same.
LEMMA GoesTo ==
  ASSUME PIInv, NEW u \in waiting, Continues(u),
         NEW status \in {"asked", "naming", "choosing", "cancelled"},
         status \in {"asked", "choosing"} => Row(u).draft \in Drafts,
         Shows(u, [Row(u) EXCEPT !.status = status])
  PROVE  PIInv'
<1> DEFINE c == [Row(u) EXCEPT !.status = status]
<1>1. Row(u) \in Conversation
  BY UpdateTyped DEF PIInv
<1>2. /\ c \in Conversation /\ c.status = status
      /\ c.draft = Row(u).draft /\ c.creator = Row(u).creator
  BY <1>1 DEF Conversation, Live
<1>3. Reply(u, "saving", c, ButtonsOf(c.status))
  BY DEF Shows
<1> HIDE DEF c
<1> QED
  BY <1>2, <1>3, Goes, ButtonsTyped DEF Live

LEMMA TapOnPrompt ==
  ASSUME PIInv, NEW u \in waiting, u.kind = "tap"
  PROVE  /\ u.on \in prompts /\ u.ask \in Offered(u.on.buttons)
         /\ u.ask.what = "set" => u.ask.content \in Contents
         /\ u.ask.what = "confirm" => u.on.buttons = "summary"
<1>1. u.on \in prompts /\ u.ask \in Offered(u.on.buttons)
  BY DEF PIInv, ButtonsInv, Pressed
<1>2. u.on.buttons \in {"summary", "grid", "name", "choice"}
  BY <1>1 DEF PIInv, PromptTypeOK, Prompt
<1> QED
  BY <1>1, <1>2 DEF Offered, Asked, Setting

LEMMA ChangesKeep ==
  ASSUME PIInv, NEW u \in waiting,
         CorrectByText(u) \/ SetByTap(u) \/ ChooseInstrument(u) \/ GiveName(u)
  PROVE  PIInv'
<1>1. CASE CorrectByText(u)
  <2>1. PICK v \in {u.ask.content, NoContent} :
          (v = NoContent => Row(u).content = NoContent) /\ Shows(u, With(Row(u), v))
    BY <1>1 DEF CorrectByText
  <2>2. Continues(u) /\ Row(u).draft \in Drafts
    BY <1>1, <2>1, IdleRows DEF CorrectByText, Open, Shows, Sound
  <2>3. v \in Contents \cup {NoContent}
    BY <1>1, <2>1, UpdateTyped, AskContent DEF CorrectByText, PIInv
  <2> QED
    BY <2>1, <2>2, <2>3, GoesWith
<1>2. CASE SetByTap(u)
  <2> DEFINE v == IF Row(u).content = NoContent THEN NoContent ELSE u.ask.content
  <2>1. Continues(u) /\ Row(u).draft \in Drafts /\ Shows(u, With(Row(u), v))
    BY <1>2, IdleRows DEF SetByTap, Open, Shows, Sound
  <2>2. v \in Contents \cup {NoContent} /\ (v = NoContent => Row(u).content = NoContent)
    BY <1>2, TapOnPrompt, PromptAssumption DEF SetByTap
  <2> HIDE DEF v
  <2> QED
    BY <2>1, <2>2, GoesWith
<1>3. CASE ChooseInstrument(u)
  <2> DEFINE v == IF Row(u).content = NoContent THEN NoContent ELSE u.ask.content
  <2>1. /\ Continues(u) /\ Row(u).draft \in Drafts /\ Shows(u, With(Row(u), v))
        /\ Row(u).status = "choosing"
    BY <1>3, IdleRows DEF ChooseInstrument, Shows, Sound
  <2>2. v \in Contents \cup {NoContent}
    BY <1>3, UpdateTyped, AskContent DEF ChooseInstrument, PIInv
  <2> HIDE DEF v
  <2> QED
    BY <2>1, <2>2, GoesWith
<1>4. CASE GiveName(u)
  <2>1. PICK v \in IF Row(u).content = NoContent THEN {NoContent} ELSE Contents :
          Shows(u, With(Row(u), v))
    BY <1>4 DEF GiveName
  <2>2. Continues(u) /\ Row(u).draft \in Drafts /\ Row(u).status = "naming"
    BY <1>4, UpdateTyped DEF GiveName, PIInv, Conversation
  <2>3. v \in Contents \cup {NoContent}
    BY <2>1
  <2> QED
    BY <2>1, <2>2, <2>3, GoesWith
<1> QED
  BY <1>1, <1>2, <1>3, <1>4

LEMMA MovesKeep ==
  ASSUME PIInv, NEW u \in waiting,
         AskName(u) \/ NameCategory(u) \/ CancelDraft(u) \/ CancelName(u)
  PROVE  PIInv'
<1>1. CASE AskName(u)
  BY <1>1, GoesTo DEF AskName, Open
<1>2. CASE NameCategory(u)
  BY <1>2, GoesTo DEF NameCategory
<1>3. CASE CancelDraft(u)
  BY <1>3, GoesTo DEF CancelDraft, Open
<1>4. CASE CancelName(u)
  <2> DEFINE status == IF Row(u).draft = NoDraft THEN "cancelled" ELSE "asked"
  <2>1. Row(u).draft \in Drafts \cup {NoDraft}
    BY UpdateTyped DEF PIInv, Conversation
  <2>2. Continues(u) /\ Shows(u, [Row(u) EXCEPT !.status = status])
    BY <1>4 DEF CancelName
  <2>3. /\ status \in {"asked", "naming", "choosing", "cancelled"}
        /\ status \in {"asked", "choosing"} => Row(u).draft \in Drafts
    BY <2>1
  <2> HIDE DEF status
  <2> QED
    BY <2>2, <2>3, GoesTo
<1> QED
  BY <1>1, <1>2, <1>3, <1>4

LEMMA ShowsAgain ==
  ASSUME PIInv, NEW u \in waiting, Continues(u), NEW buttons,
         buttons \in {"summary", "grid", "name", "choice", "none"},
         Row(u).status \in {"asked", "choosing", "naming"} => buttons # "none",
         Suits(buttons, Row(u).status),
         Reply(u, "saving", Row(u), buttons)
  PROVE  PIInv'
<1> DEFINE c == Row(u)
<1>1. /\ c \in Conversation /\ Sound(c) /\ c.status \in Live
      /\ c.draft = Row(u).draft /\ c.creator = Row(u).creator /\ c.content = Row(u).content
      /\ c.status = Row(u).status /\ Reply(u, "saving", c, buttons)
  BY IdleRows DEF Continues
<1> HIDE DEF c
<1> QED
  BY <1>1, Goes DEF Sound, Live

LEMMA SayOnlyKeeps ==
  ASSUME PIInv, NEW u \in waiting, SayOnly(u)
  PROVE  PIInv'
<1> DEFINE c == Row(u)
<1>1. ReplyWith(u, "saving", c, "none", c.prompt) /\ handling = Idle
  BY DEF SayOnly, ReplyOnly, ReplyWith
<1>2. c \in Conversation /\ c = chats[u.from] /\ u.from \in Senders
  BY UpdateTyped DEF PIInv
<1>3. Sound(c) /\ Bound(u.from, c) /\ Unrecorded(c)
  BY <1>1, <1>2 DEF PIInv, ButtonsInv, SoundRows, BoundRows, DraftsInv, Counted,
     RecordedNow, Idle
<1>4. \A x \in Senders \ {u.from} : chats[x].draft # NoDraft => chats[x].draft # c.draft
  BY <1>2 DEF PIInv, DraftsInv, OwnDrafts
<1> HIDE DEF c
<1>5. Takes(u, "saving", c, "none", c.prompt)
  BY <1>2, <1>3, <1>4 DEF Takes
<1> QED
  BY <1>1, <1>5, Begins

LEMMA RepeatsKeep ==
  ASSUME PIInv, NEW u \in waiting, ShowGrid(u) \/ AskAgain(u)
  PROVE  PIInv'
<1>1. CASE ShowGrid(u)
  BY <1>1, ShowsAgain DEF ShowGrid, Open, Suits, Live
<1>2. CASE AskAgain(u)
  BY <1>2, ShowsAgain, ButtonsTyped DEF AskAgain, Shows
<1> QED
  BY <1>1, <1>2

------------------------------------------------------------------------
(* Confirming: the buttons that are accepted said what the draft says.    *)

LEMMA AcceptedSaid ==
  ASSUME PIInv, NEW u \in waiting, u.kind = "tap", TapAccepted(u),
         u.ask.what = "confirm", Row(u).status \in Live
  PROVE  u.on.to = u.from /\ u.on.content = Row(u).content
<1>1. u.on \in prompts /\ u.on.buttons = "summary"
  BY TapOnPrompt
<1>2. Row(u) = chats[u.from] /\ Bound(u.from, Row(u))
  BY UpdateTyped DEF PIInv, ButtonsInv, BoundRows
<1>3. CASE u.on.token # Unbound
  <2>1. Fits(u.on, u.from, Row(u))
    BY <1>1, <1>2, <1>3 DEF TapAccepted, BoundTo, Bound
  <2> QED
    BY <1>1, <2>1 DEF Fits
<1>4. CASE u.on.token = Unbound
  <2>1. Row(u).prompt # NoMessage /\ Row(u).prompt = u.on.id
    BY <1>4 DEF TapAccepted, BoundTo
  <2>2. PICK m \in prompts : m.id = u.on.id /\ Fits(m, u.from, Row(u))
    BY <1>2, <2>1 DEF Bound
  <2>3. m = u.on
    BY <1>1, <2>2 DEF PIInv, ButtonsInv, Apart
  <2> QED
    BY <1>1, <2>2, <2>3 DEF Fits
<1> QED
  BY <1>3, <1>4

LEMMA ConfirmEntryKeeps ==
  ASSUME PIInv, NEW u \in waiting, ConfirmEntry(u)
  PROVE  PIInv'
<1>1. /\ Continues(u) /\ Row(u).status \in {"asked", "amount"} /\ u.ask.what = "confirm"
      /\ Row(u).status \in Live
  BY DEF ConfirmEntry, Open, Live
<1>2. CASE \E v \in Contents \cup {NoContent} :
             /\ Shows(u, With(Row(u), v))
             /\ v = NoContent => Row(u).content = NoContent
  <2>1. Row(u).draft \in Drafts
    BY <1>1, <1>2, IdleRows DEF Shows, Sound
  <2> QED
    BY <1>1, <1>2, <2>1, GoesWith
<1>3. CASE /\ Row(u).content # NoContent
           /\ Reply(u, "recording", [Row(u) EXCEPT !.status = "saved"], "none")
  <2> DEFINE c == [Row(u) EXCEPT !.status = "saved"]
  <2>1. /\ Row(u) \in Conversation /\ Sound(Row(u)) /\ Unrecorded(Row(u))
        /\ Row(u) = chats[u.from] /\ u.from \in Senders
    BY <1>3, IdleRows
  <2>2. /\ c \in Conversation /\ c.status = "saved" /\ c.content = Row(u).content
        /\ c.draft = Row(u).draft /\ c.creator = Row(u).creator
    BY <2>1 DEF Conversation
  <2> HIDE DEF c
  <2>3. c.content \in Contents /\ c.draft \in Drafts /\ c.creator = u.by /\ u.by \in People
    BY <1>1, <1>3, <2>1, <2>2, UpdateTyped DEF Sound, Conversation, Continues, TapAccepted,
       Belongs, PIInv
  <2>4. times[c.draft] <= lost[c.draft]
    BY <1>1, <2>1, <2>2, <2>3, PromptAssumption DEF Unrecorded
  <2>5. u.kind = "tap" => u.on.content = c.content /\ u.on.to = u.from
    BY <1>1, <2>2, AcceptedSaid DEF Continues
  <2>6. \A x \in Senders \ {u.from} : chats[x].draft # NoDraft => chats[x].draft # c.draft
    BY <2>1, <2>2 DEF PIInv, DraftsInv, OwnDrafts
  <2>7. Leaves(u, "recording", c, "none")
    BY <2>2, <2>3, <2>4, <2>5, <2>6 DEF Leaves, Unrecorded, Live, Suits
  <2> QED
    BY <1>3, <2>7, Replies DEF c
<1>4. Row(u).content \in Contents \cup {NoContent}
  BY UpdateTyped DEF PIInv, Conversation
<1> QED
  BY <1>2, <1>3, <1>4 DEF ConfirmEntry

------------------------------------------------------------------------
(* Receiving, forgetting, relinking.                                     *)

LEMMA ReceivedKeeps ==
  ASSUME PIInv, NEW u \in Typed \cup Tapped, Receive(u),
         u.kind = "tap" => u.on \in prompts /\ u.ask \in Offered(u.on.buttons)
  PROVE  PIInv'
<1>1. /\ waiting' = waiting \cup {u}
      /\ UNCHANGED <<speaksFor, chats, prompts, handling, entries, times, lost>>
  BY DEF Receive
<1>2. PromptTypeOK'
  BY <1>1 DEF PIInv, PromptTypeOK
<1>3. ButtonsInv'
  BY <1>1 DEF PIInv, ButtonsInv, SoundRows, BoundRows, Apart, Pressed, NewButtons, Bound,
     Busy, Mine
<1>4. DraftsInv'
  BY <1>1 DEF PIInv, DraftsInv, Carried, Recording, OwnDrafts, Counted, Unrecorded,
     RecordedNow, RecordedOnce, RecordedAsConfirmed, Busy, Mine, Shown, ShownTo
<1> QED
  BY <1>2, <1>3, <1>4 DEF PIInv

LEMMA ReceivesKeep ==
  ASSUME PIInv, NEW s \in Senders, NEW ask \in Ask,
         \/ \E kind \in {"text", "voice"} : ReceiveTyped(s, kind, ask)
         \/ \E m \in prompts : ReceiveTap(s, m, ask)
  PROVE  PIInv'
<1>1. ASSUME NEW kind \in {"text", "voice"}, ReceiveTyped(s, kind, ask)
      PROVE  PIInv'
  <2> DEFINE u == [from |-> s, by |-> speaksFor[s], kind |-> kind, ask |-> ask]
  <2>1. u \in Typed /\ u.kind # "tap" /\ Receive(u)
    BY <1>1 DEF ReceiveTyped, Typed
  <2> HIDE DEF u
  <2> QED
    BY <2>1, ReceivedKeeps
<1>2. ASSUME NEW m \in prompts, ReceiveTap(s, m, ask)
      PROVE  PIInv'
  <2> DEFINE u == [from |-> s, by |-> speaksFor[s], kind |-> "tap", ask |-> ask,
                   on |-> m]
  <2>1. m \in Prompt
    BY DEF PIInv, PromptTypeOK
  <2>2. u \in Tapped /\ u.on = m /\ u.ask = ask /\ Receive(u)
    BY <1>2, <2>1 DEF ReceiveTap, Tapped
  <2>3. ask \in Offered(m.buttons)
    BY <1>2 DEF ReceiveTap
  <2> HIDE DEF u
  <2> QED
    BY <2>2, <2>3, ReceivedKeeps
<1> QED
  BY <1>1, <1>2

LEMMA OthersKeep ==
  ASSUME PIInv,
         \/ \E u \in waiting : Ignore(u)
         \/ \E s \in Senders, m \in People \cup {Nobody} : Relink(s, m)
  PROVE  PIInv'
<1>1. /\ waiting' \in SUBSET waiting
      /\ speaksFor' \in [Senders -> People \cup {Nobody}]
      /\ UNCHANGED <<chats, prompts, handling, entries, times, lost>>
  BY DEF Ignore, Relink, PIInv, PromptTypeOK
<1>2. PromptTypeOK'
  BY <1>1 DEF PIInv, PromptTypeOK
<1>3. ButtonsInv'
  BY <1>1 DEF PIInv, ButtonsInv, SoundRows, BoundRows, Apart, Pressed, NewButtons, Bound,
     Busy, Mine
<1>4. DraftsInv'
  BY <1>1 DEF PIInv, DraftsInv, Carried, Recording, OwnDrafts, Counted, Unrecorded,
     RecordedNow, RecordedOnce, RecordedAsConfirmed, Busy, Mine, Shown, ShownTo
<1> QED
  BY <1>2, <1>3, <1>4 DEF PIInv

LEMMA ExpireChatKeeps ==
  ASSUME PIInv, NEW s \in Senders, ExpireChat(s)
  PROVE  PIInv'
<1>1. /\ handling = Idle /\ ~Busy /\ ~Busy' /\ handling.phase = "idle"
      /\ chats' = [chats EXCEPT ![s] = NoChat]
      /\ UNCHANGED <<speaksFor, prompts, waiting, handling, entries, times, lost>>
  BY DEF ExpireChat, Busy, Idle
<1>2. /\ chats'[s] = NoChat /\ NoChat \in Conversation
      /\ \A x \in Senders \ {s} : chats'[x] = chats[x]
      /\ chats' \in [Senders -> Conversation]
  BY <1>1 DEF PIInv, PromptTypeOK, NoChat, Conversation
<1>3. PromptTypeOK'
  BY <1>1, <1>2 DEF PIInv, PromptTypeOK
<1>4. Sound(NoChat) /\ Bound(s, NoChat) /\ Unrecorded(NoChat)
  BY DEF Sound, Bound, NoChat, Unrecorded, Live
<1>5. SoundRows'
  BY <1>1, <1>2, <1>4 DEF PIInv, ButtonsInv, SoundRows, Sound
<1>6. BoundRows'
  BY <1>1, <1>2, <1>4 DEF PIInv, ButtonsInv, BoundRows, Bound, Fits
<1>7. ButtonsInv'
  BY <1>1, <1>5, <1>6 DEF PIInv, ButtonsInv, Apart, Pressed, NewButtons
<1>8. OwnDrafts'
  BY <1>1, <1>2 DEF PIInv, DraftsInv, OwnDrafts, NoChat
<1>9. \A x \in Senders : Unrecorded(chats[x])
  BY <1>1 DEF PIInv, DraftsInv, Counted, RecordedNow
<1>10. Counted'
  BY <1>1, <1>2, <1>4, <1>9 DEF PIInv, DraftsInv, Counted, RecordedOnce, Unrecorded
<1>11. DraftsInv'
  BY <1>1, <1>8, <1>10 DEF PIInv, DraftsInv, Carried, Recording, RecordedAsConfirmed
<1> QED
  BY <1>3, <1>7, <1>11 DEF PIInv

------------------------------------------------------------------------
(* The handler's requests.                                               *)

LEMMA RecordEntryKeeps ==
  ASSUME PIInv, RecordEntry
  PROVE  PIInv'
<1> DEFINE d == handling.next.draft
<1>1. /\ handling.phase = "recording" /\ Busy
      /\ handling' = [handling EXCEPT !.phase = "saving"]
      /\ times' = [times EXCEPT ![d] = @ + 1]
      /\ UNCHANGED <<speaksFor, chats, prompts, waiting, lost>>
  BY DEF RecordEntry, Busy
<1>2. /\ handling'.phase = "saving" /\ handling'.of = handling.of /\ Mine' = Mine /\ Busy'
      /\ handling'.next = handling.next /\ handling'.buttons = handling.buttons
      /\ handling'.keep = handling.keep /\ handling' \in Handler
  BY <1>1, IdleIsIdle DEF PIInv, Handler, Busy, Mine
<1>3. /\ handling.next.status = "saved" /\ handling.buttons = "none"
      /\ handling.next.creator = handling.of.by
      /\ Shown(handling) = handling.next.content /\ ShownTo(handling) = Mine
      /\ d \in Drafts /\ handling.next.content \in Contents
      /\ Mine \in Senders /\ handling.of.by \in People
  BY <1>1, IdleIsIdle DEF PIInv, DraftsInv, ButtonsInv, SoundRows, Sound, Recording
<1>4. PICK e \in Entry : /\ entries' = entries \cup {e} /\ e.content = e.shown
                         /\ e.from = e.to /\ e.creator = e.by
  <2> DEFINE e == [draft |-> d, content |-> handling.next.content,
                   creator |-> handling.next.creator, by |-> handling.of.by,
                   from |-> Mine, shown |-> Shown(handling), to |-> ShownTo(handling)]
  <2>1. entries' = entries \cup {e}
    BY DEF RecordEntry, Mine
  <2>2. e \in Entry /\ e.content = e.shown /\ e.from = e.to /\ e.creator = e.by
    BY <1>3 DEF Entry
  <2> HIDE DEF e
  <2> QED
    BY <2>1, <2>2
<1>5. /\ times' \in [Drafts -> Nat] /\ times'[d] = times[d] + 1
      /\ \A x \in Drafts \ {d} : times'[x] = times[x]
  BY <1>1, <1>3 DEF PIInv, PromptTypeOK
<1>6. PromptTypeOK'
  BY <1>1, <1>2, <1>4, <1>5 DEF PIInv, PromptTypeOK
<1>7. SoundRows' /\ BoundRows' /\ Apart' /\ Pressed' /\ NewButtons'
  BY <1>1, <1>2, <1>3 DEF PIInv, ButtonsInv, SoundRows, BoundRows, Apart, Pressed,
     NewButtons, Bound
<1>8. Carried' /\ Recording' /\ OwnDrafts'
  BY <1>1, <1>2 DEF PIInv, DraftsInv, Carried, Recording, OwnDrafts
<1>9. RecordedAsConfirmed'
  BY <1>4 DEF PIInv, DraftsInv, RecordedAsConfirmed
<1>10. Counted'
  <2>1. times[d] <= lost[d] /\ times[d] \in Nat /\ lost[d] \in Nat
    BY <1>1, <1>3 DEF PIInv, DraftsInv, Counted, PromptTypeOK
  <2>2. RecordedOnce'
    BY <1>1, <1>5, <2>1 DEF PIInv, DraftsInv, Counted, RecordedOnce
  <2>3. ASSUME NEW s \in Senders
        PROVE  RecordedNow(chats[s].draft)' \/ Unrecorded(chats[s])'
    <3>1. Unrecorded(chats[s]) /\ chats[s].draft \in Drafts \cup {NoDraft}
      BY <1>1, RowTyped DEF PIInv, DraftsInv, Counted, RecordedNow, Conversation
    <3> QED
      BY <1>1, <1>2, <1>3, <1>5, <3>1 DEF RecordedNow, Unrecorded
  <2>4. Unrecorded(handling.next)'
    BY <1>2, <1>3 DEF Unrecorded, Live
  <2> QED
    BY <1>2, <2>2, <2>3, <2>4 DEF Counted
<1>11. ButtonsInv' /\ DraftsInv'
  BY <1>7, <1>8, <1>9, <1>10 DEF ButtonsInv, DraftsInv
<1> QED
  BY <1>6, <1>11 DEF PIInv

LEMMA SaveChatKeeps ==
  ASSUME PIInv, SaveChat
  PROVE  PIInv'
<1>1. /\ handling.phase = "saving" /\ Busy
      /\ handling' = [handling EXCEPT !.phase = "sending"]
      /\ chats' = [chats EXCEPT ![Mine] = handling.next]
      /\ UNCHANGED <<speaksFor, prompts, waiting, entries, times, lost>>
  BY DEF SaveChat, Busy, Mine
<1>2. /\ handling'.phase = "sending" /\ handling'.of = handling.of /\ Mine' = Mine /\ Busy'
      /\ handling'.next = handling.next /\ handling'.buttons = handling.buttons
      /\ handling'.keep = handling.keep /\ handling' \in Handler
      /\ Mine \in Senders /\ handling.next \in Conversation
  BY <1>1, IdleIsIdle DEF PIInv, Handler, Busy, Mine
<1>3. /\ chats' \in [Senders -> Conversation] /\ chats'[Mine] = handling.next
      /\ \A s \in Senders \ {Mine} : chats'[s] = chats[s]
  BY <1>1, <1>2 DEF PIInv, PromptTypeOK
<1>4. PromptTypeOK'
  BY <1>1, <1>2, <1>3 DEF PIInv, PromptTypeOK
<1>5. SoundRows'
  BY <1>1, <1>2, <1>3 DEF PIInv, ButtonsInv, SoundRows, Sound
<1>6. BoundRows'
  BY <1>1, <1>2, <1>3 DEF PIInv, ButtonsInv, BoundRows, Bound, Fits
<1>7. Apart' /\ Pressed' /\ NewButtons'
  BY <1>1, <1>2, <1>3 DEF PIInv, ButtonsInv, Apart, Pressed, NewButtons
<1>8. Carried' /\ Recording' /\ RecordedAsConfirmed'
  BY <1>1, <1>2, <1>3 DEF PIInv, DraftsInv, Carried, Recording, RecordedAsConfirmed
<1>9. OwnDrafts'
  BY <1>1, <1>2, <1>3 DEF PIInv, DraftsInv, OwnDrafts
<1>10. Counted'
  <2>1. ASSUME NEW s \in Senders
        PROVE  Unrecorded(chats'[s])
    <3>1. CASE s = Mine
      BY <1>1, <1>3, <3>1 DEF PIInv, DraftsInv, Counted
    <3>2. CASE s # Mine
      <4>1. ~RecordedNow(chats[s].draft)
        BY <1>1, <3>2, PromptAssumption DEF PIInv, DraftsInv, ButtonsInv, SoundRows, Sound,
           OwnDrafts, RecordedNow
      <4> QED
        BY <1>3, <3>2, <4>1 DEF PIInv, DraftsInv, Counted
    <3> QED
      BY <3>1, <3>2
  <2>2. Unrecorded(handling.next)
    BY <1>1 DEF PIInv, DraftsInv, Counted
  <2> QED
    BY <1>1, <1>2, <2>1, <2>2 DEF PIInv, DraftsInv, Counted, RecordedOnce, Unrecorded
<1>11. ButtonsInv' /\ DraftsInv'
  BY <1>5, <1>6, <1>7, <1>8, <1>9, <1>10 DEF ButtonsInv, DraftsInv
<1> QED
  BY <1>4, <1>11 DEF PIInv

LEMMA SaveAgainKeeps ==
  ASSUME PIInv, SaveAgain
  PROVE  PIInv'
<1>1. /\ handling.phase = "sent" /\ Busy
      /\ handling' = Idle
      /\ chats' = [chats EXCEPT ![Mine] = handling.next]
      /\ UNCHANGED <<speaksFor, prompts, waiting, entries, times, lost>>
  BY DEF SaveAgain, Busy, Mine
<1>2. /\ ~Busy' /\ handling'.phase = "idle" /\ handling' \in Handler
      /\ Mine \in Senders /\ handling.next \in Conversation
  BY <1>1, IdleIsIdle DEF PIInv, Handler, Busy, Idle
<1>3. /\ chats' \in [Senders -> Conversation] /\ chats'[Mine] = handling.next
      /\ \A s \in Senders \ {Mine} : chats'[s] = chats[s]
  BY <1>1, <1>2 DEF PIInv, PromptTypeOK
<1>4. PromptTypeOK'
  BY <1>1, <1>2, <1>3 DEF PIInv, PromptTypeOK
<1>5. SoundRows'
  BY <1>1, <1>2, <1>3 DEF PIInv, ButtonsInv, SoundRows, Sound
<1>6. BoundRows'
  BY <1>1, <1>2, <1>3 DEF PIInv, ButtonsInv, BoundRows, Bound, Fits
<1>7. ButtonsInv'
  BY <1>1, <1>2, <1>5, <1>6 DEF PIInv, ButtonsInv, Apart, Pressed, NewButtons
<1>8. OwnDrafts'
  BY <1>1, <1>2, <1>3 DEF PIInv, DraftsInv, OwnDrafts
<1>9. ASSUME NEW s \in Senders
      PROVE  Unrecorded(chats'[s])
  BY <1>1, <1>3 DEF PIInv, DraftsInv, Counted, RecordedNow
<1>10. Counted'
  BY <1>1, <1>2, <1>9 DEF PIInv, DraftsInv, Counted, RecordedOnce, Unrecorded
<1>11. DraftsInv'
  BY <1>1, <1>2, <1>8, <1>10 DEF PIInv, DraftsInv, Carried, Recording, RecordedAsConfirmed
<1> QED
  BY <1>4, <1>7, <1>11 DEF PIInv

LEMMA HandlerFailsKeeps ==
  ASSUME PIInv, HandlerFails
  PROVE  PIInv'
<1> DEFINE d == handling.next.draft
<1>1. /\ Busy /\ handling' = Idle
      /\ lost' = IF RecordedNow(d) THEN [lost EXCEPT ![d] = @ + 1] ELSE lost
      /\ UNCHANGED <<speaksFor, chats, prompts, waiting, entries, times>>
  BY IdleIsIdle DEF HandlerFails, RecordedNow, PIInv
<1>2. ~Busy' /\ handling'.phase = "idle" /\ handling' \in Handler
  BY <1>1 DEF Handler, Busy, Idle
<1>3. RecordedNow(d) => d \in Drafts
  BY <1>1 DEF PIInv, ButtonsInv, SoundRows, Sound, RecordedNow
<1>4. /\ lost' \in [Drafts -> Nat]
      /\ \A x \in Drafts : lost'[x] = lost[x] + (IF RecordedNow(x) THEN 1 ELSE 0)
  <2>1. CASE RecordedNow(d)
    BY <1>1, <1>3, <2>1 DEF RecordedNow, PIInv, PromptTypeOK
  <2>2. CASE ~RecordedNow(d)
    BY <1>1, <2>2 DEF RecordedNow, PIInv, PromptTypeOK
  <2> QED
    BY <2>1, <2>2
<1>5. PromptTypeOK'
  BY <1>1, <1>2, <1>4 DEF PIInv, PromptTypeOK
<1>6. ButtonsInv'
  BY <1>1, <1>2 DEF PIInv, ButtonsInv, SoundRows, BoundRows, Apart, Pressed, NewButtons,
     Bound
<1>7. Carried' /\ Recording' /\ OwnDrafts' /\ RecordedAsConfirmed'
  BY <1>1, <1>2 DEF PIInv, DraftsInv, Carried, Recording, OwnDrafts, RecordedAsConfirmed
<1>8. Counted'
  <2>1. \A x \in Drafts : times[x] \in Nat /\ lost[x] \in Nat /\ times[x] <= 1 + lost[x]
    BY DEF PIInv, PromptTypeOK, DraftsInv, Counted, RecordedOnce
  <2>2. RecordedOnce'
    BY <1>1, <1>4, <2>1 DEF RecordedOnce
  <2>3. ASSUME NEW s \in Senders
        PROVE  Unrecorded(chats[s])'
    <3>1. chats[s].draft \in Drafts \cup {NoDraft}
      BY RowTyped DEF PIInv, Conversation
    <3>2. RecordedNow(chats[s].draft) \/ Unrecorded(chats[s])
      BY DEF PIInv, DraftsInv, Counted
    <3> QED
      BY <1>1, <1>4, <2>1, <3>1, <3>2 DEF Unrecorded
  <2> QED
    BY <1>2, <2>2, <2>3 DEF Counted
<1> QED
  BY <1>5, <1>6, <1>7, <1>8 DEF PIInv, DraftsInv

\* Without buttons the prompt kept is remembered again, or none is.
LEMMA SendWordsKeeps ==
  ASSUME PIInv, SendReply, handling.buttons = "none"
  PROVE  PIInv'
<1>1. /\ handling.phase = "sending" /\ Busy
      /\ handling' = [handling EXCEPT !.phase = "sent", !.next.prompt = handling.keep]
      /\ UNCHANGED <<speaksFor, chats, prompts, waiting, entries, times, lost>>
  BY DEF SendReply, Busy
<1> DEFINE c == handling.next
<1> DEFINE e == [c EXCEPT !.prompt = handling.keep]
<1>2. /\ handling'.phase = "sent" /\ handling'.of = handling.of /\ Mine' = Mine /\ Busy'
      /\ handling'.next = e /\ handling'.buttons = "none"
      /\ Mine \in Senders /\ c \in Conversation
      /\ handling.keep \in MessageIds \cup {NoMessage}
  BY <1>1, IdleIsIdle DEF PIInv, Busy, Mine
<1>3. /\ e \in Conversation /\ e.prompt = handling.keep /\ Alike(c, e)
      /\ handling.keep \in {NoMessage, c.prompt} /\ c = chats[Mine]
  BY <1>1, <1>2 DEF Conversation, Alike, PIInv, DraftsInv, Carried
<1>4. handling' \in Handler
  <2>1. handling' = [phase |-> "sent", of |-> handling.of, next |-> e,
                     buttons |-> "none", keep |-> handling.keep]
    BY <1>1, IdleIsIdle DEF PIInv
  <2> QED
    BY <1>1, <1>2, <1>3, <2>1, IdleIsIdle DEF PIInv, Handler
<1>5. PromptTypeOK'
  BY <1>1, <1>4 DEF PIInv, PromptTypeOK
<1>6. Sound(c) /\ Bound(Mine, c) /\ Unrecorded(c)
  BY <1>1 DEF PIInv, ButtonsInv, SoundRows, BoundRows, DraftsInv, Counted
<1> HIDE DEF c, e
<1>7. Sound(e) /\ Bound(Mine, e) /\ Unrecorded(e)
  BY <1>3, <1>6 DEF Sound, Bound, Fits, Alike, Unrecorded
<1>8. SoundRows' /\ BoundRows'
  BY <1>1, <1>2, <1>7 DEF PIInv, ButtonsInv, SoundRows, BoundRows, Sound, Bound, Fits
<1>9. ButtonsInv'
  BY <1>1, <1>2, <1>8 DEF PIInv, ButtonsInv, Apart, Pressed, NewButtons
<1>10. Carried' /\ Recording' /\ RecordedAsConfirmed'
  BY <1>1, <1>2, <1>3 DEF PIInv, DraftsInv, Carried, Recording, RecordedAsConfirmed, Alike
<1>11. OwnDrafts'
  BY <1>1, <1>2, <1>3 DEF PIInv, DraftsInv, OwnDrafts, Alike, c
<1>12. Counted'
  BY <1>1, <1>2, <1>7 DEF PIInv, DraftsInv, Counted, RecordedOnce, RecordedNow, Unrecorded
<1> QED
  BY <1>5, <1>9, <1>10, <1>11, <1>12 DEF PIInv, DraftsInv

\* A new prompt carries the token of the conversation that was saved.
LEMMA SendButtonsKeeps ==
  ASSUME PIInv, SendReply, handling.buttons # "none"
  PROVE  PIInv'
<1> DEFINE c == handling.next
<1> DEFINE New(i) == [id |-> i, to |-> Mine, token |-> c.token,
                      buttons |-> handling.buttons, content |-> c.content]
<1>1. PICK i \in MessageIds :
        /\ \A m \in prompts : m.id # i
        /\ prompts' = prompts \cup {New(i)}
        /\ handling' = [handling EXCEPT !.phase = "sent", !.next.prompt = i]
        /\ handling.phase = "sending" /\ Busy
        /\ UNCHANGED <<speaksFor, chats, waiting, entries, times, lost>>
  BY DEF SendReply, Busy, Mine
<1> DEFINE n == New(i)
<1> DEFINE e == [c EXCEPT !.prompt = i]
<1>2. /\ handling'.phase = "sent" /\ handling'.of = handling.of /\ Mine' = Mine /\ Busy'
      /\ handling'.next = e /\ handling'.buttons = handling.buttons
      /\ Mine \in Senders /\ c \in Conversation
      /\ handling.buttons \in {"summary", "grid", "name", "choice"}
  BY <1>1, IdleIsIdle DEF PIInv, Busy, Mine
<1>3. /\ e \in Conversation /\ e.prompt = i /\ Alike(c, e) /\ c = chats[Mine]
  BY <1>1, <1>2 DEF Conversation, Alike, PIInv, DraftsInv, Carried
<1>4. handling' \in Handler
  <2>1. handling' = [phase |-> "sent", of |-> handling.of, next |-> e,
                     buttons |-> handling.buttons, keep |-> handling.keep]
    BY <1>1, IdleIsIdle DEF PIInv
  <2> QED
    BY <1>1, <1>2, <1>3, <2>1, IdleIsIdle DEF PIInv, Handler
<1>5. n \in Prompt
  BY <1>1, <1>2 DEF Prompt, Conversation
<1>6. PromptTypeOK'
  BY <1>1, <1>4, <1>5 DEF PIInv, PromptTypeOK
<1>7. Sound(c) /\ Bound(Mine, c) /\ Unrecorded(c)
  BY <1>1 DEF PIInv, ButtonsInv, SoundRows, BoundRows, DraftsInv, Counted
<1>8. /\ Suits(handling.buttons, c.status) /\ c.token # Unbound /\ c.prompt = NoMessage
      /\ \A s \in Senders \ {Mine} : chats[s].token # c.token
      /\ \A m \in prompts : m.token # c.token
  BY <1>1 DEF PIInv, ButtonsInv, NewButtons
<1>9. n.id = i /\ n.to = Mine /\ n.token = c.token /\ n.content = c.content
      /\ n.buttons = handling.buttons /\ prompts' = prompts \cup {n}
  BY <1>1
<1> HIDE DEF c, e, n, New
<1>10. /\ Sound(e) /\ Unrecorded(e) /\ Fits(n, Mine, e) /\ Fits(n, Mine, c)
       /\ e.token = c.token
  BY <1>1, <1>2, <1>3, <1>7, <1>8, <1>9 DEF Sound, Unrecorded, Fits, Suits, Alike
<1>11. SoundRows'
  BY <1>1, <1>2, <1>10 DEF PIInv, ButtonsInv, SoundRows, Sound
<1>12. Bound(Mine, handling.next)'
  BY <1>2, <1>3, <1>8, <1>9, <1>10 DEF Bound, Fits
<1>13. ASSUME NEW s \in Senders
       PROVE  Bound(s, chats[s])'
  <2>1. Bound(s, chats[s])
    BY DEF PIInv, ButtonsInv, BoundRows
  <2>2. n.token = chats[s].token => Fits(n, s, chats[s])
    BY <1>3, <1>8, <1>9, <1>10
  <2> QED
    BY <1>1, <1>9, <2>1, <2>2 DEF Bound, Fits
<1>14. BoundRows'
  BY <1>12, <1>13 DEF BoundRows
<1>15. Apart' /\ Pressed'
  BY <1>1, <1>8, <1>9 DEF PIInv, ButtonsInv, Apart, Pressed
<1>16. NewButtons'
  BY <1>1, <1>2, <1>3, <1>8 DEF NewButtons, Alike
<1>17. Carried' /\ Recording' /\ RecordedAsConfirmed'
  BY <1>1, <1>2, <1>3 DEF PIInv, DraftsInv, Carried, Recording, RecordedAsConfirmed, Alike
<1>18. OwnDrafts'
  BY <1>1, <1>2, <1>3 DEF PIInv, DraftsInv, OwnDrafts, Alike, c
<1>19. Counted'
  BY <1>1, <1>2, <1>10 DEF PIInv, DraftsInv, Counted, RecordedOnce, RecordedNow, Unrecorded
<1>20. ButtonsInv' /\ DraftsInv'
  BY <1>11, <1>14, <1>15, <1>16, <1>17, <1>18, <1>19 DEF ButtonsInv, DraftsInv
<1> QED
  BY <1>6, <1>20 DEF PIInv

------------------------------------------------------------------------
(* Every step, and what follows.                                         *)

LEMMA PromptStep == PIInv /\ [PromptNext]_promptVars => PIInv'
<1> SUFFICES ASSUME PIInv, [PromptNext]_promptVars PROVE PIInv'
  OBVIOUS
<1>1. CASE UNCHANGED promptVars
  <2>1. PromptTypeOK'
    BY <1>1 DEF PIInv, PromptTypeOK, promptVars
  <2>2. ButtonsInv'
    BY <1>1 DEF PIInv, ButtonsInv, SoundRows, BoundRows, Apart, Pressed, NewButtons, Bound,
       Busy, Mine, promptVars
  <2>3. DraftsInv'
    BY <1>1 DEF PIInv, DraftsInv, Carried, Recording, OwnDrafts, Counted, Unrecorded,
       RecordedNow, RecordedOnce, RecordedAsConfirmed, Busy, Mine, Shown, ShownTo,
       promptVars
  <2> QED
    BY <2>1, <2>2, <2>3 DEF PIInv
<1>2. ASSUME NEW u \in waiting, Converse(u) PROVE PIInv'
  BY <1>2, OpenDraftKeeps, OpenNothingKeeps, ChangesKeep, MovesKeep, RepeatsKeep,
     SayOnlyKeeps, ConfirmEntryKeeps, OthersKeep DEF Converse
<1>3. CASE HandlerStep
  <2>1. CASE SendReply
    BY <2>1, SendWordsKeeps, SendButtonsKeeps
  <2> QED
    BY <1>3, <2>1, RecordEntryKeeps, SaveChatKeeps, SaveAgainKeeps, HandlerFailsKeeps
    DEF HandlerStep
<1> QED
  BY <1>1, <1>2, <1>3, ReceivesKeep, ExpireChatKeeps, OthersKeep DEF PromptNext

LEMMA PromptsInvariant == PromptSpec => []PIInv
  BY StartsSound, PromptStep, PTL DEF PromptSpec

\* Each variable of the chat keeps its type: the messages, the updates, the
\* conversations and the handler are what the code's records are.
THEOREM PromptTyped == PromptSpec => []PromptTypeOK
<1>1. PIInv => PromptTypeOK
  BY DEF PIInv
<1> QED
  BY <1>1, PromptsInvariant, PTL

\* For any number of senders, drafts and prompts: whatever is recorded was
\* confirmed by its creator, on a message sent to them that said just that.
THEOREM ConfirmedIsRecorded == PromptSpec => []RecordedAsConfirmed
<1>1. PIInv => RecordedAsConfirmed
  BY DEF PIInv, DraftsInv
<1> QED
  BY <1>1, PromptsInvariant, PTL

\* A draft is recorded at most once more than handlers died, or failed to log,
\* between recording it and saving that, whatever is pressed and typed again.
THEOREM RecordedOncePerLoss == PromptSpec => []RecordedOnce
<1>1. PIInv => RecordedOnce
  BY DEF PIInv, DraftsInv, Counted
<1> QED
  BY <1>1, PromptsInvariant, PTL

\* No failure leaves a conversation remembering another message than the one
\* with its buttons, and no other conversation of the chat remembers that one:
\* its owner's tap on them is not refused.
THEOREM ButtonsStayUsable == PromptSpec => []PromptStaysUsable
<1>1. PIInv => PromptStaysUsable
  <2> SUFFICES ASSUME PIInv, handling = Idle, NEW s \in Senders, NEW m \in prompts,
                      chats[s].status \in Live, m.token # Unbound,
                      m.token = chats[s].token
               PROVE  /\ m.to = s /\ chats[s].prompt \in {NoMessage, m.id}
                      /\ \A x \in Senders \ {s} : chats[x].prompt # m.id
    BY DEF PromptStaysUsable
  <2>1. Fits(m, s, chats[s])
    BY DEF PIInv, ButtonsInv, BoundRows, Bound
  <2>2. ASSUME NEW x \in Senders \ {s} PROVE chats[x].prompt # m.id
    <3> SUFFICES ASSUME chats[x].prompt = m.id PROVE FALSE
      OBVIOUS
    <3>1. m.id # NoMessage
      BY PromptAssumption DEF PIInv, PromptTypeOK, Prompt
    <3>2. PICK n \in prompts : n.id = m.id /\ Fits(n, x, chats[x])
      BY <3>1 DEF PIInv, ButtonsInv, BoundRows, Bound
    <3>3. n = m
      BY <3>2 DEF PIInv, ButtonsInv, Apart
    <3> QED
      BY <2>1, <3>2, <3>3 DEF Fits
  <2> QED
    BY <2>1, <2>2 DEF Fits
<1> QED
  BY <1>1, PromptsInvariant, PTL
=============================================================================
