# Family Finance: a verification project

TLA+ models of the family-finance repository (a Telegram bot, a Next.js web
application and a Supabase database shared by the members of a household), the
TLC runs that model-check them, and theorems about them checked by TLAPS.
Paths below are relative to the repository.

- [1. The system](#1-the-system): inventory of components and of what is hard
- [2. Modules](#2-modules) and how they correspond to the code
- [3. Runs](#3-runs): what each shows, bounds, fairness
- [4. Proofs](#4-proofs)
- [5. Disagreements found](#5-disagreements-found)
- [6. What is only model-checked, and what is not modelled](#6-what-is-only-model-checked-and-what-is-not-modelled)
- [7. Plan](#7-plan)

Run `tlc -config bot.cfg MCCardBillPayment.tla` to check a run and
`tlapm CardBillPayment_proofs.tla` to check the proofs of a module.

## 1. The system

A household has members, accounts, credit cards, categories, transactions,
installment groups, obligations and statement imports. Members reach them from
the web (server actions, PostgREST under row-level security) and from a Telegram
bot (one process with the service role, a conversation per Telegram user). The
rules that must survive concurrency are in the database: triggers, unique
indexes and `security definer`/`invoker` RPCs in `supabase/migrations`.

| Component | State | Operations | Interacts with | What is hard | What makes it correct |
|---|---|---|---|---|---|
| **Card bill payment**: `settle_card_bill` (`202610080003:284-447`), `payCardBillAction` (`apps/web/app/(app)/cards/actions.ts`), the bot's draft (`apps/bot/src/conversation.ts:2168-2300, 4177-4550`) | transfers with a bill month and an idempotency key; the draft in `bot_conversations` | start, choose card, edit, cancel, confirm, retry; web form; edit, undo | conversation store, membership, accounts, cards | a reply lost after the write, a late or duplicated execution, a crash between the save and the call, re-linking, drafts from before keys | one payment per intention; never a payment for a draft that was given up; "paid" only if recorded; an uncertain draft is kept and can be concluded |
| **Card faturas** (`202610070000`, `packages/domain/src/installments.ts`, `card-bills.ts`, `repositories.ts:3309-3700`) | `credit_cards.closing_day`, `card_bill_closures`, `transactions.invoice_month`, installments, payments | record, edit, move, delete or import a charge; buy in parcels; close, reopen, correct the total; pay, undo | every flow that writes a card charge | the calendar, closings typed from a stale page, edits of old charges, two implementations (SQL and TypeScript) of one rule | a closed fatura is frozen; no open one is skipped; a paid one stays paid; the two implementations agree |
| **Installment purchases**: `create_installment_purchase` (`202610080003:69-275`), the bot's draft (`conversation.ts:3876-4175`), the web form | installment groups, parcels, the draft | plan, pin the first month, submit, retry, edit category, merge categories | faturas, categories, conversation store | as card bill payment, and a payload the web may change between a lost reply and its retry | one group per draft; the same months at every retry; a saved purchase is reported as saved |
| **Obligations** (`0011`, `0018`, `202610080003:450-562`, `conversation.ts:1740-2010, 3790-3870`, `apps/web/app/(app)/obligations`) | templates, one transaction per obligation and due month, the bot's picker or draft | describe, edit, cancel, pay from bot or web, undo, edit a payment, project a month | accounts, categories, dashboard | both channels at once; an RPC that reads and inserts in two statements; a lost answer; a template edited between the list and the payment; two reads of one dashboard | at most one payment per occurrence; the bot names what was recorded; what is shown as due can be paid; nothing drops out of a month's total |
| **Import** (`0015`, `0016`, `0027`, `apps/web/app/(app)/imports`) | import batches, row claims, audits, replaced expenses, signed preview | parse, review, confirm, override, keep with a purchase, replace existing entries | transactions, groups, categories, AI budget | two reviewers, two overlapping statements, a preview confirmed twice, entries edited after the preview | a row is imported once; a purchase keeps its lines and its name; an expense is replaced as it is, once; who is told "confirmada" chose what is recorded |
| **AI suggestion budget** (`0016:208-233, 385-465`, `import-suggestions.ts`) | nonces, paid items per day and per preview, active requests | sign, check the age, claim a nonce, reserve, buy | import | concurrent reservations, replayed signed requests, two clocks, midnight | limits hold; a signed request is served once |
| **Categories** (`0003`, `0016:113-188`, `0023`, `category-runtime.ts`) | categories, memory, source mappings | create, archive, merge, reuse | everything that stores a category id | drafts and retries that hold the id of a merged category | nothing is recorded in an archived category |
| **Provisioning and Telegram linking** (`202610080001`, `202610080004`, `settings/actions.ts`) | allowlist, members, link codes, Telegram identity | sign up, allow, create/redeem/discard a code, unlink | bot webhook, row-level security | triggers committing in either order; two redemptions of a code; a redemption racing an unlink | who is invited and confirmed is a member; an account is linked only by a code its member still wants used |
| **Bot webhook and conversation store** (`index.ts`, `store.ts`) | per-chat queue (memory), conversation row | authenticate, deduplicate, load, apply, save, reply | all bot flows | crash between two awaits, redelivery, expiry | updates of a chat are handled one at a time; post-write uncertainty is never dropped |
| **Bot conversation** for ordinary entries, menus and recents (`conversation.ts`, `index.ts`, `keyboards.ts`) | draft, token and message id of its prompt | propose, edit, name a category, choose an instrument, confirm, cancel | transactions, categories, conversation store | buttons of old prompts and of other members; a save or a send that fails half way | what is recorded is what the pressed message said, to its owner; once; buttons just sent are not refused |
| **Text interpretation, AI, speech, evaluation** | none | classify a message | conversation | natural language | not a state machine |
| **Web capture** (`capture/actions.ts`, `apps/bot/src/capture.ts`) | a draft in the page | interpret, prefill | transactions form | stale catalog | only catalog ids |
| **Web: transactions, accounts, buckets, dashboard, resumo** | rows of one table each | create, update, delete, read | faturas, payments | edits of rows other flows rely on | kind-specific fields stay as they are |
| **Importers, identity and deduplication, categorization** (`packages/importers`, `packages/categorization`) | none | parse, fingerprint, rank | import | ambiguity in the data | deterministic, no false duplicate |
| **Money and calendar** (`packages/domain`) | none | split cents, clamp dates, month arithmetic | faturas, purchases | boundaries | parcels add up; months are consecutive |
| **Row-level security and grants** (`0001`, `0005`, `0012`, `0013`) | policies | filter | every read and write | absence of rows read as absence of facts | a household sees its own rows |
| **Web session, deployment** | cookies; applied migrations | log in; migrate | all | operator scripts | out of scope |

`PROJECT.json` lists the same components with their files, and under `hazards`
each situation that a test would hardly reach, at the line where it bites and
with the properties that cover it, or the reason why no property can.

Four mechanisms recur and shape the models:

1. **Serialised updates, concurrent database.** The bot is one process and
   `withChatQueue` (`index.ts:210-228`) handles the updates of a chat one at a
   time, but the sender is resolved *before* the update joins the queue, and an
   HTTP request the bot has given up on may still execute.
2. **The draft as a write-ahead record.** Before an RPC that is not naturally
   idempotent the draft is saved as `..._submission_started` with its key; any
   later message meets that draft and may only confirm it again.
3. **Reads, then a later write.** The web renders a page, the member submits it
   minutes later; server actions read with one request and write with another.
   Only a single statement with its triggers, or an RPC, is atomic.
4. **Months, not dates.** A fatura is a month; whether it is closed depends on
   today, the card's closing day and a manual override, so a legal sequence of
   closings, reopenings and edits is long before it is wrong.

## 2. Modules

| Module | Role |
|---|---|
| `CardBillPayment` | paying a bill: bot, store, RPC, web form, edits, membership |
| `PaymentPromise` | the abstract promise that it and `InstallmentPurchase` implement |
| `CardBillPayment_proofs` | its theorems |
| `MCCardBillPayment` | TLC instance (symmetry) for `bot`, `shared`, `retry`, `edited`, `overwritten` |
| `InstallmentPurchase` | buying in parcels through the bot: draft, store, RPC, categories, cards, membership |
| `InstallmentPurchase_proofs` | its theorems; it implements `PaymentPromise` too |
| `MCInstallmentPurchase` | TLC instance (symmetry) for `parcels`, `reconfirm`, `stuck` |
| `CardFatura` | which fatura a charge belongs to, closing, totals, status |
| `CardFatura_proofs` | its theorems |
| `MCCardFatura` | TLC instance (calendar, purchases) for `fatura`, `plan`, `stale` |
| `ObligationPayments` (`_proofs`) | obligations, their payments, the bot's picker, the dashboard's two reads |
| `ImportConfirmation` (`_proofs`) | confirming a reviewed statement: claims, overrides, kept purchases, replaced expenses |
| `MemberLinking` | who becomes a member, and which Telegram account speaks for one |
| `SuggestionBudget` | signed requests, nonces, and the limits of what is paid for |
| `BotPrompts` (`_proofs`) | ordinary entries through the bot: prompts, buttons, saves and sends |
| `MCHousehold` | TLC instance of these five side by side, for `household` |
| `Household_proofs` | theorems about `MemberLinking`, `SuggestionBudget` and the composition |
| `Sums` | lemmas about the sum of a function on a finite set, for `CardFatura_proofs` and `Household_proofs` |

Definitions marked "Mutant" in the modules are deliberately wrong variants of the
definition below them. No action uses them; replacing the right one by its
mutant must violate the property named for it in `PROJECT.json`, which shows that
the property depends on that line of the code.

### CardBillPayment

One chat of one Telegram user, one household.

| Variable | Code |
|---|---|
| `rows` | `transactions` of kind transfer with `bill_month`, unique by `idempotency_key` |
| `accounts`, `bills` | rows of `accounts` and of `credit_cards`; a bill is a (card, month) pair |
| `active`, `linked` | active members; the member the Telegram account resolves to |
| `today` | household date, which `settle_card_bill` compares `p_paid_on` with |
| `conv` | the row of `bot_conversations`: `closed` (no card-bill draft), `awaiting` (`awaiting_card_bill_confirmation`), `started` (`card_bill_submission_started`) and its draft |
| `task` | the webhook handler at work: `idle`, `queued` (in the chat's queue), `submitting` (prepared, not saved), `ready` (saved, RPC not sent), `waiting`, `answered`, `concluding` (outcome known, not saved) |
| `calls` | RPC requests that the database has not executed, whether or not anyone waits |
| `form` | the web payment form with the key of its render |
| `usedKeys` | what `randomUUID` has returned |
| `fate`, `ever` | history: what the bot told of each draft, payments that were once recorded |

| Actions | Code |
|---|---|
| `Receive`, `ExpireOnLoad`, `HandlerStops` | the webhook and `withChatQueue`; `store.load`'s expiry of statuses that are not durable; a crash or an exception anywhere, after which Telegram may deliver the update again (another `Receive`) |
| `StartDraft`, `StartElsewhere`, `ChooseCard`, `EditDraft`, `Cancel`, `Refuse` | `startCardBillIntent`, other intents replacing the draft, `resolveBillCard`, `applyCardBillMessage` and its callbacks |
| `PrepareKeyed`, `PrepareLegacy`, `SaveSubmission` | `prepareCardBillSubmission` and the save before `applyMessage` (text `index.ts:1099-1130`, button `770-800`) |
| `ConfirmStarted`, `CallSettle`, `TakeAnswer`, `AnswerLost`, `Conclude` | `confirmCardBill`, the repository call, the interpretation of its error, the save of the outcome |
| `ExecuteSettle`, `LoseCall` | `settle_card_bill` as one transaction at any time after it was sent; a request that never arrives or rolls back |
| `RenderForm`, `SubmitForm` | the bill page with a key per render; `payCardBillAction`, any number of times |
| `UndoPayment`, `EditPayment`, `DeleteAccount`, `DeleteCard` | the web's deletion and edit of a transfer; deletions that foreign keys allow |
| `SetMembership`, `Unlink`, `Link`, `NextDay` | membership, `unlink` and `redeem`, the calendar |

`SettleAnswer` is the RPC's decision in its order: membership (`error`), a row
with this key (`replayed` if it is the same payment, `error` if not), validation
(`definitive`: the only answer that carries the marker "nothing was written"),
else `settled`. `LegacyStatus` is `reconcile_legacy_card_bill_payment`. A draft
carries an `id` that the code does not have: it names the member's intention, so
that "paid twice" can be said of drafts whose key was minted late. `calls` keep
their `tag` only to tell which request the handler waits for.

`PaymentPromise` has three actions: pay an intention that is unpaid and not given
up, undo a payment, give up an unpaid intention. `KeepsPromise` maps its
`payments` to the rows that carry a key and its `released` to the drafts whose
`fate` is `released`.

### InstallmentPurchase

One chat of one Telegram user, one household.

| Variable | Code |
|---|---|
| `groups` | `installment_groups` that have an idempotency key, with their parcels: card, what was bought (description, total, count, date), month of the first parcel, category, creator; and whether a bank statement has given it another description. The parcels follow from these |
| `cards` | rows of `credit_cards` |
| `known`, `named` | `categories`, and those of them whose name is the proposed one |
| `active`, `linked` | active members; the member the Telegram account resolves to |
| `conv` | `bot_conversations`: `closed`, `awaiting` (`awaiting_installment_confirmation`), `started` (`installment_submission_started` and `installment_outcome_uncertain`, which every handler treats alike), `recovery` (`installment_recovery_required`), with the draft |
| `task` | the webhook handler at work: `idle`, `queued`, `submitting` (month found, not saved), `ready`, `naming` (the category was looked up and is not there), `waiting`, `answered` (outcome not saved) |
| `calls` | requests that the database has not executed |
| `fate` | history: what became of the draft of each key: `open`, `saved` (the bot said so), `released` (cancelled or replaced while it could be edited), `orphaned` (replaced after it was submitted) |

| Actions | Code |
|---|---|
| `Receive`, `RepairOnLoad`, `HandlerStops` | the webhook and its queue; `store.load` turning a draft without a key into `recovery`; a crash or a failed request |
| `StartDraft`, `StartElsewhere`, `Correct`, `ChooseCategory`, `AcceptProposal`, `Cancel`, `Refuse` | `startInstallmentIntent`, another intent, `applyInstallmentMessage` and the callbacks |
| `Prepare`, `SaveSubmission`, `ConfirmStarted` | `canSubmitInstallment`, `prepareInstallmentSubmission`, the save before the message is applied, a confirmation of a submitted draft |
| `FindCategory`, `CreateCategory` | `createOrReuseCategory`: a lookup, then an insert in another request |
| `CallCreate`, `ExecuteCreate`, `LoseCall`, `AnswerLost`, `Conclude` | the repository call, the RPC as one transaction at any time after it was sent, a request or reply that is lost, the save of the outcome |
| `Recategorize`, `Merge`, `LinkStatement`, `CreateOnWeb`, `DeleteCard` | `update_installment_group_category`, `merge_category`, `confirm_import_v2` linking a statement line to the purchase (which replaces its description once), a new category, a card's deletion (which purchases restrict) |
| `SetMembership`, `Unlink`, `Link` | membership and the Telegram link |

`Succeeds` is the RPC's decision: membership, then insert or, on the unique
index, comparison of the whole payload with what is stored. `Opens` is
`resolveInstallmentOpenMonth`: the month of the purchase that exists under the
key, else that of the first open fatura. The latter is any month: it is
`CardFatura!FirstOpen`, whose closings may change between two searches, and no
property here may depend on which month it is. `Pins` keeps a month that is
there. A request that the database refuses, and one whose reply is lost, look the
same to the bot, which has no marker that proves that nothing was written; hence
`Verdict` has two outcomes where the card bill's has three.

Abstractions: a category may be archived and restored at any time, so that it is
not kept whether it is active; a proposed subcategory is treated as a proposed
category; a correction that changes nothing is a `Refuse`. The web's own form
sends no key and never retries, and is `PlanPurchase`/`SavePlan` of `CardFatura`.

`PurchaseKeepsPromise` maps the `payments` of `PaymentPromise` to the groups with
their key as the intention, and `released` to the drafts whose `fate` is so. Only
its action part is stated: a run may start from the draft of an older version
whose purchase is already saved.

### CardFatura

Cards, months and the people who work on them at the same time.

| Variable | Code |
|---|---|
| `today`, `closing` | the date in Sao Paulo; `credit_cards.closing_day` (0 is null) |
| `closures` | `card_bill_closures`: none, `open` (reopened), `closed`, with the corrected total |
| `charges` | card transactions with their `invoice_month`, and whether they were imported |
| `plans` | installment groups; the parcels of a month follow from start and count |
| `payments` | transfers that pay a fatura |
| `desk` | for each member, the page or request in progress: a closing form with what it showed, a total about to be written, a plan about to be saved |

| Actions | Code |
|---|---|
| `AddCharge`, `UpdateCharge`, `DeleteCharge` | an insert or update of `transactions` with the trigger of `202610070000:113-168`, from the web, the bot or an import |
| `PlanPurchase`, `SavePlan` | `planWithOpenFaturas` and `createInstallmentPlan`; the RPC in a later request |
| `RenderForm`, `SubmitTotal`, `WriteTotal`, `Reopen`, `Leave` | the bill page and form, `normalizedCardBillTotal`, `closeCardBill`/`setCardBillTotal`, `reopenCardBill` |
| `Pay`, `UndoPayment`, `SetClosingDay`, `NextDay` | a payment of any month, its deletion, an edit of the card, the calendar |

`ParcelIn(m)` is what a purchase bills in month m, by `splitCents`. `FirstOpen(c, m, n)` says that the search for an open fatura from month `m`
stops at `n`; where no such `n` exists the code raises or throws, and the action
is disabled. `Offset`/`PlanStart` are the TypeScript rule, `Attributed` the SQL
one. `Status`, `Total`, `Remaining` and `Pending` are `packages/domain/src/card-bills.ts`.

Abstractions: the reads of one planning are one step (the trigger and the
closures it reads really are one transaction); card deletion and changes of a
transaction's kind are left out, since they remove charges and never attribute
one; only expenses are put on a card.

### ObligationPayments

One household, one chat.

| Variable | Code |
|---|---|
| `templates` | rows of `obligations`: status, monthly amount, start month, term |
| `paid` | transactions with an `obligation_id` and `obligation_month` |
| `chat` | `bot_conversations`: `closed`, `choosing` (the picker, with the amounts it listed), `confirming` (the draft of a template); `edited` is history: candidates edited since they were listed |
| `settling` | the webhook handler at work: `listed` (candidate chosen, RPC not sent), `waiting`, `answered`, `creating`, `created` |
| `requests` | `materialize_obligation_payment` calls, `sent` or `read` (the template was read, the insert is to come) |
| `pressure` | a dashboard request that has read templates, payments or both; `due` is history: what was due and active when it was asked |

| Actions | Code |
|---|---|
| `MentionPayment`, `ChooseObligation`, `DropChat` | "paguei a luz" with one or several candidates, the picker's button, another intent |
| `SendPayment`, `GiveUpOnAnswer`, `ReplyPayment`, `SettlingStops` | `settleObligation`, a failing or lost request, the reply, a crash |
| `ReadTemplate`, `InsertPayment`, `LoseRequest` | the RPC's two statements, with the window check between them and `on conflict do nothing` at the end; a request that is lost or refused |
| `DescribeTemplate`, `CorrectDraft`, `ConfirmDraft`, `SaveDraft` | the draft of a new obligation |
| `CreateTemplate`, `EditTemplate`, `CancelTemplate`, `PayOnWeb`, `UndoObligationPayment`, `EditObligationPayment` | the obligations page's actions |
| `AskPressure`, `ReadUnpaid`, `ReadActive`, `ReadSettled` | the requests behind the dashboard's total of a month |

`Projects` is the TypeScript rule (`projectObligations`, months as strings),
`Payable` the SQL one (dates and intervals); they are written from the two sources
separately so that `ProjectedIsPayable` can compare them. Accounts, categories
and responsibility only decide whether a request is refused (`LoseRequest`).

### ImportConfirmation

| Variable | Code |
|---|---|
| `batches` | `import_batches`: the payload confirmed with each request key |
| `claims` | `import_item_claims`: a line, natural (`NoToken`) or an override of it |
| `artifacts` | transactions and installment groups made by imports |
| `audits` | `import_rows` of lines that carry a purchase |
| `description`, `label`, `batchOf` | of `installment_groups`: the name given by hand or by a bank, `purchase_description` (shown instead, if any), `import_batch_id` |
| `expenses`, `replaced` | manual expenses; `import_transaction_replacements` |
| `inFlight` | RPC calls, `sent` or `locked` (the rows to replace are locked and read), with the names the page `shown` for the purchases they keep |
| `told` | the last "confirmada" each reviewer was answered, with the choices that were sent |

| Actions | Code |
|---|---|
| `Confirm` | `confirmImport` with a choice for every line (`new`, `skip`, `keep` with a purchase, replace an expense) |
| `LockOriginals` | `confirm_import_with_replacements`: `select ... for update` and the comparison of the amount with what the reviewer saw |
| `CommitBatch` | the rest of that transaction, or the whole of `confirm_import_v2`: claims, artifacts, audits, batch; `NamePurchases`: a purchase keeps the bank name it has if `import_batch_id` is set, and gets the shown name as its label |
| `ReplayBatch`, `RefuseCall` | a batch that exists: the stored result if the fingerprint is the same, an error if not; any refusal or loss |
| `EditExpense`, `DeleteExpense` | the transactions page, which waits for row locks |

A line is its identity (source, version, fingerprint, occurrence); how identities
are computed is in the parsers, which are not modelled. The warnings raised before
the call ask the reviewer to decide and guard nothing: any well-formed payload may
arrive. `CommitBatch` is one step because nothing it writes is visible before it
commits and the unique indexes make concurrent ones wait; the locks that are
taken earlier are a step of their own.

The label is computed by the page when it shows the purchase (and by the web action
in the same way), long before the RPC runs: `Confirm` keeps it in the call, so that
calls in flight carry labels of different age. A line stands for its bank name;
names differ from line to line. A member's name by hand is `OwnName` or, by chance,
a bank's. Left out are names the reviewer types and the name a replaced expense
lends to its purchase: they are other values of the label.

### MemberLinking

| Variable | Code |
|---|---|
| `confirmed`, `allowed` | `auth.users` with a confirmed e-mail; `allowed_emails` |
| `household`, `active`, `telegram` | `household_members` |
| `signUps`, `invitations` | transactions of the two provisioning triggers: `written`, then `read` (under the advisory lock on the e-mail) |
| `code` | `telegram_link_codes` that have not expired |
| `redeems`, `unlinks` | transactions of `redeem_telegram_link_code` (`found`: the code's row is locked, `checked`: the member's too) and `unlink_telegram` |
| `asked`, `usedBy` | history: who asked for a code since the last unlink; which accounts a code has linked |

| Actions | Code |
|---|---|
| `ConfirmUser`, `ReadAllowlist`, `CommitSignUp`, `AbortSignUp` | the trigger on users |
| `Invite`, `ReadUsers`, `CommitInvitation`, `AbortInvitation`, `Disallow`, `Deactivate` | the trigger on the allowlist; the operator's deletion of a row; a member set inactive |
| `CreateCode`, `DropCode` | `createTelegramLinkCode`; discarding and expiry |
| `FindCode`, `CheckMember`, `CommitLink`, `AbortRedeem` | the redemption in the order of its locks |
| `StartUnlink`, `CommitUnlink`, `AbortUnlink` | `unlink_telegram` |

### SuggestionBudget

| Variable | Code |
|---|---|
| `now` | the clock of the bot and its database, in ticks |
| `sent` | signed requests: stamp, budget key, number of items |
| `checking` | requests found fresh whose nonce is being claimed |
| `nonces` | `import_suggestion_nonces`: the expiry of each |
| `jobs` | requests the bot works on (at most `MaxJobs`, 2 in the code) |
| `reserving` | `reserve_import_ai_paid_items` transactions, before and after they lock the day's row |
| `usage`, `daily` | `import_ai_usage`, `import_ai_daily_usage` |
| `served`, `bought` | history: how often a request was accepted, what was paid for it |

| Actions | Code |
|---|---|
| `SignRequest`, `CheckAge`, `ClaimNonce`, `DropCheck`, `EndJob` | the web's signature (`import-suggestions.ts`), the bot's checks and its limit on active requests |
| `BeginReservation`, `LockDay`, `CommitReservation`, `AbortReservation` | the RPC: the day's row is locked, then what the preview has used is read |
| `BuySuggestions` | the paid call, for no more than was reserved |
| `Tick` | time, which does not pass a check's `ClaimDelay` |

`KeepFor >= 2 * Window` holds of the code's 120 s and 60 s.
`Skew + ClaimDelay < Window` is an assumption: the code puts no bound on the await
between the age check and the claim, nor on the difference of two clocks.

### BotPrompts

One chat in which several Telegram users may write and press each other's buttons.

| Variable | Code |
|---|---|
| `speaksFor` | the member each Telegram user is linked to |
| `chats` | `bot_conversations` of the chat, by user: status, draft and its content, creator, `promptToken`, `promptMessageId` |
| `prompts` | the bot's messages that have buttons: message id, to whom, token, which buttons, what the text says of the draft |
| `waiting` | updates whose sender is resolved, in the chat's queue |
| `handling` | the handler at work: `recording`, `saving`, `sending`, `sent`, with the state it will save and the reply's buttons |
| `entries`, `times`, `lost` | history: what was recorded and on whose confirmation of which message; how often per draft; handlers that recorded and did not save that |

| Actions | Code |
|---|---|
| `ReceiveTyped`, `ReceiveTap` | the webhook: resolve the sender, join `withChatQueue` |
| `Ignore` | refusals (`hasOtherPrompt`, token, message id, creator), a tap on a draft that is done, a note without a transcript |
| `OpenDraft`, `OpenNothing` | `startConversation` |
| `CorrectByText`, `SetByTap`, `ChooseInstrument`, `AskName`, `GiveName`, `NameCategory`, `ShowGrid`, `SayOnly`, `AskAgain`, `CancelDraft`, `CancelName`, `ConfirmEntry` | `applyMessage` and `applyCallback`, by status and what is asked |
| `RecordEntry`, `SaveChat`, `SendReply`, `SaveAgain` | `createTransaction`; "persist first"; the reply with its buttons; the save of the new message id |
| `HandlerFails` | a crash, or a request that fails, before any of them |
| `ExpireChat`, `Relink` | a row older than a day, deleted on load; linking and unlinking |

`BoundTo` and `TapAccepted` are the webhook's checks of a tap in full. `Reply` says
which token and message id the saved state has: a new token when there are buttons,
the old one when a live draft goes on without; no message id until the second
save. Buttons that were sent are never withdrawn in the model: the code strips
them, but that request may fail and a tap may be under way. A draft's content
(amount, date, category, responsible, instrument) is one value, "set" gives it
another; drafts have names that the code does not have. `Old...` in `PromptInit`
are drafts from before prompts had tokens.

## 3. Runs

| Run | Kind | What it shows |
|---|---|---|
| `bot` | pass | One member whose bot handler interleaves with a late database, crashes, lost replies and a second person who edits, undoes and deletes on the web. `EditableMeansUnpaid`: while the bot offers to edit or cancel, nothing of the key is recorded and nothing in flight can record it. `ReportsOnlyRecorded`: "paga" only of a payment recorded exactly so. `UncertaintyRetained`: a started draft is not lost. |
| `shared` | pass | Two members, the web form, drafts of the version without keys, a Telegram link that moves. `OnePaymentPerDraft`, `ReleasedStaysUnpaid`, `WritesAreRecoverable`, and the refinement `KeepsPromise`. |
| `retry` | pass | `ConfirmAgainConcludes`: a member who keeps confirming a started draft gets an end to it, when nobody edits the recorded payment. |
| `edited` | violation | The same property when the recorded payment is edited on the web (finding 1). |
| `overwritten` | violation | `UncertaintyRetained` when the Telegram account moves to another member (finding 2). |
| `parcels` | pass | Two members, a Telegram link that moves, drafts of older versions (no key; no month, saved or not), late, lost and repeated requests, crashes and the web's changes of categories and cards. `OneGroupPerDraft`; `EditableMeansUnsaved`; `ScheduleIsPinned`: every request and the saved group have the same parcels in the same months; `SavedIsSaved`; the refinement `PurchaseKeepsPromise`. |
| `reconfirm` | pass | `ConfirmingConcludes`: a member who keeps confirming a submitted draft gets an end to it, unless the saved category or description changed or the card was deleted (`Tampered`). |
| `stuck` | violation | The same without the exception (finding 5). |
| `fatura` | pass | Charges, imports, purchases in parcels, closings from stale pages, reopenings, payments and the calendar: `ClosedStaysFrozen`, `NoFaturaSkipped`, `CorrectionKeepsMonth`, `PaidStaysPaid`, `FirstParcelLandsWithCharge`, `PendingIsOwed`. |
| `plan` | violation | A purchase in parcels reopens a paid fatura (finding 3). |
| `stale` | violation | An untouched closing form stores an override (finding 4). |
| `household` | pass | The five components that share no state, each by itself: see the next table. |

The properties of `household`, besides its type invariant:

| Property | What the run shows |
|---|---|
| `OccurrencePaidOnce` | Bot, web, retries and undos at once: a month of an obligation has at most one payment. |
| `ReplyNamesWhatIsPaid` | "Pago! R$ x" names what was recorded, unless the template was edited after the bot listed it. |
| `ProjectedIsPayable` | The TypeScript projection and the SQL window agree on every template and month. |
| `NothingDropsOut` | Payments and undos between the dashboard's two reads never make a due obligation vanish from the total. |
| `LineImportedOnce` | Overlapping statements, two reviewers, a preview confirmed again: one artifact per line and per override. |
| `LineKeepsItsPurchase` | Lines that later statements keep with a purchase are those of the purchase their claim names. |
| `ConfirmedIsWhatWasChosen` | A reviewer told "confirmada" chose what is recorded under that key. |
| `ReplacementIsFaithful` | A replaced expense gives way, in one step, to a purchase of the amount and category it had then. |
| `PurchaseKeepsItsNames` | Two statements that link one purchase, looked at before and committed after each other: its bank name is that of a line of the batch it is attributed to, and the member's own name stays on the screen, but for a name by hand that is also a bank's. |
| `InvitedIsMember` | Confirmation and invitation in either order, overlapping or aborted: in the end there is a member. |
| `LinkIsWanted` | An account is linked only by a code asked for since the last unlink, and a code links one account. |
| `PaidWithinLimits` | What is paid for stays within a day's and a preview's limit (the latter unless its reservations fall on two days). |
| `ServedOnce` | A signed request is served once, also after its nonce has expired and been deleted. |
| `RecordedAsConfirmed` | Whatever old, foreign or unsaved button is pressed: what is recorded is what that message said, to the one who pressed it, in their name. |
| `RecordedOnce` | A draft is recorded once, and again only for a handler lost between recording and saving. |
| `PromptStaysUsable` | No failed save or send makes the bot refuse the buttons it just sent. |

**Bounds of the payment runs.** `bot`: one member, one account, one bill, two
amounts, two days, two drafts and keys, two rows and two requests in flight.
Two amounts and two days make every payload comparison of the RPC go both ways,
a draft dated today stale or valid, and an edit distinguishable; two drafts let
one be given up while another is paid; two requests let a retry overtake the
original. About 1.1 million distinct states, one minute. `shared` trades the
second amount, the second day and edits for the second member, the web form and
legacy drafts: the properties it checks compare drafts, keys and members, and
payloads already differ by member. About 1.2 million states, two minutes.
`MaxDay` bounds the calendar, `RowIds` the payments recorded at one time, `Tags`
the requests in flight; the guards `FreeRid` and `HasTag` are those bounds and
have no counterpart in the code. Symmetry is over drafts, keys, members and
amounts as model values, and is used only in runs without liveness. The theorems
of section 4 remove all these bounds for the safety properties.

**Bounds of the purchase runs.** `parcels`: two members, two keys, two months,
two requests in flight, one card, one value of what is bought, one category that
does not exist yet, and the proposed one. Two keys let one draft be released while
another is submitted; two months make a month that is not pinned visible; two
requests let a retry overtake the original; a draft can lack its card or its
value. About 2.6 million states, two and a half minutes. Payloads differ by month, category
(none or one) and creator, so that the replay's comparison goes both ways.
`reconfirm` and `stuck` have one member and one key, and two categories, so that
the web can move a purchase from one to another: about 53 thousand states. `Keys`
bounds the drafts, `Tags` the requests in flight (`HasTag`), `Categories` those
that can be created; none of these has a counterpart in the code, and the
theorems hold for any of them. Symmetry (keys, members, months, categories as
model values) is used in `parcels` only, which checks no liveness.

**Bounds of the fatura runs.** One card, two months to act on and a search of at
most one closed month (24 in the code): enough for a charge to land one month
later, for a month after an open one to be closed, and for the search to fail.
The second month has one day, so that a closing day of 2 is clamped in it;
closing days are none, 1 and 2, and the web's limit of 28 is 1, so that the web
and the bot plan with different closing days. Purchases on (1,2) and (2,1) are on,
before and after each closing day; both months are reached. Amounts 1 and 2, one
payment value and a typed total of 0 make each comparison of status go three
ways, and a purchase of 3 in 2 parcels leaves a remainder. One charge, one plan,
one payment and one person at a time; concurrency is in the order of steps, as a
page stays open while the same or another person's single-request operations
happen. About 1.2 million states, two minutes.

**Bounds of `household`.** The five components share no variable, and neither the
code nor the models let one read another's, so that exploring them in one
behaviour would only multiply the states: `part` says which one moves, and the
others keep their initial values. Within a component, parts divide what its
properties are about:

| Part | States | What moves |
|---|---|---|
| `bot` | 99 000 | one obligation due in December, the bot, the web and the RPC, two requests, two amounts |
| `page` | 38 000 | the same obligation with any start of December or January, a term of one month or none, the web and the dashboard |
| `lines` | 2 000 | a flat line and a parcel line, two previews, overrides, confirmed one after the other and again |
| `purchases` | 68 000 | two parcel lines, kept with purchases made by hand (under any name) or by another review; two calls at once that link one line each with the purchase made by hand |
| `expenses` | 76 000 | a manual expense of every content, edited and deleted while two calls replace it |
| `members` | 72 000 | two users, two households, two Telegram accounts, two codes |
| `clock` | 178 000 | two signed requests, late and repeated, while seven ticks pass; no reservations |
| `burst` | 152 000 | three requests for two previews around midnight, each taken once, reservations interleaved |
| `solo` | 144 000 | one sender, one draft, everything that can be asked, every failure, expiry |
| `pair` | 31 000 | two senders with a draft each who press each other's buttons, no failures |
| `link` | 5 000 | a Telegram account linked to another member while its update waits |

About 869 thousand states, under three minutes. Two months across a year's end make
the two calendars count differently if they can, in a template's start; a term of one
month never ends in another year, so that for the end of a term the year's end
rests on the theorems `WindowsAgree` and `DueIsPayable`, which hold for all terms.
One obligation suffices because no property relates two. Two previews of the same
lines are the overlap; two calls are in flight at once in `expenses` and
`purchases`, and one at a time in `lines`. Days of four ticks with a window of three, nonces kept for six and
clocks one tick apart let a request be replayed after its nonce is gone; limits
of 4 a day and 3 a preview against requests of 2 items make both bind with
three requests. In the parts of the prompts an update waits alone: a message
keeps its buttons for good, so that one that arrives later meets the same
choice; at most one handler is lost in that way and a draft is recorded at most
twice (so that `RecordedOnce` is not cut off at its limit), and ids of messages
increase. Each of `Requests`, `Calls`, `Codes`, `Drafts`, `PromptTokens`,
`MessageIds`, `LastTick` bounds something that the code does not; the theorems of
section 4 hold for any of them. Symmetry is over three pairs of model values,
which components that never share a behaviour have in common; the run checks no
liveness. Deadlock is not checked in this run: the clock ends, codes and tokens
are used up.

**Fairness** (`retry`, `edited`). `KeepsConfirming` states what the member and
the network do: the member's confirmation is received again and again, and no
crash or lost reply strikes the same step every time (strong fairness of
`Receive("text","confirm")`, `ConfirmStarted`, `CallSettle`, the execution of the
request the handler waits for, `TakeAnswer`, `Conclude`, and of a `Conclude` with
a conclusive answer). Strong fairness is needed because each of these steps is
disabled whenever the process dies, and is what "confirme novamente" asks of the
member. The handler itself and the database are only weakly fair: a handler that
can go on does, a request that stays does execute. Edits of recorded payments
end at some time. Nothing is assumed of a single attempt, nor of other actors.

**Fairness** (`reconfirm`, `stuck`). The same assumptions for purchases:
strong fairness of `Receive("text","confirm")`, of the steps that begin to serve
it (`RepairOnLoad`, `Prepare`, `ConfirmStarted`), `SaveSubmission` and
`CallCreate`, `FindCategory`, `CreateCategory`, the execution of the request the
handler waits for, and of `Conclude` with a saved purchase; weak fairness of the
handler and of the execution of requests. `CreateCategory` may be disabled for
want of a fresh category, but then a category of that name exists, since only
those are created in these runs, and the next lookup finds it.

## 4. Proofs

TLAPS proves the following for every value of the constants that satisfies the
modules' assumptions (absent values are distinct from present ones, months have
days, bounds are naturals; amounts of charges and payments, prices and counts of
parcels are positive, as the tables' check constraints require; a day has ticks).

| Theorem | Statement |
|---|---|
| `CardBillPayment_proofs!InvariantHolds` | `Spec => []IInv` |
| `TypeCorrect`, `PaidOnce`, `EditableUnpaid`, `ReleasedUnpaid`, `Recoverable` | `Spec => []` of `TypeOK`, `OnePaymentPerDraft`, `EditableMeansUnpaid`, `ReleasedStaysUnpaid`, `WritesAreRecoverable` |
| `ReportsTrue` | `Spec => ReportsOnlyRecorded` (an action property) |
| `OnlyAnotherMemberEndsIt` | a started draft is kept until it is reported paid or shown unpaid, or a text of a member who did not create it arrives, for any number of members |
| `RetainedForOne` | `Spec => UncertaintyRetained`, where there are no two members |
| `PromiseKept` | `Spec => KeepsPromise`: every step is a pay, an undo, a release or a stutter of `PaymentPromise` |
| `InstallmentPurchase_proofs!PurchaseInvariant` | `Spec => []IInv` |
| `PurchaseTypeCorrect`, `SavedOnce`, `EditableUnsaved`, `ReleasedUnsaved`, `SchedulePinned` | `Spec => []` of `TypeOK`, `OneGroupPerDraft`, `EditableMeansUnsaved`, `ReleasedStaysUnsaved`, `ScheduleIsPinned` |
| `SavedTrue` | `Spec => SavedIsSaved` (an action property) |
| `PurchasePromiseKept` | `Spec => PurchaseKeepsPromise` |
| `CardFatura_proofs!FaturaTypeCorrect` | `Spec => []TypeOK` |
| `Frozen`, `NotSkipped`, `KeepsMonth` | `Spec => ClosedStaysFrozen`, `NoFaturaSkipped`, `CorrectionKeepsMonth` |
| `ParcelsFollowCharges` | `Spec => []FirstParcelLandsWithCharge`: the SQL and the TypeScript rule agree |
| `OwedIsPending`, `StaysPaid` | `Spec => []PendingIsOwed`, `Spec => PaidStaysPaid`: sums over charges, parcels and payments. `PendingIsOwed` is about the fatura before the open one |
| `ParcelsAddUp` | what the faturas bill of a purchase in parcels is its price, to the cent |
| `StatusSaysWhatIsDue` | the status of a closed fatura is a pending one exactly when less is paid than its total |
| `ObligationPayments_proofs!TypeCorrect` | `ObligationSpec => [](ObligationTypeOK /\ Shape)` |
| `WindowsAgree` | the two calendars accept the same months of a template, for all years and terms |
| `PaidOnce`, `DueIsPayable`, `TotalIsComplete`, `ReplyIsTrue` | `[]` of `OccurrencePaidOnce`, `ProjectedIsPayable`, `NothingDropsOut`, `ReplyNamesWhatIsPaid` |
| `ImportConfirmation_proofs!ImportTyped`, `ImportClaimed` | `[]ImportTypeOK`; whatever was imported or kept has its claim |
| `ImportedOnce`, `PurchaseIsKept`, `ConfirmedIsChosen` | `[]` of `LineImportedOnce`, `LineKeepsItsPurchase`, `ConfirmedIsWhatWasChosen` |
| `PurchaseKeepsNames`, `ReplacedFaithfully` | `PurchaseKeepsItsNames` (an invariant and an action property), `ReplacementIsFaithful` (an action property) |
| `Household_proofs!MembersTyped`, `InvitedBecomesMember`, `LinksAreWanted` | `[]` of `MemberTypeOK`, `InvitedIsMember`, `LinkIsWanted` |
| `RequestServedOnce` | `[]ServedOnce`, for any window, clock and delay within the assumptions |
| `BudgetTypeCorrect`, `PaidWithinTheLimits` | `[]` of `BudgetTypeOK`, `PaidWithinLimits`, for any limits, sizes and number of requests (a preview reserved on two days, around midnight, is the property's exception) |
| `EachComponentIsItsOwn`, `HouseholdTyped` | a behaviour of the composition is one of each of the five components; `Spec => []HouseholdTypeOK` |
| `BotPrompts_proofs!PromptTyped`, `ConfirmedIsRecorded`, `RecordedOncePerLoss`, `ButtonsStayUsable` | `[]` of `PromptTypeOK`, `RecordedAsConfirmed`, `RecordedOnce`, `PromptStaysUsable` |

**The invariant of CardBillPayment.** `OnePaymentPerDraft` is not inductive: a
request in flight for another key of the same draft, or a row and a request with
one key but different drafts, would break it in one step. `IInv` rules these out:

- `KeyNamesDraft`: among rows, requests, conversation, handler and form a draft
  has one key and a key one draft; neither is reused (keys are drawn fresh).
- `RowPerKey`: the unique index. With `KeyNamesDraft` it gives one row per draft.
- `KeylessRows`, `KeylessDraft`: a keyless row blocks a key for its draft
  (reconciliation), and a keyless draft has sent nothing.
- `OpenDraft`: only the conversation's draft is open; a form's is `web`.
- `StartedCalls`, `NoFutureDates`: what is in flight for a started draft is that
  draft, was valid when sent, and can only become invalid for good (a card or
  account deleted; a payment date never gets into the future again).
- `TaskOnConv`: the handler works on the draft the conversation holds, because
  the chat's queue lets no other handler change it.
- `AnswerHolds`: what the handler has learnt and not yet saved is true and stays
  true. "Nothing was written" stays true because the RPC looks up the key before
  it validates, so a definitive refusal proves that no row has the key, and every
  other request of the key is `Dead` for the same reason.
- `EditableMeansUnpaid`, `ReleasedStaysUnpaid`: the two properties themselves.

The proof shows that `Init` implies `IInv` and has one lemma per action, each split
by the parts that the action can disturb; shared facts (what `Holds` becomes
under each action, that a finite choice is a member of its set) are lemmas.
`WritesAreRecoverable` and `OnePaymentPerDraft` follow from `IInv` in each state,
`ReportsOnlyRecorded` and the refinement from `IInv` at each step.

A started draft ends in three ways, and `OnlyAnotherMemberEndsIt` shows that there
is no other: `TaskOnConv` says that a handler past its first step works on the
conversation as it is, so `Conclude` can only end it as paid or reopen it as it
was; before that, every action that would replace, expire, cancel or correct
requires a draft that is not started, but for the text path, which only asks
whose draft it is (finding 2). With one member it is the sender's, whence
`RetainedForOne`: the case the run `bot` checks. With two the conclusion is false
(run `overwritten`), so the hypothesis cannot be dropped.

**The invariant of InstallmentPurchase.** `ScheduleIsPinned` is not inductive: a
draft whose month is not kept, or a request sent before the draft was saved,
breaks it a retry later. `IInv` adds:

- `KeysAreFresh`: nothing is known of a key before a draft is given it, and the
  open key is the one the conversation holds. So what is saved or in flight for
  another key can no longer be added to by a handler.
- `DraftFitsStatus`: an editable draft has no month, a submitted one is complete,
  one in recovery has no key (which is why giving it up releases nothing).
- `SubmittedAsHeld`: whatever was saved or sent for the submitted draft is what
  the draft says; while its month is missing nothing was sent. This is the
  invariant form of "the draft is saved before the request".
- `TaskHoldsConv`: a handler works on the conversation's draft, except for the
  month it is about to pin and the category it has found; if a purchase exists
  under the key, the month it is about to pin is that purchase's.
- `AnswerIsOwn`: the request waited for is of the handler's draft, and a success
  it was told of is a group with the draft's parcels. This stays true because no
  action of the web removes a group or changes more of it than its category and
  description.

The proof goes by conjunct: each part of `IInv` has one lemma over all actions
(`OneGroupNext`, `FreshNext`, `EditableNext`, ...), and each groups the actions by
what they do to its variables. `SameSchedule` leaves out the category and
the description, all that may change of a saved group (`RegroupedOne`, `MergeShape`).

**The proofs of CardFatura.** `TypeOK` includes the two check constraints and the
uniqueness of charge ids, which the action properties need: they compare a charge
with its earlier self. Each action property is shown of every action: only
`AddCharge` and `UpdateCharge` change `charges` by adding, and `Attributed` gives
the first open month. For `ParcelsFollowCharges` the argument is that the extra
month of the TypeScript rule is one the SQL search skips: a purchase after the
closing day in a month that is not reopened is made after that month closed, so
month 1 of the search is closed and both searches continue from the same month.

`PendingIsOwed` and `PaidStaysPaid` compare sums. `MoneyInv` adds to `TypeOK` that
the three tables are finite (each step adds one row) and that a corrected total,
in its row or on its way from a form, is an amount, so that totals are naturals and
`StatusSaysWhatIsDue` applies. For `PaidStaysPaid` the argument is monotonicity: in
a step that is none of the exceptions the fatura stays closed (`StaysClosed`), what
was charged to it grows by nothing (`ChargedNoMore`: by `FrozenStep` no manual
charge enters, a charge keeps its amount, at most some leave), and what was paid
does not shrink (`PaidNoLess`). `ParcelsAddUp` is by induction on the number
of months billed: after k of them, k times the quotient and the cents of the
remainder handed out so far.

**Sums.** Totals are `SumFunctionOnSet`, of the community modules, a recursive
function that `CHOOSE` picks. `Sums` proves what is needed of it: that such a
function exists, that it does not depend on the set it is defined on, and then how
the sum changes when an element is taken out, put in, replaced or made smaller.
The library's induction theorems take an operator; here induction is put as
membership (`AllNaturals`, `AllSubsets`: a set of naturals, or of subsets of
a finite set, that has whatever all smaller ones entail, has all), which the
provers can instantiate.

**The proofs of ObligationPayments.** `OccurrencePaidOnce` is inductive, thanks to
the unique index. The others need what is remembered: `InWindow` (what a call has
read, and what is paid, lies in the template's window, since start and term never
change), `ListedIsCurrent` (a listed amount is current until the template is
edited), `CallIsOurs` (the call waited for is about what the bot will name),
`DueStays` (what was due stays in its window and was read unless cancelled).
`WindowsAgree` rests on a lemma that `AddMonthsYm` adds to the index of a month.

**The proofs of ImportConfirmation.** `ImportedIsClaimed` makes `LineImportedOnce` inductive:
an artifact is made only with a claim, and claims are unique. `LocksHold` says that
the originals a call has locked are still as it read them and that no other call
holds them, which is what makes the replacement faithful at its commit.
`NamesHold` adds to `BatchGaveTheName` what calls know: of a purchase made by an
import they were shown its bank name or, before it was there, none; of one made by
hand they were shown `OwnName` exactly if it is still shown (`OwnNameStays`). So a
label however old restores what is shown. Once attributed, a purchase keeps batch
and bank name, and a batch that is recorded never changes (`GaveStep`), which needs
that a request key is not reused.

**The proofs of MemberLinking.** `OneReader` (of the transactions about one e-mail
only one is past the lock), `ReadStillHolds` (so that what it read is still so when
it commits), `OneRedeem` (a redemption has the code's row to itself) and
`CodesAreFresh` (a code that can be used was asked for since the last unlink, and
has linked nobody).

**The proofs of SuggestionBudget.** `NonceOutlives`: the nonce of a request that was
served expires only when no check of that request can still be about to claim
one. This uses `StampsAreNear` and `ChecksAreRecent`, and the two assumptions on
`KeepFor`, `Window`, `Skew` and `ClaimDelay`; without the second it is false.

`PaidWithinLimits` follows from `BudgetInv`: what is bought is at most what the
request's row allows (`BoughtInv`); a day's counter is the sum of the rows of that
day and within its limit (`DayInv`); a day has one transaction past its lock,
and what that one has read of its preview is no less than what the preview got on
that day (`LockInv`); so a preview is
within its limit unless it has rows of two days (`PreviewInv`). `RowsInv` is
bookkeeping: a request has one transaction at a time and one row, and the rows are
finitely many.

**The composition.** `household` interleaves nothing: a behaviour is one of one
component. `EachComponentSteps` shows it of each step, since the parts only narrow
what a component may do, so every theorem above about a component is one about the
behaviours of `MCHousehold` too; `HouseholdTyped` is the case of the types.

**The invariant of BotPrompts.** A stored conversation and the state its handler is
about to save obey the same parts:

- `Sound`: what each status implies of draft, content, creator and message id.
- `Bound`: every message with the conversation's token, and the one whose id it
  remembers, was sent to its owner, is not another than the one remembered, and
  if it is a summary says what the draft says (`Fits`).
- `Apart`: messages have ids and tokens of their own; `NewButtons`: those about to
  be sent have a token no conversation and no message has; `Pressed`: a tap is on a
  message that was sent.
- `Carried`: between the two saves only the message id differs.
- `Recording`: a confirmation was given by the creator on what the draft says.
- `OwnDrafts`, `Counted`: a draft is in one conversation, and one that can
  still be confirmed was recorded only by handlers that were lost.

`Takes` and `Leaves` say what a handler may start with, so that each action of
the dialogue is a few lines: it shows that its state `Leaves` well, and `Replies`
and `Begins` do the rest. `AcceptedSaid` is the heart: the checks of a tap, with
`Bound`, `Apart` and `Pressed`, imply that the pressed message said what the
draft says.

## 5. Disagreements found

1. `edited`: the bot promises "confirme novamente para concluir sem duplicar"
   (`apps/bot/src/conversation.ts:4546`). If the recorded payment's amount or date
   is edited on the web before its reply reaches the bot, every retry fails
   with "key reused with different payload" and the draft can be neither
   concluded, edited, cancelled nor replaced by its owner.
2. `overwritten`: `store.ts:12-14` says that card-bill uncertainty is retained
   until reconciled. The text path replaces a started draft whose creator is
   not the sender (`index.ts:1074-1084`), which happens after re-linking; the
   voice path has the check that the text path lacks.
3. `plan`: the specification freezes closed faturas and keeps a paid one paid
   (`thoughts/features/card-bill-payments/spec.md:27, 371`). `planWithOpenFaturas`
   keeps only the first parcel out of a closed fatura; a later parcel can fall
   into one that was closed early and paid.
4. `stale`: "Submitting the unchanged value stores no override"
   (`spec.md:246-247`, `bill-close-form.tsx:26-27`). The submitted value is
   compared with the sum at submission, not the one shown; if a charge was
   recorded in between, the old sum becomes a correction that hides it.
5. `stuck`: "confirme novamente para concluir sem duplicar" (`conversation.ts:4532`)
   and "Tente confirmar novamente" (`replies.ts:463`) are promised of a submitted
   purchase. If its card is deleted before it is saved (the run's behaviour), or
   its category is changed or merged, or a statement line linked to it, after it was
   saved and its reply lost, the RPC answers every retry with an error that the bot
   cannot tell from a lost reply, and the draft can be neither edited, cancelled
   nor replaced by a voice note.

Met while modelling and not run: in a reopened month a purchase at once is
billed to that month, the same in parcels starts the month after (the exception in
`FirstParcelLandsWithCharge`); `getCardFaturaPairs` fails for all cards if one
has 25 consecutive closed months. And, where no doc promises otherwise, or only the
wording of a reply is concerned:

*Obligations.* "Não consegui dar baixa" (`replies.ts:296`) is also said of a payment
that was committed when its answer was lost; the bot names the amount it listed
while the RPC records the template's current one (`conversation.ts:1862-1866`; the
exception in `ReplyNamesWhatIsPaid`). A draft of an obligation that is confirmed
again after a crash makes a second template (`conversation.ts:3800`). A payment
whose RPC read the template before a cancellation is recorded after it. A picker
answered in another month pays that month if no date was given
(`conversation.ts:1817`). `merge_category` leaves `obligations.category_id` alone.

*Import.* The design of lost responses
(`2026-07-09-import-reliability`, lines 299-301 and 662) has the retry return the
stored result; but the web compares the preview's rows with what is recorded before
it calls the RPC (`actions.ts:1440-1470, 1837-1845`), finds the rows it has just
imported, and asks for justifications. Giving them changes the fingerprint, which
the RPC then refuses. Nothing is counted twice. Not a run, because the check is a
warning that `ImportConfirmation` leaves out. `confirm_import_v2` refuses a link when
`installment_groups.updated_at` moved since the preview (`0027:491`), but nothing
changes that column, not even the link itself (`0027:533`). So of two reviewers
who name one purchase the last to commit wins, also with the name the page
prefilled; and a name given by hand that is also a bank's is lost when the
statement of that bank, whose page sends no label for it, commits after another
statement has linked the purchase (the exception in `PurchaseKeepsItsNames`).

*Ordinary entries.* Between `createTransaction` and the save of the conversation a
crash, or a failing `logInteraction`, leaves the draft confirmable, and confirming
it again records it again: there is no key. The comment "Persist FIRST"
(`index.ts`) speaks of sends only, and `RecordedOnce` counts these losses.

*Suggestions.* The limit of a preview can be passed when two of its reservations
fall on the two sides of midnight (the exception in `PaidWithinLimits`), and the
freshness of a signature is checked before an await of unbounded length.

## 6. What is only model-checked, and what is not modelled

- Liveness under fairness (`ConfirmAgainConcludes`, `ConfirmingConcludes`) is out of the prover's reach.
  They, and that the actions they assume fair are enabled when it matters, stay
  with the runs `retry` and `reconfirm`. Every other property of a passing run
  is stated by a theorem.
- `UncertaintyRetained` is checked and proved for one member only: with two it is
  false (finding 2), and `OnlyAnotherMemberEndsIt` says how.
- The disagreements of section 5 are counterexamples of one instance each.
- Abstracted in `CardBillPayment`: the wording of messages and how a text is
  understood (`Receive` chooses what is asked); the remaining amount a draft
  starts with (any amount); logging; one household. Membership changes are
  modelled from how the RPC and the webhook check them.
- Abstracted in `InstallmentPurchase`: the amounts (one value of what is bought is
  compared as a whole), subcategories, interaction logging (its failure after the
  RPC is `AnswerLost`), deletion of a saved group (the application has none).
- Abstracted in `ObligationPayments`: who asks, and with which account and
  category. In `ImportConfirmation`: sums of parcels, taxonomy, learning, typed names. In
  `SuggestionBudget`: what free providers resolve, batching, circuit breaking. In
  `BotPrompts`: what a content consists of, the ranking of categories, wording, the
  other flows (which have modules of their own).
- Not modelled: text interpretation and intent routing, the four statement parsers,
  row identity and reconstruction of purchases, categorization, model providers
  and their evaluation, web capture. They are functions of unbounded text without
  state; what they decide enters the models as an arbitrary choice (what is
  asked, which line, which content), so that the properties hold whatever they
  answer. Nor the pages' layout, session and deployment code, operator scripts,
  and single-row updates of accounts and buckets, which no other step relies on.
- These make up most of the repository's lines: the models stand for about a tenth
  of the implementation, nearly all of what changes shared state in several steps.
  The remainder of the two largest files (`conversation.ts`,
  `financial-routing.ts`) is regular expressions, Portuguese replies and row
  mapping; more of `imports/actions.ts` is validation that precedes one RPC.
- Policies of row-level security are declarative; the repository proves them with
  its own `deploy/checks/rls-proof.mjs`.

## 7. Plan and status

| Part of the plan | Status |
|---|---|
| `CardBillPayment` with `PaymentPromise` | checked and proved |
| `CardFatura` | checked and proved, sums included |
| `InstallmentPurchase`, an instance of `PaymentPromise` without `Undo` | checked and proved |
| `ObligationPayments` | checked and proved |
| `ImportConfirmation` | checked and proved |
| `MemberLinking` (provisioning and Telegram links) | checked and proved |
| `SuggestionBudget` | checked and proved, the limits included |
| `BotPrompts` (ordinary entries) | checked and proved |
| Merging categories against every table that stores one | left: purchases have it (`Merge`); for obligations the code does nothing, and no text says what it should do |
| Pure algorithms (cents, ranking, deduplication keys) | month arithmetic and the division into parcels are there and proved (`WindowsAgree`, `ParcelsAddUp`); ranking and keys are left, functions of text that are unit-tested in the repository |
| Uncertain import answers (the web's warnings before the RPC) | left, see section 5 |
