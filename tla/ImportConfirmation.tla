------------------------ MODULE ImportConfirmation ------------------------
(***************************************************************************)
(* Confirming a reviewed bank statement.  A preview is signed with a       *)
(* request key; confirming it sends the reviewer's choice for every line   *)
(* to confirm_import_v2, or to confirm_import_with_replacements when a     *)
(* manual expense gives way to a purchase in parcels.  Each call is one    *)
(* database transaction: it fails without a trace or commits whole, but    *)
(* between the row locks it takes first and its commit others may commit.  *)
(*                                                                         *)
(* A line is its identity (source, version, fingerprint, occurrence).  The *)
(* warnings the web raises before the call (lines or purchases that look   *)
(* recorded already) ask the reviewer to decide and guard nothing, so that *)
(* any well-formed choice may arrive.  Accounts, taxonomy, parcels' sums   *)
(* and learning only decide whether a call is refused: RefuseCall.  Lines  *)
(* have different bank names, so that a line also stands for its name.     *)
(* Names that the reviewer types, or that a replaced expense lends, only   *)
(* put another label in the place of the one that is kept here.            *)
(***************************************************************************)
EXTENDS Integers, FiniteSets

CONSTANTS
  Flat,          \* lines that become one transaction
  Plans,         \* lines that are a parcel of a purchase
  Reviews,       \* request keys: one for each preview
  Calls,         \* names of RPC calls in flight, reused once they are gone
  Expenses,      \* manual expenses that a purchase may replace
  ByHand,        \* purchases in parcels recorded without an import
  Tokens,        \* override tokens
  Amounts, Categories,
  OwnName,       \* a name a member gave by hand and no bank uses
  NoToken, NoAmount, NoCategory, NoLine, NoExpense, NoPurchase, NoPayload, NoReview

Lines == Flat \cup Plans

ASSUME ImportAssumption ==
  /\ Flat \cap Plans = {}
  /\ NoToken \notin Tokens
  /\ NoAmount \notin Amounts /\ NoCategory \notin Categories
  /\ NoLine \notin Lines /\ OwnName \notin Lines \cup {NoLine}
  /\ NoReview \notin Reviews /\ NoExpense \notin Expenses
  /\ NoPurchase \notin ByHand \cup (Reviews \X Plans)
  /\ ByHand \cap (Reviews \X Plans) = {}

VARIABLES
  batches,    \* import_batches: the payload confirmed with a request key
  claims,     \* import_item_claims
  artifacts,  \* transactions and purchases made by imports
  audits,     \* import_rows of the lines that carry a purchase
  description, \* installment_groups: the name given by hand or by a bank
  label,      \* purchase_description: the name to show instead, if another
  batchOf,    \* import_batch_id: the batch that gave the bank's name
  expenses,   \* manual expenses
  replaced,   \* import_transaction_replacements
  inFlight,   \* RPC calls
  told        \* the last answer a reviewer got

purchaseNames == <<description, label, batchOf>>
importVars == <<batches, claims, artifacts, audits, purchaseNames, expenses,
                replaced, inFlight, told>>

------------------------------------------------------------------------
(* Records.                                                              *)

\* A purchase made by an import is named by its review and line.
Purchases == ByHand \cup (Reviews \X Plans)

Skip        == [what |-> "skip", token |-> NoToken, amount |-> NoAmount,
                replaces |-> NoExpense, keeps |-> NoPurchase]
New(k)      == [Skip EXCEPT !.what = "new", !.token = k]
Replace(e, k, v) == [New(k) EXCEPT !.replaces = e, !.amount = v]
Keep(g)     == [Skip EXCEPT !.what = "keep", !.keeps = g]

Tokened == Tokens \cup {NoToken}
FlatChoices == {Skip} \cup {New(k) : k \in Tokened}
PlanChoices == FlatChoices \cup {Keep(g) : g \in Purchases}
               \cup {Replace(e, k, v) : e \in Expenses, k \in Tokened, v \in Amounts}

Names == Lines \cup {OwnName, NoLine}

\* confirmImport: something is imported, nothing is replaced or kept twice.
Payloads ==
  {p \in [Lines -> PlanChoices] :
     /\ \A i \in Flat : p[i] \in FlatChoices
     /\ \E i \in Lines : p[i].what # "skip"
     /\ \A i, j \in Lines : i # j =>
          /\ p[i].replaces = NoExpense \/ p[i].replaces # p[j].replaces
          /\ p[i].keeps = NoPurchase \/ p[i].keeps # p[j].keeps}

ASSUME PayloadAssumption == NoPayload \notin Payloads

Claim == [line : Lines, token : Tokened, review : Reviews,
          purchase : Purchases \cup {NoPurchase}]
Artifact == [line : Lines, token : Tokened, review : Reviews,
             amount : Amounts \cup {NoAmount},
             category : Categories \cup {NoCategory},
             replaces : Expenses \cup {NoExpense}]
Expense == [amount : Amounts, category : Categories]
NoRecord == [amount |-> NoAmount, category |-> NoCategory]
Call == [name : Calls, review : Reviews, payload : Payloads,
         step : {"sent", "locked"},
         shown : [Purchases -> Names],
         seen : [Expenses -> Expense \cup {NoRecord}]]

Blank == [e \in Expenses |-> NoRecord]
Present(e) == expenses[e] # NoRecord
Replaces(p) == {e \in Expenses : \E i \in Lines : p[i].replaces = e}

\* The rows a call holds with "for update".
LockedBy(c) == IF c.step = "locked" THEN Replaces(c.payload) ELSE {}

\* Mutant: the originals are read without a lock.
Locked0 == {}
Locked == UNION {LockedBy(c) : c \in inFlight}

------------------------------------------------------------------------
(* The reviewer and the web.                                             *)

\* Mutant: the label a purchase has already is not looked at.
NameShown0(g) == description[g]

\* purchase_description ?? description
NameShown(g) == IF label[g] # NoLine THEN label[g] ELSE description[g]

\* confirmImport, again as often as the reviewer likes.  The names of the
\* purchases to keep are those the page showed.
Confirm(r, v, p) ==
  /\ \A c \in inFlight : c.name # r
  /\ inFlight' = inFlight \cup
       {[name |-> r, review |-> v, payload |-> p, step |-> "sent", seen |-> Blank,
         shown |-> [g \in Purchases |->
           IF \E i \in Lines : p[i].keeps = g THEN NameShown(g) ELSE NoLine]]}
  /\ UNCHANGED <<batches, claims, artifacts, audits, purchaseNames, expenses,
                 replaced, told>>

EditExpense(e, x) ==
  /\ Present(e) /\ e \notin Locked
  /\ expenses' = [expenses EXCEPT ![e] = x]
  /\ UNCHANGED <<batches, claims, artifacts, audits, purchaseNames, replaced,
                 inFlight, told>>

DeleteExpense(e) ==
  /\ Present(e) /\ e \notin Locked
  /\ expenses' = [expenses EXCEPT ![e] = NoRecord]
  /\ UNCHANGED <<batches, claims, artifacts, audits, purchaseNames, replaced,
                 inFlight, told>>

------------------------------------------------------------------------
(* confirm_import_with_replacements: the originals.                      *)

Answer(c, p) == told' = [told EXCEPT ![c.review] = p]
Finish(c)    == inFlight' = inFlight \ {c}

\* Any exception, a deadlock, a lost call.
RefuseCall(c) ==
  /\ c \in inFlight
  /\ Finish(c)
  /\ Answer(c, NoPayload)
  /\ UNCHANGED <<batches, claims, artifacts, audits, purchaseNames, expenses, replaced>>

\* Locks and checks: present, the same amount.  updated_at is compared too,
\* but nothing ever changes it.
LockOriginals(c) ==
  /\ c \in inFlight /\ c.step = "sent"
  /\ Replaces(c.payload) # {}
  /\ batches[c.review] = NoPayload
  /\ \A d \in inFlight \ {c} : d.step = "locked" => d.review # c.review
  /\ Replaces(c.payload) \cap Locked = {}
  /\ \A i \in Lines : LET e == c.payload[i].replaces IN
       e # NoExpense => Present(e) /\ expenses[e].amount = c.payload[i].amount
  /\ inFlight' = (inFlight \ {c}) \cup
       {[c EXCEPT !.step = "locked", !.seen = [e \in Expenses |->
           IF e \in Replaces(c.payload) THEN expenses[e] ELSE NoRecord]]}
  /\ UNCHANGED <<batches, claims, artifacts, audits, purchaseNames, expenses,
                 replaced, told>>

------------------------------------------------------------------------
(* confirm_import_v2.                                                    *)

Imports(p) == {i \in Lines : p[i].what # "skip"}

Natural(i)    == {k \in claims : k.line = i /\ k.token = NoToken}
WithToken(t)  == {k \in claims : k.token = t}

\* Mutant: only the claims of the same review conflict.
Conflicting0(c, i) ==
  {k \in Natural(i) \cup WithToken(c.payload[i].token) :
     k.review = c.review /\ k.token = c.payload[i].token}

\* insert into import_item_claims ... on conflict do nothing
Conflicting(c, i) == IF c.payload[i].token = NoToken
                     THEN Natural(i) ELSE WithToken(c.payload[i].token)

Made(c) == {i \in Imports(c.payload) :
              c.payload[i].what = "new" /\ Conflicting(c, i) = {}}
Kept(c) == {i \in Imports(c.payload) : c.payload[i].what = "keep"}

PurchaseOf(c, i) ==
  IF c.payload[i].what = "keep" THEN c.payload[i].keeps
  ELSE IF i \in Plans THEN <<c.review, i>> ELSE NoPurchase

PurchaseExists(g) == g \in ByHand \/
  \E a \in artifacts : a.line \in Plans /\ <<a.review, a.line>> = g

\* An override names the natural claim of its own line; a token is never
\* another line's; an original gives way only to what is really imported.
OverrideFits(c, i) ==
  c.payload[i].token # NoToken =>
    /\ Natural(i) # {}
    /\ \A k \in WithToken(c.payload[i].token) : k.line = i

\* Mutant: any purchase may be kept for the line.
KeepFits0(c, i) == PurchaseExists(c.payload[i].keeps)

KeepFits(c, i) == /\ PurchaseExists(c.payload[i].keeps)
                  /\ \A k \in Natural(i) : k.purchase = c.payload[i].keeps

Accepted(c) ==
  /\ \A i \in Imports(c.payload) : OverrideFits(c, i)
  /\ \A i \in Kept(c) : KeepFits(c, i)
  /\ \A i \in Lines : c.payload[i].replaces # NoExpense => i \in Made(c)
  /\ Replaces(c.payload) \cap replaced = {}
  /\ \A i, j \in Made(c) : i # j =>
       c.payload[i].token = NoToken \/ c.payload[i].token # c.payload[j].token

NewClaims(c) ==
  {[line |-> i, token |-> c.payload[i].token, review |-> c.review,
    purchase |-> PurchaseOf(c, i)] :
     i \in Made(c) \cup {j \in Kept(c) : Natural(j) = {}}}

\* Amount and category matter where an original is replaced; its category
\* is kept, whatever the reviewer saw.
NewArtifacts(c) ==
  {[line |-> i, token |-> c.payload[i].token, review |-> c.review,
    amount |-> c.payload[i].amount, replaces |-> c.payload[i].replaces,
    category |-> IF c.payload[i].replaces = NoExpense THEN NoCategory
                 ELSE c.seen[c.payload[i].replaces].category] : i \in Made(c)}

NewAudits(c) == {[line |-> i, purchase |-> c.payload[i].keeps] : i \in Kept(c)}

\* The lines by which the call makes or keeps a purchase.
LinesOf(c, g) == {i \in Made(c) \cup Kept(c) : PurchaseOf(c, i) = g}
CarriedBy(c) == {g \in Purchases : LinesOf(c, g) # {}}

\* "A later statement cannot rewrite an already-recorded bank name."
BankName(c, g) == IF batchOf[g] # NoReview THEN description[g]
                  ELSE CHOOSE i \in LinesOf(c, g) : TRUE

\* The web sends the name shown, unless it is the bank's on this statement;
\* the RPC drops it if it is the one recorded.
Label(c, g) == IF c.shown[g] \in LinesOf(c, g) \cup {BankName(c, g)}
               THEN NoLine ELSE c.shown[g]

NamePurchases(c) ==
  /\ description' = [g \in Purchases |->
       IF g \in CarriedBy(c) THEN BankName(c, g) ELSE description[g]]
  /\ label' = [g \in Purchases |->
       IF g \in CarriedBy(c) THEN Label(c, g) ELSE label[g]]
  /\ batchOf' = [g \in Purchases |->
       IF g \in CarriedBy(c) /\ batchOf[g] = NoReview THEN c.review ELSE batchOf[g]]

\* A batch without replacements goes straight here; one with them is locked.
Ready(c) == c.step = IF Replaces(c.payload) = {} THEN "sent" ELSE "locked"

CommitBatch(c) ==
  /\ c \in inFlight /\ Ready(c)
  /\ batches[c.review] = NoPayload
  /\ Accepted(c)
  /\ batches' = [batches EXCEPT ![c.review] = c.payload]
  /\ claims' = claims \cup NewClaims(c)
  /\ artifacts' = artifacts \cup NewArtifacts(c)
  /\ audits' = audits \cup NewAudits(c)
  /\ NamePurchases(c)
  /\ expenses' = [e \in Expenses |->
       IF e \in Replaces(c.payload) THEN NoRecord ELSE expenses[e]]
  /\ replaced' = replaced \cup Replaces(c.payload)
  /\ Finish(c)
  /\ Answer(c, c.payload)

\* Mutant: the request key alone decides.
SamePayload0(c) == TRUE

SamePayload(c) == batches[c.review] = c.payload

\* The key is taken: the first result, if the payload is the one confirmed.
ReplayBatch(c) ==
  /\ c \in inFlight
  /\ batches[c.review] # NoPayload /\ SamePayload(c)
  /\ Finish(c)
  /\ Answer(c, c.payload)
  /\ UNCHANGED <<batches, claims, artifacts, audits, purchaseNames, expenses, replaced>>

------------------------------------------------------------------------
ImportInit ==
  /\ batches = [v \in Reviews |-> NoPayload]
  /\ claims = {} /\ artifacts = {} /\ audits = {}
  /\ \E own \in [ByHand -> Plans \cup {OwnName}] :
       description = [g \in Purchases |-> IF g \in ByHand THEN own[g] ELSE NoLine]
  /\ label = [g \in Purchases |-> NoLine]
  /\ batchOf = [g \in Purchases |-> NoReview]
  /\ expenses \in [Expenses -> Expense]
  /\ replaced = {}
  /\ inFlight = {}
  /\ told = [v \in Reviews |-> NoPayload]

ConfirmOneOf(choices) ==
  \E r \in Calls, v \in Reviews, p \in choices : Confirm(r, v, p)

EditExpenses ==
  \E e \in Expenses : DeleteExpense(e) \/ \E x \in Expense : EditExpense(e, x)

RunCalls == \E c \in inFlight : \/ LockOriginals(c) \/ CommitBatch(c)
                               \/ ReplayBatch(c)   \/ RefuseCall(c)

ImportNext == ConfirmOneOf(Payloads) \/ EditExpenses \/ RunCalls

ImportSpec == ImportInit /\ [][ImportNext]_importVars

------------------------------------------------------------------------
(* Properties.                                                           *)

\* Every variable has its type.
ImportTypeOK ==
  /\ batches \in [Reviews -> Payloads \cup {NoPayload}]
  /\ claims \in SUBSET Claim
  /\ artifacts \in SUBSET Artifact
  /\ audits \in SUBSET [line : Plans, purchase : Purchases]
  /\ description \in [Purchases -> Names] /\ label \in [Purchases -> Names]
  /\ batchOf \in [Purchases -> Reviews \cup {NoReview}]
  /\ expenses \in [Expenses -> Expense \cup {NoRecord}]
  /\ replaced \in SUBSET Expenses
  /\ inFlight \in SUBSET Call
  /\ told \in [Reviews -> Payloads \cup {NoPayload}]

\* However many previews of overlapping statements are confirmed at once or
\* again, a line is imported once, and once more for each override of it.
LineImportedOnce ==
  \A a, b \in artifacts : (a.line = b.line /\ a.token = b.token) => a = b

\* Lines of later statements that a reviewer said belong to a purchase all
\* belong to the purchase the line's claim names.
LineKeepsItsPurchase ==
  \A u \in audits : \A k \in claims :
    (k.line = u.line /\ k.token = NoToken) => k.purchase = u.purchase

\* A manual expense that gives way to a purchase is replaced in one step by
\* one of its amount, with the category it had at that moment, whatever was
\* edited after the preview; its money is never counted twice or lost.
ReplacementIsFaithful ==
  [][\A e \in replaced' \ replaced :
       /\ Present(e) /\ expenses'[e] = NoRecord
       /\ \E a \in artifacts' \ artifacts :
            /\ a.replaces = e /\ a.amount = expenses[e].amount
            /\ a.category = expenses[e].category]_importVars

\* The batch a purchase is attributed to is recorded, and the purchase's bank
\* name is that of a line by which this very batch made or kept it.
BatchGaveTheName ==
  \A g \in Purchases : batchOf[g] # NoReview =>
    /\ batches[batchOf[g]] # NoPayload
    /\ description[g] \in Lines
    /\ \/ g = <<batchOf[g], description[g]>>
       \/ batches[batchOf[g]][description[g]].keeps = g

\* A name that must stay on the screen: the member's own, also when a bank
\* has named the purchase since, and that of a purchase made by an import.
NameIsSettled(g) ==
  NameShown(g) = OwnName \/ (g \notin ByHand /\ NameShown(g) # NoLine)

\* Statements that link one purchase, in any order and however long ago their
\* reviewers looked at it, neither mix the bank name of one with the batch of
\* another nor take away the name by which the household knows the purchase.
\* A name by hand that is also some bank's is not protected: the null sent
\* for it erases the label that another statement has made of it meanwhile.
PurchaseKeepsItsNames ==
  /\ []BatchGaveTheName
  /\ [][\A g \in Purchases : NameIsSettled(g) => NameShown(g)' = NameShown(g)]_importVars

\* A reviewer who is told "Importação confirmada" or "já confirmada" chose
\* what is recorded, also after choosing again with the same preview.
ConfirmedIsWhatWasChosen ==
  \A v \in Reviews : told[v] # NoPayload => told[v] = batches[v]
=============================================================================
