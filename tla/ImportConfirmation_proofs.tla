---------------------- MODULE ImportConfirmation_proofs ----------------------
(***************************************************************************)
(* Theorems about ImportConfirmation, for any lines, previews, calls in    *)
(* flight, expenses and override tokens.                                   *)
(***************************************************************************)
EXTENDS ImportConfirmation, TLAPS

(***************************************************************************)
(* The inductive invariants.                                               *)
(***************************************************************************)

\* What was imported has its claim, and a kept purchase its natural claim.
ImportedIsClaimed ==
  /\ \A a \in artifacts : \E k \in claims : k.line = a.line /\ k.token = a.token
  /\ \A u \in audits : \E k \in claims : k.line = u.line /\ k.token = NoToken

\* The originals a call holds are as it read them, of the amounts the
\* reviewer saw, and held by no other call.
LocksHold ==
  /\ \A c \in inFlight : c.step = "locked" =>
       \A i \in Lines : LET e == c.payload[i].replaces IN
         e # NoExpense => /\ Present(e) /\ c.seen[e] = expenses[e]
                          /\ expenses[e].amount = c.payload[i].amount
  /\ \A c, d \in inFlight : c # d => LockedBy(c) \cap LockedBy(d) = {}

\* The names of imported purchases are the bank's and known to every call that
\* keeps them; a call knows the member's own name of a purchase it keeps by
\* hand exactly if it is still shown.
NamesHold ==
  /\ BatchGaveTheName
  /\ \A g \in Purchases \ ByHand :
       /\ label[g] = NoLine
       /\ batchOf[g] = NoReview => description[g] = NoLine
       /\ \A c \in inFlight : c.shown[g] \in {NoLine, description[g]}
  /\ \A g \in ByHand : \A c \in inFlight :
       (\E i \in Lines : c.payload[i].keeps = g) =>
         (c.shown[g] = OwnName <=> NameShown(g) = OwnName)

------------------------------------------------------------------------
(* The reviewer's choices.                                               *)

Choice == [what : {"skip", "new", "keep"}, token : Tokened,
           amount : Amounts \cup {NoAmount}, replaces : Expenses \cup {NoExpense},
           keeps : Purchases \cup {NoPurchase}]

LEMMA SkipIsChoice ==
  /\ Skip \in Choice /\ Skip.what = "skip" /\ Skip.token = NoToken
  /\ Skip.replaces = NoExpense /\ Skip.keeps = NoPurchase
  BY DEF Skip, Choice, Tokened

LEMMA NewIsChoice ==
  ASSUME NEW k \in Tokened
  PROVE  /\ New(k) \in Choice /\ New(k).what = "new" /\ New(k).replaces = NoExpense
  BY SkipIsChoice DEF New, Choice

LEMMA KeepIsChoice ==
  ASSUME NEW g \in Purchases
  PROVE  /\ Keep(g) \in Choice /\ Keep(g).what = "keep" /\ Keep(g).token = NoToken
         /\ Keep(g).keeps \in Purchases /\ Keep(g).replaces = NoExpense
  BY SkipIsChoice DEF Keep, Choice

LEMMA ReplaceIsChoice ==
  ASSUME NEW e \in Expenses, NEW k \in Tokened, NEW v \in Amounts
  PROVE  Replace(e, k, v) \in Choice /\ Replace(e, k, v).what = "new"
<1> DEFINE n == New(k)
<1>1. n \in Choice /\ n.what = "new"
  BY NewIsChoice
<1>2. Replace(e, k, v) = [n EXCEPT !.replaces = e, !.amount = v]
  BY DEF Replace
<1> HIDE DEF n
<1> QED
  BY <1>1, <1>2 DEF Choice

\* What a well-formed payload holds for a line.
LEMMA PayloadLine ==
  ASSUME NEW p \in Payloads, NEW i \in Lines
  PROVE  /\ p[i] \in Choice
         /\ p[i].what = "keep" =>
              /\ p[i].token = NoToken /\ p[i].keeps \in Purchases
              /\ p[i].replaces = NoExpense /\ i \in Plans
         /\ p[i].replaces # NoExpense => p[i].replaces \in Expenses
<1>1. p[i] \in PlanChoices /\ (i \in Flat => p[i] \in FlatChoices)
  BY DEF Payloads
<1>2. CASE p[i] \in FlatChoices
  BY <1>2, SkipIsChoice, NewIsChoice DEF FlatChoices
<1>3. CASE p[i] \notin FlatChoices
  <2>1. i \in Plans
    BY <1>1, <1>3 DEF Lines
  <2>2. CASE \E g \in Purchases : p[i] = Keep(g)
    BY <2>1, <2>2, KeepIsChoice
  <2>3. CASE \E e \in Expenses, k \in Tokened, v \in Amounts : p[i] = Replace(e, k, v)
    <3>1. p[i] \in Choice /\ p[i].what = "new"
      BY <2>3, ReplaceIsChoice
    <3> QED
      BY <3>1 DEF Choice
  <2> QED
    BY <1>1, <1>3, <2>2, <2>3 DEF PlanChoices
<1> QED
  BY <1>2, <1>3

LEMMA CallIn ==
  ASSUME ImportTypeOK, NEW c \in inFlight
  PROVE  c \in Call /\ c.review \in Reviews /\ c.payload \in Payloads
  BY DEF ImportTypeOK, Call

LEMMA ReplacesIn ==
  ASSUME NEW p \in Payloads, NEW e
  PROVE  e \in Replaces(p) <=> e # NoExpense /\ \E i \in Lines : p[i].replaces = e
  BY PayloadLine, ImportAssumption DEF Replaces

------------------------------------------------------------------------
(* Types.                                                                *)

LEMMA NewClaimsType ==
  ASSUME ImportTypeOK, NEW c \in inFlight
  PROVE  NewClaims(c) \subseteq Claim
<1> SUFFICES ASSUME NEW i \in Made(c) \cup Kept(c)
             PROVE  [line |-> i, token |-> c.payload[i].token, review |-> c.review,
                     purchase |-> PurchaseOf(c, i)] \in Claim
  BY DEF NewClaims
<1>1. i \in Lines /\ c.payload[i] \in Choice
  BY CallIn, PayloadLine DEF Made, Kept, Imports
<1>2. PurchaseOf(c, i) \in Purchases \cup {NoPurchase}
  BY <1>1, CallIn, PayloadLine DEF PurchaseOf, Purchases
<1> QED
  BY <1>1, <1>2, CallIn DEF Claim, Choice

LEMMA NewArtifactsType ==
  ASSUME ImportTypeOK, NEW c \in inFlight
  PROVE  NewArtifacts(c) \subseteq Artifact
<1> SUFFICES ASSUME NEW i \in Made(c)
             PROVE  [line |-> i, token |-> c.payload[i].token, review |-> c.review,
                     amount |-> c.payload[i].amount, replaces |-> c.payload[i].replaces,
                     category |-> IF c.payload[i].replaces = NoExpense THEN NoCategory
                       ELSE c.seen[c.payload[i].replaces].category] \in Artifact
  BY DEF NewArtifacts
<1>1. i \in Lines /\ c.payload[i] \in Choice
  BY CallIn, PayloadLine DEF Made, Imports
<1>2. ASSUME NEW e \in Expenses
      PROVE  c.seen[e].category \in Categories \cup {NoCategory}
  <2>1. c.seen[e] \in Expense \cup {NoRecord}
    BY CallIn DEF Call
  <2> QED
    BY <2>1 DEF Expense, NoRecord
<1> QED
  BY <1>1, <1>2, CallIn DEF Artifact, Choice

\* A purchase that a call carries is named by one of the call's lines.
LEMMA NamingLine ==
  ASSUME NEW c, NEW g \in CarriedBy(c)
  PROVE  /\ (CHOOSE i \in LinesOf(c, g) : TRUE) \in LinesOf(c, g)
         /\ LinesOf(c, g) \subseteq Lines
  BY DEF CarriedBy, LinesOf, Made, Kept, Imports

LEMMA NamesType ==
  ASSUME ImportTypeOK, NEW c \in inFlight, NamePurchases(c)
  PROVE  /\ description' \in [Purchases -> Names] /\ label' \in [Purchases -> Names]
         /\ batchOf' \in [Purchases -> Reviews \cup {NoReview}]
<1>1. \A g \in Purchases : description[g] \in Names /\ label[g] \in Names
                           /\ batchOf[g] \in Reviews \cup {NoReview}
  BY DEF ImportTypeOK
<1>2. \A g \in CarriedBy(c) : BankName(c, g) \in Names
  BY <1>1, NamingLine DEF BankName, Names, CarriedBy
<1>3. \A g \in Purchases : c.shown[g] \in Names
  BY CallIn DEF Call
<1>4. \A g \in CarriedBy(c) : Label(c, g) \in Names
  BY <1>3 DEF Label, CarriedBy, Names
<1> QED
  BY <1>1, <1>2, <1>4, CallIn DEF NamePurchases

LEMMA CommitType ==
  ASSUME ImportTypeOK, NEW c \in inFlight, CommitBatch(c)
  PROVE  ImportTypeOK'
<1>1. batches' \in [Reviews -> Payloads \cup {NoPayload}]
      /\ told' \in [Reviews -> Payloads \cup {NoPayload}]
  BY CallIn DEF CommitBatch, Answer, ImportTypeOK
<1>2. claims' \in SUBSET Claim /\ artifacts' \in SUBSET Artifact
  BY NewClaimsType, NewArtifactsType DEF CommitBatch, ImportTypeOK
<1>3. audits' \in SUBSET [line : Plans, purchase : Purchases]
  <2>1. \A i \in Kept(c) : i \in Plans /\ c.payload[i].keeps \in Purchases
    BY CallIn, PayloadLine DEF Kept, Imports
  <2> QED
    BY <2>1 DEF CommitBatch, NewAudits, ImportTypeOK
<1>4. /\ description' \in [Purchases -> Names] /\ label' \in [Purchases -> Names]
      /\ batchOf' \in [Purchases -> Reviews \cup {NoReview}]
  BY NamesType DEF CommitBatch
<1>5. /\ expenses' \in [Expenses -> Expense \cup {NoRecord}]
      /\ replaced' \in SUBSET Expenses /\ inFlight' \in SUBSET Call
  BY DEF CommitBatch, Finish, Replaces, ImportTypeOK
<1> QED
  BY <1>1, <1>2, <1>3, <1>4, <1>5 DEF ImportTypeOK

LEMMA ImportTypeStep == ImportTypeOK /\ [ImportNext]_importVars => ImportTypeOK'
<1> SUFFICES ASSUME ImportTypeOK, [ImportNext]_importVars PROVE ImportTypeOK'
  OBVIOUS
<1>1. ASSUME NEW r \in Calls, NEW v \in Reviews, NEW p \in Payloads, Confirm(r, v, p)
      PROVE  ImportTypeOK'
  <2>1. Blank \in [Expenses -> Expense \cup {NoRecord}]
    BY DEF Blank
  <2> DEFINE s == [g \in Purchases |->
                     IF \E i \in Lines : p[i].keeps = g THEN NameShown(g) ELSE NoLine]
  <2>2. s \in [Purchases -> Names]
    BY DEF NameShown, Names, ImportTypeOK
  <2>3. inFlight' = inFlight \cup {[name |-> r, review |-> v, payload |-> p, step |-> "sent",
                                   seen |-> Blank, shown |-> s]}
    BY <1>1 DEF Confirm
  <2> HIDE DEF s
  <2>4. [name |-> r, review |-> v, payload |-> p, step |-> "sent",
         seen |-> Blank, shown |-> s] \in Call
    BY <2>1, <2>2 DEF Call
  <2> QED
    BY <1>1, <2>3, <2>4 DEF Confirm, ImportTypeOK, purchaseNames
<1>2. CASE EditExpenses
  BY <1>2 DEF EditExpenses, EditExpense, DeleteExpense, ImportTypeOK, purchaseNames
<1>3. ASSUME NEW c \in inFlight, LockOriginals(c)
      PROVE  ImportTypeOK'
  <2> DEFINE f == [e \in Expenses |->
                     IF e \in Replaces(c.payload) THEN expenses[e] ELSE NoRecord]
  <2>1. f \in [Expenses -> Expense \cup {NoRecord}]
    BY DEF ImportTypeOK
  <2>2. inFlight' = (inFlight \ {c}) \cup {[c EXCEPT !.step = "locked", !.seen = f]}
    BY <1>3 DEF LockOriginals
  <2> HIDE DEF f
  <2>3. [c EXCEPT !.step = "locked", !.seen = f] \in Call
    BY <2>1, CallIn DEF Call
  <2> QED
    BY <1>3, <2>2, <2>3 DEF LockOriginals, ImportTypeOK, purchaseNames
<1>4. ASSUME NEW c \in inFlight, CommitBatch(c)
      PROVE  ImportTypeOK'
  BY <1>4, CommitType
<1>5. ASSUME NEW c \in inFlight, ReplayBatch(c) \/ RefuseCall(c)
      PROVE  ImportTypeOK'
  BY <1>5, CallIn DEF ReplayBatch, RefuseCall, Finish, Answer, ImportTypeOK, purchaseNames
<1>6. CASE UNCHANGED importVars
  BY <1>6 DEF importVars, purchaseNames, ImportTypeOK
<1> QED
  BY <1>1, <1>2, <1>3, <1>4, <1>5, <1>6 DEF ImportNext, ConfirmOneOf, RunCalls

\* Every variable has its type.
THEOREM ImportTyped == ImportSpec => []ImportTypeOK
<1>1. ImportInit => ImportTypeOK
  BY DEF ImportInit, ImportTypeOK, Names, Lines
<1> QED
  BY <1>1, ImportTypeStep, PTL DEF ImportSpec

------------------------------------------------------------------------
(* Claims.                                                               *)

\* A step changes claims, artifacts and audits as CommitBatch does, or not.
LEMMA OnlyCommits ==
  ASSUME [ImportNext]_importVars
  PROVE  \/ UNCHANGED <<batches, claims, artifacts, audits, purchaseNames, replaced>>
         \/ \E c \in inFlight : CommitBatch(c)
  BY DEF ImportNext, ConfirmOneOf, EditExpenses, RunCalls, Confirm, EditExpense,
         DeleteExpense, LockOriginals, ReplayBatch, RefuseCall, importVars

\* What a call imports had no claim of that line and token.
LEMMA MadeIsUnclaimed ==
  ASSUME ImportTypeOK, NEW c \in inFlight, NEW i \in Made(c), NEW k \in claims,
         k.line = i, k.token = c.payload[i].token
  PROVE  FALSE
<1>1. Conflicting(c, i) = {}
  BY DEF Made
<1>2. CASE c.payload[i].token = NoToken
  BY <1>1, <1>2 DEF Conflicting, Natural
<1>3. CASE c.payload[i].token # NoToken
  BY <1>1, <1>3 DEF Conflicting, WithToken
<1> QED
  BY <1>2, <1>3

LEMMA ClaimOf ==
  ASSUME NEW c \in inFlight, NEW i \in Made(c) \cup {j \in Kept(c) : Natural(j) = {}}
  PROVE  \E k \in NewClaims(c) : k.line = i /\ k.token = c.payload[i].token
<1> DEFINE k == [line |-> i, token |-> c.payload[i].token, review |-> c.review,
                 purchase |-> PurchaseOf(c, i)]
<1>1. k \in NewClaims(c)
  BY DEF NewClaims
<1>2. k.line = i /\ k.token = c.payload[i].token
  OBVIOUS
<1> QED
  BY <1>1, <1>2

LEMMA ClaimedStep == ImportedIsClaimed /\ ImportTypeOK /\ [ImportNext]_importVars => ImportedIsClaimed'
<1> SUFFICES ASSUME ImportedIsClaimed, ImportTypeOK, [ImportNext]_importVars PROVE ImportedIsClaimed'
  OBVIOUS
<1>1. CASE UNCHANGED <<claims, artifacts, audits>>
  BY <1>1 DEF ImportedIsClaimed
<1>2. ASSUME NEW c \in inFlight, CommitBatch(c)
      PROVE  ImportedIsClaimed'
  <2>1. /\ claims' = claims \cup NewClaims(c)
        /\ artifacts' = artifacts \cup NewArtifacts(c)
        /\ audits' = audits \cup NewAudits(c)
    BY <1>2 DEF CommitBatch
  <2>2. ASSUME NEW a \in NewArtifacts(c)
        PROVE  \E k \in NewClaims(c) : k.line = a.line /\ k.token = a.token
    <3>1. PICK i \in Made(c) : a.line = i /\ a.token = c.payload[i].token
      BY DEF NewArtifacts
    <3> QED
      BY <3>1, ClaimOf
  <2>3. ASSUME NEW u \in NewAudits(c)
        PROVE  \E k \in claims' : k.line = u.line /\ k.token = NoToken
    <3>1. PICK i \in Kept(c) : u.line = i
      BY DEF NewAudits
    <3>2. c.payload[i].token = NoToken
      BY <3>1, CallIn, PayloadLine DEF Kept, Imports
    <3>3. CASE Natural(i) = {}
      BY <2>1, <3>1, <3>2, <3>3, ClaimOf
    <3>4. CASE Natural(i) # {}
      BY <2>1, <3>1, <3>4 DEF Natural
    <3> QED
      BY <3>3, <3>4
  <2> QED
    BY <2>1, <2>2, <2>3 DEF ImportedIsClaimed
<1> QED
  BY <1>1, <1>2, OnlyCommits

\* Whatever was made or kept for a line has the claim it was made under.
THEOREM ImportClaimed == ImportSpec => []ImportedIsClaimed
<1>1. ImportInit => ImportedIsClaimed
  BY DEF ImportInit, ImportedIsClaimed
<1> QED
  BY <1>1, ClaimedStep, ImportTyped, PTL DEF ImportSpec

LEMMA ImportedOnceStep ==
  LineImportedOnce /\ ImportedIsClaimed /\ ImportTypeOK /\ [ImportNext]_importVars
    => LineImportedOnce'
<1> SUFFICES ASSUME LineImportedOnce, ImportedIsClaimed, ImportTypeOK, [ImportNext]_importVars
             PROVE  LineImportedOnce'
  OBVIOUS
<1>1. CASE UNCHANGED artifacts
  BY <1>1 DEF LineImportedOnce
<1>2. ASSUME NEW c \in inFlight, CommitBatch(c)
      PROVE  LineImportedOnce'
  <2>1. artifacts' = artifacts \cup NewArtifacts(c)
    BY <1>2 DEF CommitBatch
  <2>2. ASSUME NEW a \in artifacts, NEW b \in NewArtifacts(c), a.line = b.line,
               a.token = b.token
        PROVE  FALSE
    <3>1. PICK k \in claims : k.line = a.line /\ k.token = a.token
      BY DEF ImportedIsClaimed
    <3>2. PICK i \in Made(c) : b.line = i /\ b.token = c.payload[i].token
      BY DEF NewArtifacts
    <3> QED
      BY <2>2, <3>1, <3>2, MadeIsUnclaimed
  <2>3. \A a, b \in NewArtifacts(c) : a.line = b.line => a = b
    BY DEF NewArtifacts
  <2> QED
    BY <2>1, <2>2, <2>3 DEF LineImportedOnce
<1> QED
  BY <1>1, <1>2, OnlyCommits

\* However many previews are confirmed at once or again, a line is imported
\* once, and once more for each override.
THEOREM ImportedOnce == ImportSpec => []LineImportedOnce
<1>1. ImportInit => LineImportedOnce
  BY DEF ImportInit, LineImportedOnce
<1> QED
  BY <1>1, ImportedOnceStep, ImportClaimed, ImportTyped, PTL DEF ImportSpec

LEMMA KeepStep ==
  LineKeepsItsPurchase /\ ImportedIsClaimed /\ ImportTypeOK /\ [ImportNext]_importVars
    => LineKeepsItsPurchase'
<1> SUFFICES ASSUME LineKeepsItsPurchase, ImportedIsClaimed, ImportTypeOK,
                    [ImportNext]_importVars
             PROVE  LineKeepsItsPurchase'
  OBVIOUS
<1>1. CASE UNCHANGED <<claims, audits>>
  BY <1>1 DEF LineKeepsItsPurchase
<1>2. ASSUME NEW c \in inFlight, CommitBatch(c)
      PROVE  LineKeepsItsPurchase'
  <2>1. /\ claims' = claims \cup NewClaims(c) /\ audits' = audits \cup NewAudits(c)
        /\ \A i \in Kept(c) : KeepFits(c, i)
    BY <1>2 DEF CommitBatch, Accepted
  <2>2. ASSUME NEW u \in audits, NEW k \in NewClaims(c), k.line = u.line,
               k.token = NoToken
        PROVE  FALSE
    <3>1. PICK n \in claims : n.line = u.line /\ n.token = NoToken
      BY DEF ImportedIsClaimed
    <3>2. PICK i \in Made(c) \cup {j \in Kept(c) : Natural(j) = {}} :
            k.line = i /\ k.token = c.payload[i].token
      BY DEF NewClaims
    <3>3. Natural(i) # {}
      BY <2>2, <3>1, <3>2 DEF Natural
    <3> QED
      BY <2>2, <3>1, <3>2, <3>3, MadeIsUnclaimed
  <2>3. ASSUME NEW u \in NewAudits(c), NEW k \in claims, k.line = u.line,
               k.token = NoToken
        PROVE  k.purchase = u.purchase
    <3>1. PICK i \in Kept(c) : u.line = i /\ u.purchase = c.payload[i].keeps
      BY DEF NewAudits
    <3> QED
      BY <2>1, <2>3, <3>1 DEF KeepFits, Natural
  <2>4. ASSUME NEW u \in NewAudits(c), NEW k \in NewClaims(c), k.line = u.line
        PROVE  k.purchase = u.purchase
    <3>1. PICK i \in Kept(c) : u.line = i /\ u.purchase = c.payload[i].keeps
      BY DEF NewAudits
    <3>2. k.purchase = PurchaseOf(c, i)
      BY <2>4, <3>1 DEF NewClaims
    <3> QED
      BY <3>1, <3>2 DEF PurchaseOf, Kept
  <2> QED
    BY <2>1, <2>2, <2>3, <2>4 DEF LineKeepsItsPurchase
<1> QED
  BY <1>1, <1>2, OnlyCommits

\* Lines said to belong to a purchase all belong to the one the claim names.
THEOREM PurchaseIsKept == ImportSpec => []LineKeepsItsPurchase
<1>1. ImportInit => LineKeepsItsPurchase
  BY DEF ImportInit, LineKeepsItsPurchase
<1> QED
  BY <1>1, KeepStep, ImportClaimed, ImportTyped, PTL DEF ImportSpec

\* Told "confirmada", a reviewer chose what is recorded.
THEOREM ConfirmedIsChosen == ImportSpec => []ConfirmedIsWhatWasChosen
<1>1. ImportInit => ConfirmedIsWhatWasChosen
  BY DEF ImportInit, ConfirmedIsWhatWasChosen
<1>2. ConfirmedIsWhatWasChosen /\ ImportTypeOK /\ [ImportNext]_importVars
        => ConfirmedIsWhatWasChosen'
  <2> SUFFICES ASSUME ConfirmedIsWhatWasChosen, ImportTypeOK, [ImportNext]_importVars
               PROVE  ConfirmedIsWhatWasChosen'
    OBVIOUS
  <2>1. CASE \E c \in inFlight : CommitBatch(c)
    BY <2>1, CallIn DEF CommitBatch, Answer, ConfirmedIsWhatWasChosen, ImportTypeOK
  <2>2. CASE \E c \in inFlight : ReplayBatch(c)
    BY <2>2, CallIn
    DEF ReplayBatch, SamePayload, Answer, ConfirmedIsWhatWasChosen, ImportTypeOK
  <2>3. CASE \E c \in inFlight : RefuseCall(c)
    BY <2>3, CallIn DEF RefuseCall, Answer, ConfirmedIsWhatWasChosen, ImportTypeOK
  <2>4. CASE UNCHANGED <<batches, told>>
    BY <2>4 DEF ConfirmedIsWhatWasChosen
  <2> QED
    BY <2>1, <2>2, <2>3, <2>4
    DEF ImportNext, ConfirmOneOf, EditExpenses, RunCalls, Confirm, EditExpense,
        DeleteExpense, LockOriginals, importVars
<1> QED
  BY <1>1, <1>2, ImportTyped, PTL DEF ImportSpec

------------------------------------------------------------------------
(* Replacements.                                                         *)

\* What LocksHold says of one call.
Holds(c) ==
  c.step = "locked" =>
    \A i \in Lines : LET e == c.payload[i].replaces IN
      e # NoExpense => /\ Present(e) /\ c.seen[e] = expenses[e]
                       /\ expenses[e].amount = c.payload[i].amount

\* A call whose originals are left alone holds them still.
LEMMA HoldsAfter ==
  ASSUME ImportTypeOK, NEW c \in inFlight, Holds(c),
         \A e \in LockedBy(c) : expenses'[e] = expenses[e]
  PROVE  Holds(c)'
<1> SUFFICES ASSUME c.step = "locked", NEW i \in Lines, c.payload[i].replaces # NoExpense
             PROVE  LET e == c.payload[i].replaces IN
                    /\ expenses'[e] # NoRecord /\ c.seen[e] = expenses'[e]
                    /\ expenses'[e].amount = c.payload[i].amount
  BY DEF Holds, Present
<1>1. c.payload[i].replaces \in LockedBy(c)
  BY CallIn, ReplacesIn DEF LockedBy
<1> QED
  BY <1>1 DEF Holds, Present

LEMMA LocksStep == LocksHold /\ ImportTypeOK /\ [ImportNext]_importVars => LocksHold'
<1> SUFFICES ASSUME LocksHold, ImportTypeOK, [ImportNext]_importVars PROVE LocksHold'
  OBVIOUS
<1>0. /\ \A c \in inFlight : Holds(c)
      /\ \A c, d \in inFlight : c # d => LockedBy(c) \cap LockedBy(d) = {}
  BY DEF LocksHold, Holds
<1>1. ASSUME NEW r \in Calls, NEW v \in Reviews, NEW p \in Payloads, Confirm(r, v, p)
      PROVE  LocksHold'
  <2>1. PICK d : d.step = "sent" /\ inFlight' = inFlight \cup {d} /\ UNCHANGED expenses
    BY <1>1 DEF Confirm
  <2>2. LockedBy(d) = {}
    BY <2>1 DEF LockedBy
  <2> QED
    BY <1>0, <2>1, <2>2 DEF LocksHold, Holds, Present
<1>2. CASE EditExpenses
  <2>1. PICK x \in Expenses : /\ x \notin Locked /\ UNCHANGED inFlight
                              /\ \A e \in Expenses \ {x} : expenses'[e] = expenses[e]
    BY <1>2 DEF EditExpenses, EditExpense, DeleteExpense, ImportTypeOK
  <2>2. \A c \in inFlight : \A e \in LockedBy(c) : expenses'[e] = expenses[e]
    BY <2>1 DEF Locked, LockedBy, Replaces
  <2>3. \A c \in inFlight : Holds(c)'
    BY <1>0, <2>2, HoldsAfter
  <2> QED
    BY <1>0, <2>1, <2>3 DEF LocksHold, Holds
<1>3. ASSUME NEW c \in inFlight, LockOriginals(c)
      PROVE  LocksHold'
  <2>0. PICK f : f = [e \in Expenses |->
                        IF e \in Replaces(c.payload) THEN expenses[e] ELSE NoRecord]
    OBVIOUS
  <2>1. PICK d : d = [c EXCEPT !.step = "locked", !.seen = f]
    OBVIOUS
  <2>2. /\ d.step = "locked" /\ d.seen = f /\ d.payload = c.payload
        /\ \A e \in Replaces(c.payload) : f[e] = expenses[e]
    BY <2>0, <2>1, CallIn DEF Call, Replaces
  <2>3. /\ inFlight' = (inFlight \ {c}) \cup {d} /\ UNCHANGED expenses
        /\ Replaces(c.payload) \cap Locked = {}
        /\ \A i \in Lines : LET e == c.payload[i].replaces IN
             e # NoExpense => Present(e) /\ expenses[e].amount = c.payload[i].amount
    BY <1>3, <2>0, <2>1 DEF LockOriginals
  <2>4. LockedBy(d) = Replaces(c.payload)
    BY <2>2 DEF LockedBy
  <2>5. \A x \in inFlight \ {c} : LockedBy(x) \cap LockedBy(d) = {}
    BY <2>3, <2>4 DEF Locked
  <2>6. Holds(d)'
    BY <2>2, <2>3, CallIn, ReplacesIn DEF Holds, Present
  <2>7. \A x \in inFlight : Holds(x)'
    BY <1>0, <2>3 DEF Holds, Present
  <2> QED
    BY <1>0, <2>3, <2>5, <2>6, <2>7 DEF LocksHold, Holds
<1>4. ASSUME NEW c \in inFlight, CommitBatch(c)
      PROVE  LocksHold'
  <2>1. inFlight' = inFlight \ {c}
    BY <1>4 DEF CommitBatch, Finish
  <2>2. \A e \in Expenses : e \notin LockedBy(c) => expenses'[e] = expenses[e]
    BY <1>4 DEF CommitBatch, Ready, LockedBy
  <2>3. \A d \in inFlight' : Holds(d)'
    <3> SUFFICES ASSUME NEW d \in inFlight, d # c
                 PROVE  Holds(d)'
      BY <2>1
    <3>1. \A e \in LockedBy(d) : e \in Expenses /\ e \notin LockedBy(c)
      BY <1>0 DEF LockedBy, Replaces
    <3> QED
      BY <1>0, <2>2, <3>1, HoldsAfter
  <2> QED
    BY <1>0, <2>1, <2>3 DEF LocksHold, Holds
<1>5. CASE inFlight' \subseteq inFlight /\ UNCHANGED expenses
  BY <1>0, <1>5 DEF LocksHold, Holds, Present
<1> QED
  BY <1>1, <1>2, <1>3, <1>4, <1>5
  DEF ImportNext, ConfirmOneOf, RunCalls, ReplayBatch, RefuseCall, Finish, importVars

\* A manual expense gives way in one step to a purchase of its amount and
\* with its category, whatever was edited after the preview.
THEOREM ReplacedFaithfully == ImportSpec => ReplacementIsFaithful
<1>1. ImportInit => LocksHold
  BY DEF ImportInit, LocksHold
<1>2. LocksHold /\ ImportedIsClaimed /\ ImportTypeOK /\ [ImportNext]_importVars
        => [\A e \in replaced' \ replaced :
              /\ Present(e) /\ expenses'[e] = NoRecord
              /\ \E a \in artifacts' \ artifacts :
                   /\ a.replaces = e /\ a.amount = expenses[e].amount
                   /\ a.category = expenses[e].category]_importVars
  <2> SUFFICES ASSUME LocksHold, ImportedIsClaimed, ImportTypeOK, [ImportNext]_importVars,
                      NEW e \in replaced' \ replaced
               PROVE  /\ Present(e) /\ expenses'[e] = NoRecord
                      /\ \E a \in artifacts' \ artifacts :
                           /\ a.replaces = e /\ a.amount = expenses[e].amount
                           /\ a.category = expenses[e].category
    OBVIOUS
  <2>1. PICK c \in inFlight : CommitBatch(c)
    BY OnlyCommits
  <2>2. e \in Replaces(c.payload) /\ e \in Expenses
    BY <2>1 DEF CommitBatch, Replaces
  <2>3. PICK i \in Lines : c.payload[i].replaces = e /\ e # NoExpense
    BY <2>2, CallIn, ReplacesIn
  <2>4. c.step = "locked" /\ i \in Made(c)
    BY <2>1, <2>2, <2>3 DEF CommitBatch, Ready, Accepted
  <2>5. Present(e) /\ c.seen[e] = expenses[e] /\ expenses[e].amount = c.payload[i].amount
    BY <2>3, <2>4 DEF LocksHold
  <2> DEFINE a == [line |-> i, token |-> c.payload[i].token, review |-> c.review,
                   amount |-> c.payload[i].amount, replaces |-> c.payload[i].replaces,
                   category |-> IF c.payload[i].replaces = NoExpense THEN NoCategory
                                ELSE c.seen[c.payload[i].replaces].category]
  <2>6. a \in artifacts'
    BY <2>1, <2>4 DEF CommitBatch, NewArtifacts
  <2>7. a \notin artifacts
    <3> SUFFICES ASSUME a \in artifacts PROVE FALSE
      OBVIOUS
    <3>1. PICK k \in claims : k.line = i /\ k.token = c.payload[i].token
      BY DEF ImportedIsClaimed
    <3> QED
      BY <2>4, <3>1, MadeIsUnclaimed
  <2>8. expenses'[e] = NoRecord
    BY <2>1, <2>2 DEF CommitBatch
  <2>9. a.replaces = e /\ a.amount = expenses[e].amount /\ a.category = expenses[e].category
    BY <2>3, <2>5
  <2> QED
    BY <2>5, <2>6, <2>7, <2>8, <2>9
<1> QED
  BY <1>1, <1>2, LocksStep, ImportClaimed, ImportTyped, PTL
  DEF ImportSpec, ReplacementIsFaithful

------------------------------------------------------------------------
(* Names.                                                                *)

\* Why a call carries a purchase along a line.
LEMMA CarriedBecause ==
  ASSUME ImportTypeOK, NEW c \in inFlight, NEW g \in Purchases, NEW i \in LinesOf(c, g)
  PROVE  /\ i \in Lines
         /\ g = <<c.review, i>> \/ c.payload[i].keeps = g
         /\ g \in ByHand => c.payload[i].keeps = g
<1>1. i \in Lines /\ PurchaseOf(c, i) = g
  BY DEF LinesOf, Made, Kept, Imports
<1>2. CASE c.payload[i].what = "keep"
  BY <1>1, <1>2 DEF PurchaseOf
<1>3. CASE c.payload[i].what # "keep"
  <2>1. g # NoPurchase
    BY ImportAssumption DEF Purchases
  <2>2. i \in Plans /\ g = <<c.review, i>>
    BY <1>1, <1>3, <2>1 DEF PurchaseOf
  <2>3. g \notin ByHand
    BY <2>2, CallIn, ImportAssumption
  <2> QED
    BY <1>1, <2>2, <2>3
<1> QED
  BY <1>2, <1>3

\* What a commit makes of the names of a purchase.
LEMMA NamedByCommit ==
  ASSUME ImportTypeOK, NEW c \in inFlight, CommitBatch(c), NEW g \in Purchases
  PROVE  /\ g \notin CarriedBy(c) => /\ description'[g] = description[g]
                                  /\ label'[g] = label[g] /\ batchOf'[g] = batchOf[g]
         /\ g \in CarriedBy(c) => /\ description'[g] = BankName(c, g)
                               /\ label'[g] = Label(c, g)
         /\ g \in CarriedBy(c) /\ batchOf[g] # NoReview => batchOf'[g] = batchOf[g]
         /\ g \in CarriedBy(c) /\ batchOf[g] = NoReview => batchOf'[g] = c.review
  BY DEF CommitBatch, NamePurchases

LEMMA GaveStep ==
  ASSUME BatchGaveTheName, ImportTypeOK, NEW c \in inFlight, CommitBatch(c)
  PROVE  BatchGaveTheName'
<1> SUFFICES ASSUME NEW g \in Purchases, batchOf'[g] # NoReview
             PROVE  /\ batches'[batchOf'[g]] # NoPayload
                    /\ description'[g] \in Lines
                    /\ \/ g = <<batchOf'[g], description'[g]>>
                       \/ batches'[batchOf'[g]][description'[g]].keeps = g
  BY DEF BatchGaveTheName
<1>1. /\ batches[c.review] = NoPayload /\ c.review \in Reviews
      /\ batches' = [batches EXCEPT ![c.review] = c.payload]
      /\ c.payload # NoPayload
  BY CallIn, PayloadAssumption DEF CommitBatch
<1>2. CASE batchOf[g] # NoReview
  <2>1. batchOf'[g] = batchOf[g] /\ description'[g] = description[g]
    BY <1>2, NamedByCommit DEF BankName
  <2>2. batchOf[g] # c.review /\ batchOf[g] \in Reviews
    BY <1>1, <1>2 DEF BatchGaveTheName, ImportTypeOK
  <2>3. batches'[batchOf[g]] = batches[batchOf[g]]
    BY <1>1, <2>2 DEF ImportTypeOK
  <2> QED
    BY <1>2, <2>1, <2>3 DEF BatchGaveTheName
<1>3. CASE batchOf[g] = NoReview
  <2>1. g \in CarriedBy(c) /\ batchOf'[g] = c.review
    BY <1>3, NamedByCommit
  <2>2. PICK i \in LinesOf(c, g) : description'[g] = i
    BY <1>3, <2>1, NamedByCommit, NamingLine DEF BankName
  <2>3. batches'[c.review] = c.payload
    BY <1>1 DEF ImportTypeOK
  <2> QED
    BY <1>1, <2>1, <2>2, <2>3, CarriedBecause
<1> QED
  BY <1>2, <1>3

\* A bank's name is never the member's own.
LEMMA BankNameIsLine ==
  ASSUME BatchGaveTheName, NEW c, NEW g \in CarriedBy(c)
  PROVE  BankName(c, g) \in Lines /\ BankName(c, g) # OwnName /\ BankName(c, g) # NoLine
         /\ OwnName \notin LinesOf(c, g)
<1>1. g \in Purchases
  BY DEF CarriedBy
<1> QED
  BY <1>1, NamingLine, ImportAssumption DEF BankName, BatchGaveTheName

\* A purchase by hand shows its own name after a commit exactly if before.
LEMMA OwnNameStays ==
  ASSUME NamesHold, ImportTypeOK, NEW c \in inFlight, CommitBatch(c), NEW g \in ByHand
  PROVE  NameShown(g)' = OwnName <=> NameShown(g) = OwnName
<1>1. g \in Purchases
  BY DEF Purchases
<1>2. CASE g \notin CarriedBy(c)
  BY <1>1, <1>2, NamedByCommit DEF NameShown
<1>3. CASE g \in CarriedBy(c)
  <2>1. \E i \in Lines : c.payload[i].keeps = g
    BY <1>1, <1>3, CarriedBecause DEF CarriedBy
  <2>2. c.shown[g] = OwnName <=> NameShown(g) = OwnName
    BY <2>1 DEF NamesHold
  <2>3. description'[g] = BankName(c, g) /\ label'[g] = Label(c, g)
    BY <1>1, <1>3, NamedByCommit
  <2>4. BankName(c, g) # OwnName /\ OwnName \notin LinesOf(c, g) /\ OwnName # NoLine
    BY <1>3, BankNameIsLine, ImportAssumption DEF NamesHold
  <2>5. Label(c, g) = OwnName <=> c.shown[g] = OwnName
    BY <2>4 DEF Label
  <2> QED
    BY <2>2, <2>3, <2>4, <2>5 DEF NameShown
<1> QED
  BY <1>2, <1>3

\* A purchase made by an import keeps its bank name and gets no label.
LEMMA ImportedNameStays ==
  ASSUME NamesHold, ImportTypeOK, NEW c \in inFlight, CommitBatch(c),
         NEW g \in Purchases \ ByHand
  PROVE  /\ label'[g] = NoLine
         /\ description[g] # NoLine => description'[g] = description[g]
         /\ batchOf'[g] = NoReview => description'[g] = NoLine
<1>1. /\ label[g] = NoLine /\ c.shown[g] \in {NoLine, description[g]}
      /\ batchOf[g] = NoReview => description[g] = NoLine
  BY DEF NamesHold
<1>2. CASE g \notin CarriedBy(c)
  BY <1>1, <1>2, NamedByCommit
<1>3. CASE g \in CarriedBy(c)
  <2>1. description'[g] = BankName(c, g) /\ label'[g] = Label(c, g) /\ batchOf'[g] # NoReview
    BY <1>3, NamedByCommit, CallIn, ImportAssumption
  <2>2. description[g] # NoLine => BankName(c, g) = description[g]
    BY <1>1 DEF BankName
  <2>3. Label(c, g) = NoLine
    BY <1>1, <2>2 DEF Label
  <2> QED
    BY <2>1, <2>2, <2>3
<1> QED
  BY <1>2, <1>3

LEMMA NamesStep == NamesHold /\ ImportTypeOK /\ [ImportNext]_importVars => NamesHold'
<1> SUFFICES ASSUME NamesHold, ImportTypeOK, [ImportNext]_importVars PROVE NamesHold'
  OBVIOUS
<1>1. ASSUME NEW r \in Calls, NEW v \in Reviews, NEW p \in Payloads, Confirm(r, v, p)
      PROVE  NamesHold'
  <2>0. PICK s : s = [g \in Purchases |->
                   IF \E i \in Lines : p[i].keeps = g THEN NameShown(g) ELSE NoLine]
    OBVIOUS
  <2>1. PICK d : /\ inFlight' = inFlight \cup {d}
                 /\ d.payload = p /\ d.shown = s
    <3>1. PICK d : d = [name |-> r, review |-> v, payload |-> p, step |-> "sent",
                        seen |-> Blank, shown |-> s]
      OBVIOUS
    <3>2. inFlight' = inFlight \cup {d}
      BY <1>1, <2>0, <3>1 DEF Confirm
    <3>3. d.payload = p /\ d.shown = s
      BY <3>1
    <3> QED
      BY <3>2, <3>3
  <2>2. UNCHANGED <<batches, description, label, batchOf>>
    BY <1>1 DEF Confirm, purchaseNames
  <2>3. \A g \in Purchases \ ByHand : d.shown[g] \in {NoLine, description[g]}
    BY <2>0, <2>1 DEF NamesHold, NameShown
  <2>4. \A g \in ByHand : (\E i \in Lines : d.payload[i].keeps = g) => d.shown[g] = NameShown(g)
    BY <2>0, <2>1 DEF Purchases
  <2> QED
    BY <2>1, <2>2, <2>3, <2>4 DEF NamesHold, BatchGaveTheName, NameShown
<1>2. ASSUME NEW c \in inFlight, LockOriginals(c)
      PROVE  NamesHold'
  <2>1. PICK d : /\ inFlight' = (inFlight \ {c}) \cup {d}
                 /\ d.payload = c.payload /\ d.shown = c.shown
    <3> DEFINE f == [e \in Expenses |->
                       IF e \in Replaces(c.payload) THEN expenses[e] ELSE NoRecord]
    <3>1. inFlight' = (inFlight \ {c}) \cup {[c EXCEPT !.step = "locked", !.seen = f]}
      BY <1>2 DEF LockOriginals
    <3> HIDE DEF f
    <3>2. /\ [c EXCEPT !.step = "locked", !.seen = f].payload = c.payload
          /\ [c EXCEPT !.step = "locked", !.seen = f].shown = c.shown
      BY CallIn DEF Call
    <3> QED
      BY <3>1, <3>2
  <2>2. UNCHANGED <<batches, description, label, batchOf>>
    BY <1>2 DEF LockOriginals, purchaseNames
  <2> QED
    BY <2>1, <2>2 DEF NamesHold, BatchGaveTheName, NameShown
<1>3. ASSUME NEW c \in inFlight, CommitBatch(c)
      PROVE  NamesHold'
  <2>1. inFlight' \subseteq inFlight
    BY <1>3 DEF CommitBatch, Finish
  <2>2. BatchGaveTheName'
    BY <1>3, GaveStep DEF NamesHold
  <2>3. ASSUME NEW g \in Purchases \ ByHand
        PROVE  /\ label'[g] = NoLine
               /\ batchOf'[g] = NoReview => description'[g] = NoLine
               /\ \A d \in inFlight' : d.shown[g] \in {NoLine, description'[g]}
    BY <1>3, <2>1, ImportedNameStays DEF NamesHold
  <2>4. ASSUME NEW g \in ByHand, NEW d \in inFlight',
               \E i \in Lines : d.payload[i].keeps = g
        PROVE  d.shown[g] = OwnName <=> NameShown(g)' = OwnName
    BY <1>3, <2>1, <2>4, OwnNameStays DEF NamesHold
  <2> QED
    BY <2>2, <2>3, <2>4 DEF NamesHold
<1>4. CASE inFlight' \subseteq inFlight /\ UNCHANGED <<batches, description, label, batchOf>>
  BY <1>4 DEF NamesHold, BatchGaveTheName, NameShown
<1> QED
  BY <1>1, <1>2, <1>3, <1>4
  DEF ImportNext, ConfirmOneOf, EditExpenses, EditExpense, DeleteExpense, RunCalls,
      ReplayBatch, RefuseCall, Finish, importVars, purchaseNames

\* Statements that link one purchase in any order keep the bank name with its
\* batch, and the name by which the household knows the purchase.
THEOREM PurchaseKeepsNames == ImportSpec => PurchaseKeepsItsNames
<1>1. ImportInit => NamesHold
  BY DEF ImportInit, NamesHold, BatchGaveTheName
<1>2. NamesHold /\ ImportTypeOK /\ [ImportNext]_importVars
        => [\A g \in Purchases : NameIsSettled(g) => NameShown(g)' = NameShown(g)]_importVars
  <2> SUFFICES ASSUME NamesHold, ImportTypeOK, [ImportNext]_importVars,
                      NEW g \in Purchases, NameIsSettled(g)
               PROVE  NameShown(g)' = NameShown(g)
    OBVIOUS
  <2>1. CASE UNCHANGED purchaseNames
    BY <2>1 DEF purchaseNames, NameShown
  <2>2. ASSUME NEW c \in inFlight, CommitBatch(c)
        PROVE  NameShown(g)' = NameShown(g)
    <3>1. CASE g \in ByHand
      BY <2>2, <3>1, OwnNameStays DEF NameIsSettled
    <3>2. CASE g \notin ByHand
      <4>1. label[g] = NoLine
        BY <3>2 DEF NamesHold
      <4>2. description[g] # NoLine
        BY <3>2, <4>1, ImportAssumption DEF NameIsSettled, NameShown
      <4> QED
        BY <2>2, <3>2, <4>1, <4>2, ImportedNameStays DEF NameShown
    <3> QED
      BY <3>1, <3>2
  <2> QED
    BY <2>1, <2>2, OnlyCommits
<1>3. NamesHold => BatchGaveTheName
  BY DEF NamesHold
<1> QED
  BY <1>1, <1>2, <1>3, NamesStep, ImportTyped, PTL DEF ImportSpec, PurchaseKeepsItsNames
=============================================================================
