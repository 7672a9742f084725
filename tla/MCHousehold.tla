---------------------------- MODULE MCHousehold ----------------------------
(***************************************************************************)
(* Small instances of the five components of a household that share no     *)
(* state, side by side: the obligations, the import, the members, the      *)
(* suggestions and the bot's prompts.  A behaviour is one of one           *)
(* component, named by part, while the variables of the others keep their  *)
(* initial values; each component is explored in parts, so that what its   *)
(* properties are about happens within few states.                         *)
(***************************************************************************)
EXTENDS ObligationPayments, ImportConfirmation, MemberLinking, SuggestionBudget,
        BotPrompts, TLC

VARIABLE part

MCDueMonths == {[y |-> 2026, m |-> 12], [y |-> 2027, m |-> 1]}

\* The components being apart, household.cfg gives them the same model
\* values, which keeps the group small: three pairs.
Symmetry == Permutations(Values) \cup Permutations(Requests) \cup Permutations(Calls)

------------------------------------------------------------------------
(* The bot, the web and the RPC on an obligation due in one month, asked   *)
(* to be paid in it; then the web alone, with any window, any month and    *)
(* the dashboard.                                                          *)

DueOnce(t)    == t # NoTemplate => t.start.m = 12 /\ t.term = 1
IsDecember(x) == x.month # NoMonth => x.month.m = 12

BotStep  == /\ part = "bot"
            /\ ObligationBot \/ ObligationWeb \/ ObligationDatabase
            /\ \A o \in Obligations : DueOnce(templates'[o])
            /\ DueOnce(chat'.draft)
            /\ IsDecember(chat') /\ IsDecember(settling')
            /\ \A c \in requests' : IsDecember(c)
PageStep == /\ part = "page"
            /\ ObligationWeb \/ ObligationDashboard \/ ObligationDatabase

------------------------------------------------------------------------
(* Lines and their overrides; parcels of purchases; replaced expenses.     *)

OnlyPlans == {p \in Payloads : \A i \in Flat : p[i] = Skip}

LinePayloads ==
  {p \in Payloads : /\ \E i \in Plans : p[i] = Skip
                    /\ \A i \in Lines : p[i].what # "keep"
                    /\ Replaces(p) = {}}
PurchasePayloads == {p \in OnlyPlans : Replaces(p) = {}}
LinkPayloads ==
  {p \in OnlyPlans : \E i \in Plans : /\ p[i].keeps \in ByHand
                                     /\ \A j \in Plans \ {i} : p[j] = Skip}
ReplacePayloads ==
  {p \in OnlyPlans : \A i \in Lines : p[i].what # "keep" /\ p[i].token = NoToken}

LinesStep     == part = "lines" /\ inFlight = {} /\ ConfirmOneOf(LinePayloads)
PurchasesStep == /\ part = "purchases"
                 /\ \/ inFlight = {} /\ ConfirmOneOf(PurchasePayloads)
                    \/ /\ \A c \in inFlight : c.payload \in LinkPayloads
                       /\ ConfirmOneOf(LinkPayloads)
ExpensesStep  == part = "expenses" /\ (ConfirmOneOf(ReplacePayloads) \/ EditExpenses)
ServerStep    == part \in {"lines", "purchases", "expenses"} /\ RunCalls

------------------------------------------------------------------------
(* The members; two requests, late and repeated, while the clock runs; a   *)
(* burst of three around midnight, each taken once.                        *)

MemberStep == part = "members" /\ MemberNext

ClockStep == /\ part = "clock" /\ BudgetNext
             /\ Cardinality({a \in Attempts : sent'[a] # NotSent}) <= 2
             /\ Cardinality(jobs' \cup checking') <= 2 /\ reserving' = {}
BurstStep == /\ part = "burst"
             /\ ServeRequests({0}) \/ (Tick /\ now < 4)
             /\ \A a \in Attempts : sent'[a] # NotSent => sent'[a].stamp \in {3, 4}
             /\ Cardinality(checking') <= 1 /\ \A c \in checking' : served[c.attempt] = 0

------------------------------------------------------------------------
(* The prompts of one sender with one draft, whatever fails; two senders   *)
(* with drafts of their own; a sender whose account is linked anew while   *)
(* an update waits.  An update waits alone: a message keeps its buttons,   *)
(* so one that arrives later meets the same.  Ids of messages increase.    *)

Linked     == {s \in Senders : speaksFor[s] # Nobody}
FirstDraft == CHOOSE d \in Drafts : TRUE
OneDraft   == \A s \in Senders : chats[s].draft \in {FirstDraft, NoDraft}
Turns == /\ Cardinality(waiting') <= 1
         /\ (handling # Idle \/ waiting # {}) => waiting' \subseteq waiting
         /\ \A d \in Drafts : lost'[d] <= 1 /\ times'[d] <= 2
         /\ \A m \in prompts' \ prompts, n \in prompts : n.id < m.id
Fails == handling # Idle /\ handling.phase # "sent" /\ handling' = Idle
Plain == /\ \A u \in waiting' : u.kind # "voice" /\ u.ask.what \in {"set", "confirm"}
         /\ \A s \in Senders : chats'[s].status # "choosing"
         /\ ~Fails

SoloStep == /\ part = "solo" /\ PromptNext /\ Turns /\ OneDraft'
            /\ UNCHANGED speaksFor
PairStep == /\ part = "pair" /\ PromptNext /\ Turns /\ Plain
            /\ UNCHANGED speaksFor
LinkStep == /\ part = "link" /\ PromptNext /\ Turns /\ Plain /\ OneDraft'
            /\ speaksFor' # speaksFor => waiting # {} /\ Linked' = Linked

PromptStart ==
  /\ PromptInit /\ OneDraft
  /\ Cardinality(Linked) = CASE part = "pair" -> 2
                             [] part \in {"solo", "link"} -> 1
                             [] OTHER -> 0
  /\ \A m \in prompts : m.id = 1

------------------------------------------------------------------------
\* Only the part about expenses starts from every content of them, and the
\* one about purchases from every name given by hand.
Init ==
  /\ part \in {"bot", "page", "lines", "purchases", "expenses", "members",
               "clock", "burst", "solo", "pair", "link"}
  /\ ObligationInit /\ ImportInit /\ MemberInit /\ BudgetInit /\ PromptStart
  /\ part # "expenses" =>
       \A e \in Expenses : expenses[e] = CHOOSE x \in Expense : TRUE
  /\ part # "purchases" => \A g \in ByHand : description[g] = OwnName

Next ==
  \/ (BotStep \/ PageStep)
     /\ UNCHANGED <<part, importVars, memberVars, budgetVars, promptVars>>
  \/ (LinesStep \/ PurchasesStep \/ ExpensesStep \/ ServerStep)
     /\ UNCHANGED <<part, obligationVars, memberVars, budgetVars, promptVars>>
  \/ MemberStep /\ UNCHANGED <<part, obligationVars, importVars, budgetVars, promptVars>>
  \/ (ClockStep \/ BurstStep)
     /\ UNCHANGED <<part, obligationVars, importVars, memberVars, promptVars>>
  \/ (SoloStep \/ PairStep \/ LinkStep)
     /\ UNCHANGED <<part, obligationVars, importVars, memberVars, budgetVars>>

Spec ==
  /\ Init
  /\ [][Next]_<<part, obligationVars, importVars, memberVars, budgetVars, promptVars>>

\* Every variable of the five components has its type.
HouseholdTypeOK ==
  /\ ObligationTypeOK /\ ImportTypeOK /\ MemberTypeOK /\ BudgetTypeOK
  /\ PromptTypeOK
=============================================================================
