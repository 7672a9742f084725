------------------------- MODULE SuggestionBudget -------------------------
(***************************************************************************)
(* Category suggestions for an import.  The web signs one request for each *)
(* chunk of a preview and gives up after a while; the bot may go on with   *)
(* it, and the network may deliver it again.  The bot takes a request once *)
(* (a nonce in the database), works on few at a time, and reserves what it *)
(* will pay a provider for under the limits of the day and the preview.    *)
(*                                                                         *)
(* reserve_import_ai_paid_items is one transaction: what it writes appears *)
(* when it commits, and it holds the day's row from LockDay to its commit. *)
(* Time is in ticks; the signer's clock is at most Skew away from the      *)
(* bot's, and the bot and its database share theirs.  A request's age is   *)
(* checked before the nonce is claimed, with an await in between: the      *)
(* claim is assumed to end within ClaimDelay, which the code leaves open.  *)
(***************************************************************************)
EXTENDS Integers, FiniteSets, Functions

CONSTANTS
  Attempts,      \* signed requests: a requestId and a nonce of their own
  Previews,      \* budget keys
  Sizes,         \* numbers of items a request still misses
  DayMax,        \* 25 items a day
  PreviewMax,    \* paidFallbackMaxItems
  MaxJobs,       \* 2 requests at a time
  Window,        \* 60 s: the age a signature may have
  KeepFor,       \* 120 s: how long its nonce is kept
  Skew,          \* how far the clocks are apart
  ClaimDelay,    \* how long claiming a nonce may take
  DayLength, LastTick,   \* ticks in a day; the bound of the clock
  NoPreview

ASSUME BudgetAssumption ==
  /\ {DayMax, PreviewMax, Window, KeepFor, Skew, ClaimDelay} \subseteq Nat
  /\ Sizes \subseteq Nat
  /\ DayLength \in Nat \ {0} /\ LastTick \in Nat
  /\ KeepFor >= 2 * Window /\ Skew + ClaimDelay < Window
  /\ NoPreview \notin Previews

VARIABLES
  now,
  sent,      \* the signed requests: stamp, preview and size
  checking,  \* requests found fresh whose nonce is not claimed yet
  nonces,    \* import_suggestion_nonces: when each expires, 0 when absent
  jobs,      \* requests the bot is working on
  reserving, \* reserve_import_ai_paid_items transactions
  usage,     \* import_ai_usage
  daily,     \* import_ai_daily_usage
  served,    \* history: how often each request was accepted
  bought     \* history: items paid for, by request

budgetVars == <<now, sent, checking, nonces, jobs, reserving, usage, daily,
                served, bought>>

DayOf(t)  == t \div DayLength
LastDay   == DayOf(LastTick)
NotSent   == [stamp |-> 0, preview |-> NoPreview, size |-> 0]
NoUsage   == [preview |-> NoPreview, day |-> 0, items |-> 0]

------------------------------------------------------------------------
(* Signing, sending, accepting.                                          *)

Tick ==
  /\ now < LastTick
  /\ \A c \in checking : now < c.at + ClaimDelay
  /\ now' = now + 1
  /\ UNCHANGED <<sent, checking, nonces, jobs, reserving, usage, daily, served, bought>>

\* requestImportSuggestions: the request may arrive late, twice, or never.
SignRequest(a, b, n, skew) ==
  /\ sent[a] = NotSent
  /\ sent' = [sent EXCEPT ![a] = [stamp |-> now + skew, preview |-> b, size |-> n]]
  /\ UNCHANGED <<now, checking, nonces, jobs, reserving, usage, daily, served, bought>>

Fresh(a) == /\ sent[a] # NotSent
            /\ now - sent[a].stamp <= Window
            /\ sent[a].stamp - now <= Window

\* verifySignedRequest: the age of the signature, against one clock reading.
CheckAge(a) ==
  /\ Fresh(a)
  /\ checking' = checking \cup {[attempt |-> a, at |-> now]}
  /\ UNCHANGED <<now, sent, nonces, jobs, reserving, usage, daily, served, bought>>

\* Mutant: the nonce is kept as long as a signature made now.
ExpiryShort(c) == c.at + Window

Expiry(c) == c.at + KeepFor

\* What a claim leaves of the nonces: it deletes all that have expired.
Claimed(c) == [x \in Attempts |->
                 IF x = c.attempt THEN Expiry(c)
                 ELSE IF nonces[x] <= now THEN 0 ELSE nonces[x]]

\* claim_import_suggestion_nonce inserts the nonce; the request is then
\* handled, or refused as the bot is saturated.  Another delivery of it
\* checked in the same tick may be left.
ClaimNonce(c) ==
  /\ c \in checking
  /\ nonces[c.attempt] <= now /\ now < Expiry(c)
  /\ checking' \in {checking, checking \ {c}}
  /\ nonces' = Claimed(c)
  /\ served' = [served EXCEPT ![c.attempt] = @ + 1]
  /\ jobs' = IF Cardinality(jobs) < MaxJobs
             THEN jobs \cup {[attempt |-> c.attempt, step |-> "new", allowed |-> 0]}
             ELSE jobs
  /\ UNCHANGED <<now, sent, reserving, usage, daily, bought>>

\* The nonce is known, the claim fails, or the process dies.
DropCheck(c) ==
  /\ checking' = checking \ {c}
  /\ UNCHANGED <<now, sent, nonces, jobs, reserving, usage, daily, served, bought>>

\* The process dies, or the free providers resolve everything.
EndJob(j) ==
  /\ j \in jobs
  /\ jobs' = jobs \ {j}
  /\ UNCHANGED <<now, sent, checking, nonces, reserving, usage, daily, served, bought>>

------------------------------------------------------------------------
(* reserve_import_ai_paid_items.                                         *)

Smaller(m, n) == IF m < n THEN m ELSE n
Left(limit, n) == IF n < limit THEN limit - n ELSE 0

Items == [a \in Attempts |-> usage[a].items]

ReservedFor(b, x) ==
  SumFunctionOnSet(Items, {a \in Attempts : usage[a].preview = b /\ a # x})

\* The usage row of the attempt; one that has a row gets nothing (EndJob).
BeginReservation(j) ==
  /\ j \in jobs /\ j.step = "new"
  /\ \A r \in reserving : r.attempt # j.attempt
  /\ usage[j.attempt] = NoUsage
  /\ reserving' = reserving \cup
       {[attempt |-> j.attempt, day |-> DayOf(now), step |-> "begun",
         daily |-> 0, preview |-> 0]}
  /\ jobs' = (jobs \ {j}) \cup {[j EXCEPT !.step = "asking"]}
  /\ UNCHANGED <<now, sent, checking, nonces, usage, daily, served, bought>>

\* Mutant: the day's row is read without "for update".
DayLocked0(d) == FALSE

DayLocked(d) == \E r \in reserving : r.day = d /\ r.step = "locked"

LockDay(r) ==
  /\ r \in reserving /\ r.step = "begun"
  /\ ~DayLocked(r.day)
  /\ reserving' = (reserving \ {r}) \cup
       {[r EXCEPT !.step = "locked", !.daily = daily[r.day],
                  !.preview = ReservedFor(sent[r.attempt].preview, r.attempt)]}
  /\ UNCHANGED <<now, sent, checking, nonces, jobs, usage, daily, served, bought>>

\* Never more than the bot asked for: the size, and its own limit.
Allowed(r) == Smaller(Smaller(sent[r.attempt].size, PreviewMax),
                      Smaller(Left(PreviewMax, r.preview), Left(DayMax, r.daily)))

Answered(r) ==
  {IF j.attempt = r.attempt /\ j.step = "asking"
   THEN [j EXCEPT !.step = "allowed", !.allowed = Allowed(r)] ELSE j : j \in jobs}

\* The day's row checks that it stays within 25.
CommitReservation(r) ==
  /\ r \in reserving /\ r.step = "locked"
  /\ daily[r.day] + Allowed(r) <= DayMax
  /\ reserving' = reserving \ {r}
  /\ daily' = [daily EXCEPT ![r.day] = @ + Allowed(r)]
  /\ usage' = [usage EXCEPT ![r.attempt] =
       [preview |-> sent[r.attempt].preview, day |-> r.day, items |-> Allowed(r)]]
  /\ jobs' = Answered(r)
  /\ UNCHANGED <<now, sent, checking, nonces, served, bought>>

\* The transaction fails; or only its answer is lost, which EndJob shows.
AbortReservation(r) ==
  /\ r \in reserving
  /\ reserving' = reserving \ {r}
  /\ jobs' = {j \in jobs : j.attempt # r.attempt \/ j.step # "asking"}
  /\ UNCHANGED <<now, sent, checking, nonces, usage, daily, served, bought>>

\* The paid provider is called with the items allowed.
BuySuggestions(j) ==
  /\ j \in jobs /\ j.step = "allowed"
  /\ bought' = [bought EXCEPT ![j.attempt] = @ + j.allowed]
  /\ jobs' = jobs \ {j}
  /\ UNCHANGED <<now, sent, checking, nonces, reserving, usage, daily, served>>

------------------------------------------------------------------------
BudgetInit ==
  /\ now = 0
  /\ sent = [a \in Attempts |-> NotSent]
  /\ checking = {}
  /\ nonces = [a \in Attempts |-> 0]
  /\ jobs = {} /\ reserving = {}
  /\ usage = [a \in Attempts |-> NoUsage]
  /\ daily = [d \in 0 .. LastDay |-> 0]
  /\ served = [a \in Attempts |-> 0]
  /\ bought = [a \in Attempts |-> 0]

ServeRequests(skews) ==
  \/ \E a \in Attempts, b \in Previews, n \in Sizes, skew \in skews :
       SignRequest(a, b, n, skew)
  \/ \E a \in Attempts : CheckAge(a)
  \/ \E c \in checking : ClaimNonce(c) \/ DropCheck(c)
  \/ \E j \in jobs : EndJob(j) \/ BeginReservation(j) \/ BuySuggestions(j)
  \/ \E r \in reserving : LockDay(r) \/ CommitReservation(r) \/ AbortReservation(r)

BudgetNext == Tick \/ ServeRequests((-Skew) .. Skew)

BudgetSpec == BudgetInit /\ [][BudgetNext]_budgetVars

------------------------------------------------------------------------
(* Properties.                                                           *)

Job == [attempt : Attempts, step : {"new", "asking", "allowed"}, allowed : Nat]
Reservation == [attempt : Attempts, day : 0 .. LastDay, step : {"begun", "locked"},
                daily : Nat, preview : Nat]

\* Every variable has its type.
BudgetTypeOK ==
  /\ now \in Nat
  /\ sent \in [Attempts -> [stamp : Int, preview : Previews \cup {NoPreview},
                            size : Nat]]
  /\ checking \in SUBSET [attempt : Attempts, at : Nat]
  /\ nonces \in [Attempts -> Nat]
  /\ jobs \in SUBSET Job
  /\ reserving \in SUBSET Reservation
  /\ usage \in [Attempts -> [preview : Previews \cup {NoPreview},
                             day : 0 .. LastDay, items : Nat]]
  /\ daily \in [0 .. LastDay -> Nat]
  /\ served \in [Attempts -> Nat]
  /\ bought \in [Attempts -> Nat]

BoughtBy(S) == SumFunctionOnSet(bought, S)

ReservedOn(d) == {a \in Attempts : usage[a].day = d /\ usage[a] # NoUsage}
ReservedIn(b) == {a \in Attempts : usage[a].preview = b}

\* Whatever runs at once or is given up half way, no more is paid for than
\* the limit of a day, nor than the limit of a preview; the latter except
\* when two reservations of the preview fall on two days, as the only lock
\* they have in common is the day's row.
PaidWithinLimits ==
  /\ \A d \in 0 .. LastDay : BoughtBy(ReservedOn(d)) <= DayMax
  /\ \A b \in Previews : \/ BoughtBy(ReservedIn(b)) <= PreviewMax
                         \/ \E a, x \in ReservedIn(b) : usage[a].day # usage[x].day

\* A signed request is worked on at most once, however often and however
\* late it arrives, also after its nonce has been deleted.
ServedOnce == \A a \in Attempts : served[a] <= 1
=============================================================================
