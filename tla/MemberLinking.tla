-------------------------- MODULE MemberLinking --------------------------
(***************************************************************************)
(* Who is a member, and which Telegram account speaks for one.             *)
(*                                                                         *)
(* A membership is made by two triggers, one on the users and one on the   *)
(* allowlist, whichever transaction comes second; neither sees what the    *)
(* other has not committed.  A Telegram account is linked by a code that   *)
(* the member asks for on the web and sends to the bot.                    *)
(*                                                                         *)
(* A transaction is a member of a set while it holds its locks; what it    *)
(* writes appears when it commits.  E-mail and user are one: the e-mail of *)
(* a user is unique, and so is lower(email) in the allowlist.              *)
(***************************************************************************)
EXTENDS Integers, FiniteSets

CONSTANTS
  Users, Households,
  Accounts,      \* Telegram accounts
  Codes,         \* link codes, each generated once
  NoHousehold, NoAccount, NoCode

ASSUME LinkingAssumption ==
  /\ NoHousehold \notin Households
  /\ NoAccount \notin Accounts
  /\ NoCode \notin Codes

VARIABLES
  confirmed,   \* auth.users with a confirmed e-mail
  allowed,     \* allowed_emails
  household,   \* household_members: the household of each user
  active,      \* household_members.is_active
  signUps,     \* transactions that confirm a user
  invitations, \* transactions that insert into allowed_emails
  telegram,    \* household_members.telegram_user_id
  code,        \* telegram_link_codes that have not expired, by member
  redeems,     \* redeem_telegram_link_code transactions
  unlinks,     \* unlink_telegram transactions
  asked,       \* history: members who asked for a code since their last unlink
  usedBy       \* history: the accounts each code has linked

provisionVars == <<confirmed, allowed, household, active, signUps, invitations>>
linkVars      == <<telegram, code, redeems, unlinks, asked, usedBy>>
memberVars    == <<provisionVars, linkVars>>

SignUp     == [user : Users, step : {"written", "read"},
               seen : Households \cup {NoHousehold}]
Invitation == [user : Users, home : Households, step : {"written", "read"},
               seen : {"absent", "confirmed"}]
Redeem     == [user : Users, account : Accounts, code : Codes,
               step : {"found", "checked"}]

------------------------------------------------------------------------
(* Provisioning.                                                         *)

SigningUp(u) == {s \in signUps : s.user = u}
Inviting(u)  == {i \in invitations : i.user = u}

\* Mutant: the two triggers take no lock in common.
EmailLocked0(u) == FALSE

\* pg_advisory_xact_lock on the e-mail, taken before the other table is read.
EmailLocked(u) == \E x \in SigningUp(u) \cup Inviting(u) : x.step = "read"

\* A confirmed user is inserted, or an unconfirmed one is confirmed.
ConfirmUser(u) ==
  /\ u \notin confirmed /\ SigningUp(u) = {}
  /\ signUps' = signUps \cup {[user |-> u, step |-> "written", seen |-> NoHousehold]}
  /\ UNCHANGED <<confirmed, allowed, household, active, invitations, linkVars>>

\* provision_household_member
ReadAllowlist(s) ==
  /\ s \in signUps /\ s.step = "written"
  /\ ~EmailLocked(s.user)
  /\ signUps' = (signUps \ {s}) \cup
       {[s EXCEPT !.step = "read", !.seen = allowed[s.user]]}
  /\ UNCHANGED <<confirmed, allowed, household, active, invitations, linkVars>>

\* insert into household_members ... on conflict (user_id) do nothing
Enrol(u, h) ==
  IF h # NoHousehold /\ household[u] = NoHousehold
  THEN /\ household' = [household EXCEPT ![u] = h]
       /\ active' = active \cup {u}
  ELSE UNCHANGED <<household, active>>

CommitSignUp(s) ==
  /\ s \in signUps /\ s.step = "read"
  /\ signUps' = signUps \ {s}
  /\ confirmed' = confirmed \cup {s.user}
  /\ Enrol(s.user, s.seen)
  /\ UNCHANGED <<allowed, invitations, linkVars>>

\* create-household.mjs, or an insert by the operator.
Invite(u, h) ==
  /\ allowed[u] = NoHousehold /\ Inviting(u) = {}
  /\ invitations' = invitations \cup
       {[user |-> u, home |-> h, step |-> "written", seen |-> "absent"]}
  /\ UNCHANGED <<confirmed, allowed, household, active, signUps, linkVars>>

\* provision_on_allowlist
ReadUsers(i) ==
  /\ i \in invitations /\ i.step = "written"
  /\ ~EmailLocked(i.user)
  /\ invitations' = (invitations \ {i}) \cup
       {[i EXCEPT !.step = "read",
                  !.seen = IF i.user \in confirmed THEN "confirmed" ELSE "absent"]}
  /\ UNCHANGED <<confirmed, allowed, household, active, signUps, linkVars>>

\* A user of another household makes the insert fail as a whole.
CommitInvitation(i) ==
  /\ i \in invitations /\ i.step = "read"
  /\ i.seen = "confirmed" => household[i.user] \in {NoHousehold, i.home}
  /\ invitations' = invitations \ {i}
  /\ allowed' = [allowed EXCEPT ![i.user] = i.home]
  /\ Enrol(i.user, IF i.seen = "confirmed" THEN i.home ELSE NoHousehold)
  /\ UNCHANGED <<confirmed, signUps, linkVars>>

\* Either transaction fails; nothing it wrote remains.
AbortSignUp(s) ==
  /\ signUps' = signUps \ {s}
  /\ UNCHANGED <<confirmed, allowed, household, active, invitations, linkVars>>

AbortInvitation(i) ==
  /\ invitations' = invitations \ {i}
  /\ UNCHANGED <<confirmed, allowed, household, active, signUps, linkVars>>

\* The operator deletes the allowlist row: the membership stays.
Disallow(u) ==
  /\ allowed[u] # NoHousehold /\ Inviting(u) = {}
  /\ allowed' = [allowed EXCEPT ![u] = NoHousehold]
  /\ UNCHANGED <<confirmed, household, active, signUps, invitations, linkVars>>

\* The operator deactivates a membership.
Deactivate(u) ==
  /\ u \in active /\ u \notin unlinks
  /\ \A r \in redeems : r.user = u => r.step # "checked"
  /\ active' = active \ {u}
  /\ UNCHANGED <<confirmed, allowed, household, signUps, invitations, linkVars>>

------------------------------------------------------------------------
(* Linking.                                                              *)

\* Mutant: the code row is read without "for update".
CodeLocked0(u) == FALSE

\* The row of telegram_link_codes a redeem holds.
CodeLocked(u) == \E r \in redeems : r.user = u

\* The row of household_members a redeem or an unlink holds.
MemberLocked(u) == u \in unlinks \/ \E r \in redeems : r.user = u /\ r.step = "checked"

Generated == {c \in Codes : (\E u \in Users : code[u] = c) \/ usedBy[c] # {}}

\* create_telegram_link_code: the new code takes the place of the old one.
CreateCode(u, c) ==
  /\ u \in active /\ ~CodeLocked(u)
  /\ c \notin Generated /\ \A r \in redeems : r.code # c
  /\ code' = [code EXCEPT ![u] = c]
  /\ asked' = asked \cup {u}
  /\ UNCHANGED <<provisionVars, telegram, redeems, unlinks, usedBy>>

\* Ten minutes go by; or the code is sent to a group and discarded.
DropCode(u) ==
  /\ code[u] # NoCode /\ ~CodeLocked(u)
  /\ code' = [code EXCEPT ![u] = NoCode]
  /\ UNCHANGED <<provisionVars, telegram, redeems, unlinks, asked, usedBy>>

\* redeem_telegram_link_code: the row is found and locked.
FindCode(t, c) ==
  \E u \in Users :
    /\ code[u] = c /\ ~CodeLocked(u)
    /\ redeems' = redeems \cup
         {[user |-> u, account |-> t, code |-> c, step |-> "found"]}
    /\ UNCHANGED <<provisionVars, telegram, code, unlinks, asked, usedBy>>

Taken(t, u) == \E w \in Users \ {u} : telegram[w] = t

\* The account's lock and the member's row; a code of no use is deleted.
CheckMember(r) ==
  /\ r \in redeems /\ r.step = "found"
  /\ \A q \in redeems : q.account = r.account => q.step = "found"
  /\ ~MemberLocked(r.user)
  /\ \/ /\ r.user \in active /\ ~Taken(r.account, r.user)
        /\ redeems' = (redeems \ {r}) \cup {[r EXCEPT !.step = "checked"]}
        /\ UNCHANGED code
     \/ /\ r.user \notin active \/ Taken(r.account, r.user)
        /\ redeems' = redeems \ {r}
        /\ code' = [code EXCEPT ![r.user] = NoCode]
  /\ UNCHANGED <<provisionVars, telegram, unlinks, asked, usedBy>>

CommitLink(r) ==
  /\ r \in redeems /\ r.step = "checked"
  /\ ~Taken(r.account, r.user)      \* household_members.telegram_user_id unique
  /\ telegram' = [telegram EXCEPT ![r.user] = r.account]
  /\ code' = [code EXCEPT ![r.user] = NoCode]
  /\ usedBy' = [usedBy EXCEPT ![r.code] = @ \cup {r.account}]
  /\ redeems' = redeems \ {r}
  /\ UNCHANGED <<provisionVars, unlinks, asked>>

\* unlink_telegram updates the member, then waits for the code's row.
StartUnlink(u) ==
  /\ u \in active /\ ~MemberLocked(u)
  /\ unlinks' = unlinks \cup {u}
  /\ UNCHANGED <<provisionVars, telegram, code, redeems, asked, usedBy>>

CommitUnlink(u) ==
  /\ u \in unlinks /\ ~CodeLocked(u)
  /\ telegram' = [telegram EXCEPT ![u] = NoAccount]
  /\ code' = [code EXCEPT ![u] = NoCode]
  /\ asked' = asked \ {u}
  /\ unlinks' = unlinks \ {u}
  /\ UNCHANGED <<provisionVars, redeems, usedBy>>

\* Lost, or chosen to end a deadlock: the two take their rows in opposite order.
AbortRedeem(r) ==
  /\ redeems' = redeems \ {r}
  /\ UNCHANGED <<provisionVars, telegram, code, unlinks, asked, usedBy>>

AbortUnlink(u) ==
  /\ unlinks' = unlinks \ {u}
  /\ UNCHANGED <<provisionVars, telegram, code, redeems, asked, usedBy>>

------------------------------------------------------------------------
MemberInit ==
  /\ confirmed = {} /\ active = {} /\ signUps = {} /\ invitations = {}
  /\ allowed = [u \in Users |-> NoHousehold]
  /\ household = [u \in Users |-> NoHousehold]
  /\ telegram = [u \in Users |-> NoAccount]
  /\ code = [u \in Users |-> NoCode]
  /\ redeems = {} /\ unlinks = {} /\ asked = {}
  /\ usedBy = [c \in Codes |-> {}]

Provision ==
  \/ \E u \in Users : \/ ConfirmUser(u) \/ Disallow(u) \/ Deactivate(u)
                      \/ \E h \in Households : Invite(u, h)
  \/ \E s \in signUps : ReadAllowlist(s) \/ CommitSignUp(s) \/ AbortSignUp(s)
  \/ \E i \in invitations : ReadUsers(i) \/ CommitInvitation(i) \/ AbortInvitation(i)

Link ==
  \/ \E u \in Users, c \in Codes : CreateCode(u, c)
  \/ \E t \in Accounts, c \in Codes : FindCode(t, c)
  \/ \E u \in Users : DropCode(u) \/ StartUnlink(u)
  \/ \E r \in redeems : CheckMember(r) \/ CommitLink(r) \/ AbortRedeem(r)
  \/ \E u \in unlinks : CommitUnlink(u) \/ AbortUnlink(u)

MemberNext == Provision \/ Link

MemberSpec == MemberInit /\ [][MemberNext]_memberVars

------------------------------------------------------------------------
(* Properties.                                                           *)

\* Every variable has its type.
MemberTypeOK ==
  /\ confirmed \in SUBSET Users
  /\ allowed \in [Users -> Households \cup {NoHousehold}]
  /\ household \in [Users -> Households \cup {NoHousehold}]
  /\ active \in SUBSET Users
  /\ signUps \in SUBSET SignUp
  /\ invitations \in SUBSET Invitation
  /\ telegram \in [Users -> Accounts \cup {NoAccount}]
  /\ code \in [Users -> Codes \cup {NoCode}]
  /\ redeems \in SUBSET Redeem
  /\ unlinks \in SUBSET Users
  /\ asked \in SUBSET Users
  /\ usedBy \in [Codes -> SUBSET Accounts]

\* Once both have committed, a confirmed user who is on the allowlist is a
\* member of that household, in whatever order or overlap they came.
InvitedIsMember ==
  \A u \in confirmed :
    (allowed[u] # NoHousehold /\ SigningUp(u) \cup Inviting(u) = {})
       => household[u] = allowed[u]

\* An account speaks for a member only through a code asked for since the
\* member last unlinked, and a code links one account.
LinkIsWanted ==
  /\ \A u \in Users : telegram[u] # NoAccount => u \in asked
  /\ \A c \in Codes : Cardinality(usedBy[c]) <= 1
=============================================================================
