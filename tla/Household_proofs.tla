--------------------------- MODULE Household_proofs ---------------------------
(***************************************************************************)
(* Theorems about MemberLinking, for any users, households, accounts and   *)
(* codes; about SuggestionBudget, for any requests, sizes, limits, clock   *)
(* and delays that BudgetAssumption allows; and about the composition of   *)
(* the household's components, each of whose behaviours is one of the      *)
(* component's own specification.                                          *)
(***************************************************************************)
EXTENDS MCHousehold, ObligationPayments_proofs, ImportConfirmation_proofs,
        BotPrompts_proofs, Sums

(***************************************************************************)
(* MEMBERS.                                                                *)
(***************************************************************************)

(***************************************************************************)
(* The inductive invariants.                                               *)
(***************************************************************************)

\* The lock on the e-mail: of the transactions about one user, one has read.
OneReader ==
  /\ \A s, q \in signUps : s.user = q.user => s = q
  /\ \A i, j \in invitations : i.user = j.user => i = j
  /\ \A s \in signUps, i \in invitations :
       s.user = i.user => s.step # "read" \/ i.step # "read"

\* What a transaction has read still holds, but for the operator's deletion
\* of an allowlist row, and membership follows the two tables.
ReadStillHolds ==
  /\ \A s \in signUps :
       /\ s.user \notin confirmed
       /\ s.step = "read" => allowed[s.user] \in {NoHousehold, s.seen}
  /\ \A i \in invitations :
       /\ allowed[i.user] = NoHousehold
       /\ i.step = "read" => (i.seen = "confirmed" <=> i.user \in confirmed)
  /\ \A u \in Users : household[u] # NoHousehold => u \in confirmed
  /\ \A u \in confirmed : allowed[u] # NoHousehold => household[u] = allowed[u]

\* The lock on a code's row: a redeem has its row's code to itself.
OneRedeem ==
  /\ \A r, q \in redeems : r.user = q.user => r = q
  /\ \A r \in redeems : code[r.user] = r.code
  /\ \A u, w \in Users : code[u] # NoCode /\ code[u] = code[w] => u = w

\* A code was asked for, and has linked nobody while it can be used.
CodesAreFresh ==
  /\ \A u \in Users : code[u] # NoCode => u \in asked
  /\ \A u \in Users : telegram[u] # NoAccount => u \in asked
  /\ \A c \in Codes : usedBy[c] # {} => \A u \in Users : code[u] # c
  /\ \A c \in Codes : usedBy[c] = {} \/ \E t \in Accounts : usedBy[c] = {t}

------------------------------------------------------------------------
(* Types.                                                                *)

LEMMA EnrolType ==
  ASSUME MemberTypeOK, NEW u \in Users, NEW h \in Households \cup {NoHousehold},
         Enrol(u, h)
  PROVE  /\ household' \in [Users -> Households \cup {NoHousehold}]
         /\ active' \in SUBSET Users
  BY DEF Enrol, MemberTypeOK

LEMMA SignUpsType ==
  ASSUME MemberTypeOK, Provision
  PROVE  signUps' \in SUBSET SignUp /\ invitations' \in SUBSET Invitation
<1>0. signUps \in SUBSET SignUp /\ invitations \in SUBSET Invitation
      /\ allowed \in [Users -> Households \cup {NoHousehold}]
  BY DEF MemberTypeOK
<1>1. CASE \E u \in Users : ConfirmUser(u)
  BY <1>0, <1>1 DEF ConfirmUser, SignUp
<1>2. CASE \E u \in Users, h \in Households : Invite(u, h)
  BY <1>0, <1>2 DEF Invite, Invitation
<1>3. CASE \E s \in signUps : ReadAllowlist(s)
  <2>1. PICK s \in signUps : ReadAllowlist(s)
    BY <1>3
  <2>2. s \in SignUp /\ allowed[s.user] \in Households \cup {NoHousehold}
    BY <1>0 DEF SignUp
  <2>3. [s EXCEPT !.step = "read", !.seen = allowed[s.user]] \in SignUp
    BY <2>2 DEF SignUp
  <2> QED
    BY <1>0, <2>1, <2>3 DEF ReadAllowlist
<1>4. CASE \E i \in invitations : ReadUsers(i)
  <2>1. PICK i \in invitations : ReadUsers(i)
    BY <1>4
  <2> DEFINE j == [i EXCEPT !.step = "read",
                            !.seen = IF i.user \in confirmed THEN "confirmed" ELSE "absent"]
  <2>2. j \in Invitation
    BY <1>0 DEF Invitation
  <2> QED
    BY <1>0, <2>1, <2>2 DEF ReadUsers
<1>5. CASE signUps' \subseteq signUps /\ invitations' \subseteq invitations
  BY <1>0, <1>5
<1> QED
  BY <1>1, <1>2, <1>3, <1>4, <1>5
  DEF Provision, Disallow, Deactivate, CommitSignUp, AbortSignUp,
      CommitInvitation, AbortInvitation

LEMMA ProvisionType ==
  ASSUME MemberTypeOK, Provision
  PROVE  MemberTypeOK'
<1>1. UNCHANGED linkVars
  BY DEF Provision, ConfirmUser, Disallow, Deactivate, Invite, ReadAllowlist,
         CommitSignUp, AbortSignUp, ReadUsers, CommitInvitation, AbortInvitation
<1>2. /\ confirmed' \in SUBSET Users
      /\ allowed' \in [Users -> Households \cup {NoHousehold}]
      /\ household' \in [Users -> Households \cup {NoHousehold}]
      /\ active' \in SUBSET Users
  <2>1. CASE \E s \in signUps : CommitSignUp(s)
    <3>1. PICK s \in signUps : CommitSignUp(s)
      BY <2>1
    <3>2. s.user \in Users /\ s.seen \in Households \cup {NoHousehold}
      BY DEF MemberTypeOK, SignUp
    <3> QED
      BY <3>1, <3>2, EnrolType DEF CommitSignUp, MemberTypeOK
  <2>2. CASE \E i \in invitations : CommitInvitation(i)
    <3>1. PICK i \in invitations : CommitInvitation(i)
      BY <2>2
    <3>2. i.user \in Users /\ i.home \in Households
      BY DEF MemberTypeOK, Invitation
    <3> QED
      BY <3>1, <3>2, EnrolType DEF CommitInvitation, MemberTypeOK
  <2>3. CASE \E u \in Users : Disallow(u) \/ Deactivate(u)
    BY <2>3 DEF Disallow, Deactivate, MemberTypeOK
  <2>4. CASE UNCHANGED <<confirmed, allowed, household, active>>
    BY <2>4 DEF MemberTypeOK
  <2> QED
    BY <2>1, <2>2, <2>3, <2>4
    DEF Provision, ConfirmUser, Invite, ReadAllowlist, AbortSignUp, ReadUsers,
        AbortInvitation
<1> QED
  BY <1>1, <1>2, SignUpsType DEF MemberTypeOK, linkVars

LEMMA LinkType ==
  ASSUME MemberTypeOK, Link
  PROVE  MemberTypeOK'
<1>1. UNCHANGED provisionVars
  BY DEF Link, CreateCode, FindCode, DropCode, StartUnlink, CheckMember,
         CommitLink, AbortRedeem, CommitUnlink, AbortUnlink
<1>2. \A r \in redeems : r \in Redeem /\ r.user \in Users /\ r.account \in Accounts
                         /\ r.code \in Codes
  BY DEF MemberTypeOK, Redeem
<1>3. redeems' \in SUBSET Redeem
  <2>1. CASE \E t \in Accounts, c \in Codes : FindCode(t, c)
    BY <2>1 DEF FindCode, MemberTypeOK, Redeem
  <2>2. CASE \E r \in redeems : CheckMember(r)
    <3>1. PICK r \in redeems : CheckMember(r)
      BY <2>2
    <3>2. [r EXCEPT !.step = "checked"] \in Redeem
      BY <1>2 DEF Redeem
    <3> QED
      BY <3>1, <3>2 DEF CheckMember, MemberTypeOK
  <2>3. CASE redeems' \subseteq redeems
    BY <2>3 DEF MemberTypeOK
  <2> QED
    BY <2>1, <2>2, <2>3
    DEF Link, CreateCode, DropCode, StartUnlink, CommitLink, AbortRedeem,
        CommitUnlink, AbortUnlink
<1>4. /\ telegram' \in [Users -> Accounts \cup {NoAccount}]
      /\ code' \in [Users -> Codes \cup {NoCode}]
      /\ unlinks' \in SUBSET Users
      /\ asked' \in SUBSET Users
      /\ usedBy' \in [Codes -> SUBSET Accounts]
  <2>1. CASE \E u \in Users, c \in Codes : CreateCode(u, c)
    BY <2>1 DEF CreateCode, MemberTypeOK
  <2>2. CASE \E t \in Accounts, c \in Codes : FindCode(t, c)
    BY <2>2 DEF FindCode, MemberTypeOK
  <2>3. CASE \E u \in Users : DropCode(u) \/ StartUnlink(u)
    BY <2>3 DEF DropCode, StartUnlink, MemberTypeOK
  <2>4. CASE \E r \in redeems : CheckMember(r)
    BY <1>2, <2>4 DEF CheckMember, MemberTypeOK
  <2>5. CASE \E r \in redeems : CommitLink(r)
    BY <1>2, <2>5 DEF CommitLink, MemberTypeOK
  <2>6. CASE \E r \in redeems : AbortRedeem(r)
    BY <2>6 DEF AbortRedeem, MemberTypeOK
  <2>7. CASE \E u \in unlinks : CommitUnlink(u) \/ AbortUnlink(u)
    BY <2>7 DEF CommitUnlink, AbortUnlink, MemberTypeOK
  <2> QED
    BY <2>1, <2>2, <2>3, <2>4, <2>5, <2>6, <2>7 DEF Link
<1> QED
  BY <1>1, <1>3, <1>4 DEF MemberTypeOK, provisionVars

LEMMA MemberTypeStep == MemberTypeOK /\ [MemberNext]_memberVars => MemberTypeOK'
<1> SUFFICES ASSUME MemberTypeOK, [MemberNext]_memberVars PROVE MemberTypeOK'
  OBVIOUS
<1>1. CASE UNCHANGED memberVars
  BY <1>1 DEF memberVars, provisionVars, linkVars, MemberTypeOK
<1> QED
  BY <1>1, ProvisionType, LinkType DEF MemberNext

\* Every variable has its type.
THEOREM MembersTyped == MemberSpec => []MemberTypeOK
<1>1. MemberInit => MemberTypeOK
  BY DEF MemberInit, MemberTypeOK
<1> QED
  BY <1>1, MemberTypeStep, PTL DEF MemberSpec

------------------------------------------------------------------------
(* Invited users become members.                                         *)

LEMMA ReaderStep ==
  OneReader /\ MemberTypeOK /\ [MemberNext]_memberVars => OneReader'
<1> SUFFICES ASSUME OneReader, MemberTypeOK, [MemberNext]_memberVars PROVE OneReader'
  OBVIOUS
<1>1. CASE \E u \in Users : ConfirmUser(u)
  BY <1>1 DEF ConfirmUser, OneReader, SigningUp
<1>2. CASE \E u \in Users, h \in Households : Invite(u, h)
  BY <1>2 DEF Invite, OneReader, Inviting
<1>3. CASE \E s \in signUps : ReadAllowlist(s)
  <2>1. PICK s \in signUps : ReadAllowlist(s)
    BY <1>3
  <2> DEFINE q == [s EXCEPT !.step = "read", !.seen = allowed[s.user]]
  <2>2. q.user = s.user /\ signUps' = (signUps \ {s}) \cup {q} /\ UNCHANGED invitations
    BY <2>1 DEF ReadAllowlist, MemberTypeOK, SignUp
  <2>3. \A i \in invitations : i.user = s.user => i.step # "read"
    BY <2>1 DEF ReadAllowlist, EmailLocked, Inviting
  <2> HIDE DEF q
  <2> QED
    BY <2>2, <2>3 DEF OneReader
<1>4. CASE \E i \in invitations : ReadUsers(i)
  <2>1. PICK i \in invitations : ReadUsers(i)
    BY <1>4
  <2> DEFINE j == [i EXCEPT !.step = "read",
                            !.seen = IF i.user \in confirmed THEN "confirmed" ELSE "absent"]
  <2>2. j.user = i.user /\ invitations' = (invitations \ {i}) \cup {j} /\ UNCHANGED signUps
    BY <2>1 DEF ReadUsers, MemberTypeOK, Invitation
  <2>3. \A s \in signUps : s.user = i.user => s.step # "read"
    BY <2>1 DEF ReadUsers, EmailLocked, SigningUp
  <2> HIDE DEF j
  <2> QED
    BY <2>2, <2>3 DEF OneReader
<1>5. CASE signUps' \subseteq signUps /\ invitations' \subseteq invitations
  BY <1>5 DEF OneReader
<1> QED
  BY <1>1, <1>2, <1>3, <1>4, <1>5
  DEF MemberNext, Provision, Disallow, Deactivate, CommitSignUp, AbortSignUp,
      CommitInvitation, AbortInvitation, Link, CreateCode, FindCode, DropCode,
      StartUnlink, CheckMember, CommitLink, AbortRedeem, CommitUnlink, AbortUnlink,
      memberVars, provisionVars

LEMMA ReadStep ==
  ReadStillHolds /\ OneReader /\ MemberTypeOK /\ [MemberNext]_memberVars
    => ReadStillHolds'
<1> SUFFICES ASSUME ReadStillHolds, OneReader, MemberTypeOK, [MemberNext]_memberVars
             PROVE  ReadStillHolds'
  OBVIOUS
<1>0. /\ \A s \in signUps : /\ s \in SignUp /\ s.user \in Users
                            /\ s.seen \in Households \cup {NoHousehold}
      /\ \A i \in invitations : i \in Invitation /\ i.user \in Users /\ i.home \in Households
      /\ confirmed \in SUBSET Users
      /\ allowed \in [Users -> Households \cup {NoHousehold}]
      /\ household \in [Users -> Households \cup {NoHousehold}]
  BY DEF MemberTypeOK, SignUp, Invitation
<1>1. CASE \E u \in Users : ConfirmUser(u)
  BY <1>1 DEF ConfirmUser, ReadStillHolds
<1>2. CASE \E u \in Users, h \in Households : Invite(u, h)
  BY <1>2 DEF Invite, ReadStillHolds
<1>3. CASE \E s \in signUps : ReadAllowlist(s)
  <2>1. PICK s \in signUps : ReadAllowlist(s)
    BY <1>3
  <2> DEFINE q == [s EXCEPT !.step = "read", !.seen = allowed[s.user]]
  <2>2. /\ q.user = s.user /\ q.seen = allowed[s.user]
        /\ signUps' = (signUps \ {s}) \cup {q}
        /\ UNCHANGED <<invitations, confirmed, allowed, household>>
    BY <1>0, <2>1 DEF ReadAllowlist, SignUp
  <2> HIDE DEF q
  <2> QED
    BY <2>2 DEF ReadStillHolds
<1>4. CASE \E i \in invitations : ReadUsers(i)
  <2>1. PICK i \in invitations : ReadUsers(i)
    BY <1>4
  <2> DEFINE j == [i EXCEPT !.step = "read",
                            !.seen = IF i.user \in confirmed THEN "confirmed" ELSE "absent"]
  <2>2. /\ j.user = i.user /\ (j.seen = "confirmed" <=> i.user \in confirmed)
        /\ invitations' = (invitations \ {i}) \cup {j}
        /\ UNCHANGED <<signUps, confirmed, allowed, household>>
    BY <1>0, <2>1 DEF ReadUsers, Invitation
  <2> HIDE DEF j
  <2> QED
    BY <2>2 DEF ReadStillHolds
<1>5. CASE \E s \in signUps : CommitSignUp(s)
  <2>1. PICK s \in signUps : CommitSignUp(s)
    BY <1>5
  <2>2. /\ s.user \in Users /\ s.step = "read" /\ s.user \notin confirmed
        /\ allowed[s.user] \in {NoHousehold, s.seen} /\ household[s.user] = NoHousehold
    BY <1>0, <2>1 DEF CommitSignUp, ReadStillHolds
  <2>3. /\ household' \in [Users -> Households \cup {NoHousehold}]
        /\ \A u \in Users \ {s.user} : household'[u] = household[u]
        /\ s.seen # NoHousehold => household'[s.user] = s.seen
    BY <1>0, <2>1, <2>2 DEF CommitSignUp, Enrol
  <2>4. /\ signUps' = signUps \ {s} /\ confirmed' = confirmed \cup {s.user}
        /\ UNCHANGED <<allowed, invitations>>
    BY <2>1 DEF CommitSignUp
  <2>5. /\ \A q \in signUps' : q.user # s.user
        /\ \A i \in invitations : i.step = "read" => i.user # s.user
    BY <2>2, <2>4 DEF OneReader
  <2> QED
    BY <1>0, <2>2, <2>3, <2>4, <2>5 DEF ReadStillHolds
<1>6. CASE \E i \in invitations : CommitInvitation(i)
  <2>1. PICK i \in invitations : CommitInvitation(i)
    BY <1>6
  <2>2. /\ i.user \in Users /\ i.step = "read" /\ i.home \in Households
        /\ i.seen = "confirmed" <=> i.user \in confirmed
        /\ i.user \in confirmed => household[i.user] \in {NoHousehold, i.home}
    BY <1>0, <2>1 DEF CommitInvitation, ReadStillHolds
  <2>3. /\ \A u \in Users \ {i.user} : household'[u] = household[u]
        /\ i.user \in confirmed => household'[i.user] = i.home
        /\ i.user \notin confirmed => household'[i.user] = household[i.user]
    BY <1>0, <2>1, <2>2, LinkingAssumption DEF CommitInvitation, Enrol
  <2>4. /\ invitations' = invitations \ {i}
        /\ allowed' = [allowed EXCEPT ![i.user] = i.home]
        /\ UNCHANGED <<confirmed, signUps>>
    BY <2>1 DEF CommitInvitation
  <2>5. /\ \A j \in invitations' : j.user # i.user
        /\ \A s \in signUps : s.step = "read" => s.user # i.user
    BY <2>2, <2>4 DEF OneReader
  <2> QED
    BY <1>0, <2>2, <2>3, <2>4, <2>5 DEF ReadStillHolds
<1>7. CASE \E u \in Users : Disallow(u)
  BY <1>0, <1>7 DEF Disallow, ReadStillHolds
<1>8. CASE /\ signUps' \subseteq signUps /\ invitations' \subseteq invitations
           /\ UNCHANGED <<confirmed, allowed, household>>
  BY <1>8 DEF ReadStillHolds
<1> QED
  BY <1>1, <1>2, <1>3, <1>4, <1>5, <1>6, <1>7, <1>8
  DEF MemberNext, Provision, Deactivate, AbortSignUp, AbortInvitation,
      Link, CreateCode, FindCode, DropCode, StartUnlink, CheckMember, CommitLink,
      AbortRedeem, CommitUnlink, AbortUnlink, memberVars, provisionVars

\* A confirmed user on the allowlist is a member of that household, in
\* whatever order or overlap the two transactions came.
THEOREM InvitedBecomesMember == MemberSpec => []InvitedIsMember
<1>1. MemberInit => OneReader /\ ReadStillHolds
  BY DEF MemberInit, OneReader, ReadStillHolds
<1>2. ReadStillHolds => InvitedIsMember
  BY DEF ReadStillHolds, InvitedIsMember
<1> QED
  BY <1>1, <1>2, ReaderStep, ReadStep, MembersTyped, PTL DEF MemberSpec

------------------------------------------------------------------------
(* Links are wanted.                                                     *)

LEMMA RedeemStep ==
  OneRedeem /\ MemberTypeOK /\ [MemberNext]_memberVars => OneRedeem'
<1> SUFFICES ASSUME OneRedeem, MemberTypeOK, [MemberNext]_memberVars PROVE OneRedeem'
  OBVIOUS
<1>0. /\ \A r \in redeems : r \in Redeem /\ r.user \in Users /\ r.code \in Codes
      /\ code \in [Users -> Codes \cup {NoCode}]
  BY DEF MemberTypeOK, Redeem
<1>1. CASE \E u \in Users, c \in Codes : CreateCode(u, c)
  BY <1>0, <1>1 DEF CreateCode, CodeLocked, Generated, OneRedeem
<1>2. CASE \E t \in Accounts, c \in Codes : FindCode(t, c)
  BY <1>0, <1>2 DEF FindCode, CodeLocked, OneRedeem
<1>3. CASE \E u \in Users : DropCode(u)
  BY <1>0, <1>3 DEF DropCode, CodeLocked, OneRedeem
<1>4. CASE \E u \in unlinks : CommitUnlink(u)
  BY <1>0, <1>4 DEF CommitUnlink, CodeLocked, OneRedeem
<1>5. CASE \E r \in redeems : /\ redeems' = redeems \ {r}
                             /\ code' = [code EXCEPT ![r.user] = NoCode]
  BY <1>0, <1>5 DEF OneRedeem
<1>6. CASE \E r \in redeems : /\ redeems' = (redeems \ {r}) \cup {[r EXCEPT !.step = "checked"]}
                             /\ UNCHANGED code
  <2>1. PICK r \in redeems : redeems' = (redeems \ {r}) \cup {[r EXCEPT !.step = "checked"]}
                             /\ UNCHANGED code
    BY <1>6
  <2> DEFINE q == [r EXCEPT !.step = "checked"]
  <2>2. q.user = r.user /\ q.code = r.code
    BY <1>0 DEF Redeem
  <2> HIDE DEF q
  <2>3. redeems' = (redeems \ {r}) \cup {q} /\ UNCHANGED code
    BY <2>1 DEF q
  <2> QED
    BY <2>2, <2>3 DEF OneRedeem
<1>7. CASE redeems' \subseteq redeems /\ UNCHANGED code
  BY <1>7 DEF OneRedeem
<1> QED
  BY <1>1, <1>2, <1>3, <1>4, <1>5, <1>6, <1>7
  DEF MemberNext, Provision, ConfirmUser, Disallow, Deactivate, Invite,
      ReadAllowlist, CommitSignUp, AbortSignUp, ReadUsers, CommitInvitation,
      AbortInvitation, Link, StartUnlink, CheckMember, CommitLink, AbortRedeem,
      AbortUnlink, memberVars, linkVars

LEMMA FreshStep ==
  CodesAreFresh /\ OneRedeem /\ MemberTypeOK /\ [MemberNext]_memberVars
    => CodesAreFresh'
<1> SUFFICES ASSUME CodesAreFresh, OneRedeem, MemberTypeOK, [MemberNext]_memberVars
             PROVE  CodesAreFresh'
  OBVIOUS
<1>0. /\ \A r \in redeems : r \in Redeem /\ r.user \in Users /\ r.code \in Codes
                            /\ r.account \in Accounts
      /\ code \in [Users -> Codes \cup {NoCode}]
      /\ telegram \in [Users -> Accounts \cup {NoAccount}]
      /\ usedBy \in [Codes -> SUBSET Accounts]
  BY DEF MemberTypeOK, Redeem
<1>1. CASE \E u \in Users, c \in Codes : CreateCode(u, c)
  BY <1>0, <1>1 DEF CreateCode, Generated, CodesAreFresh
<1>2. CASE \E u \in Users : DropCode(u)
  BY <1>0, <1>2, LinkingAssumption DEF DropCode, CodesAreFresh
<1>3. CASE \E u \in unlinks : CommitUnlink(u)
  BY <1>0, <1>3, LinkingAssumption DEF CommitUnlink, CodesAreFresh
<1>4. CASE \E r \in redeems : CommitLink(r)
  <2>1. PICK r \in redeems : CommitLink(r)
    BY <1>4
  <2>2. /\ code[r.user] = r.code /\ r.code # NoCode /\ r.user \in asked
        /\ usedBy[r.code] = {}
        /\ \A u \in Users \ {r.user} : code[u] # r.code
    BY <1>0, LinkingAssumption DEF OneRedeem, CodesAreFresh
  <2>3. /\ telegram' = [telegram EXCEPT ![r.user] = r.account]
        /\ code' = [code EXCEPT ![r.user] = NoCode]
        /\ usedBy' = [usedBy EXCEPT ![r.code] = @ \cup {r.account}]
        /\ UNCHANGED asked
    BY <2>1 DEF CommitLink
  <2> QED
    BY <1>0, <2>2, <2>3, LinkingAssumption DEF CodesAreFresh
<1>5. CASE \E r \in redeems : CheckMember(r)
  BY <1>0, <1>5, LinkingAssumption DEF CheckMember, CodesAreFresh
<1>6. CASE UNCHANGED <<telegram, code, asked, usedBy>>
  BY <1>6 DEF CodesAreFresh
<1> QED
  BY <1>1, <1>2, <1>3, <1>4, <1>5, <1>6
  DEF MemberNext, Provision, ConfirmUser, Disallow, Deactivate, Invite,
      ReadAllowlist, CommitSignUp, AbortSignUp, ReadUsers, CommitInvitation,
      AbortInvitation, Link, FindCode, StartUnlink, AbortRedeem, AbortUnlink,
      memberVars, linkVars

\* An account speaks for a member only through a code asked for since the
\* member last unlinked, and a code links one account.
THEOREM LinksAreWanted == MemberSpec => []LinkIsWanted
<1>1. MemberInit => OneRedeem /\ CodesAreFresh
  BY DEF MemberInit, OneRedeem, CodesAreFresh
<1>2. MemberTypeOK /\ CodesAreFresh => LinkIsWanted
  <2> SUFFICES ASSUME MemberTypeOK, CodesAreFresh, NEW c \in Codes
               PROVE  Cardinality(usedBy[c]) <= 1
    BY DEF LinkIsWanted, CodesAreFresh
  <2>1. CASE usedBy[c] = {}
    BY <2>1, FS_EmptySet
  <2>2. CASE \E t \in Accounts : usedBy[c] = {t}
    BY <2>2, FS_Singleton
  <2> QED
    BY <2>1, <2>2 DEF CodesAreFresh
<1> QED
  BY <1>1, <1>2, RedeemStep, FreshStep, MembersTyped, PTL DEF MemberSpec

(***************************************************************************)
(* SUGGESTIONS.                                                            *)
(***************************************************************************)

Serving == <<now, sent, checking, nonces, served>>

\* The part of BudgetTypeOK about signatures and nonces.
ServingTypeOK ==
  /\ now \in Nat
  /\ sent \in [Attempts -> [stamp : Int, preview : Previews \cup {NoPreview},
                            size : Nat]]
  /\ checking \in SUBSET [attempt : Attempts, at : Nat]
  /\ nonces \in [Attempts -> Nat]
  /\ served \in [Attempts -> Nat]

\* A signer's clock is at most Skew ahead.
StampsAreNear ==
  \A a \in Attempts : sent[a] # NotSent => sent[a].stamp <= now + Skew

\* A check was made while the signature was fresh, not long ago.
ChecksAreRecent ==
  \A c \in checking :
    /\ sent[c.attempt] # NotSent
    /\ sent[c.attempt].stamp <= c.at + Skew
    /\ c.at <= sent[c.attempt].stamp + Window
    /\ now <= c.at + ClaimDelay

\* When no check of a request can be about to claim its nonce any more.
Settled(a, t) == sent[a].stamp + Window + ClaimDelay < t

\* The nonce of a request that was served outlives its checks.
NonceOutlives ==
  \A a \in Attempts :
    \/ served[a] = 0
    \/ /\ served[a] = 1 /\ sent[a] # NotSent
       /\ Settled(a, nonces[a]) \/ Settled(a, now)

SIInv == ServingTypeOK /\ StampsAreNear /\ ChecksAreRecent /\ NonceOutlives

LEMMA ServingInit == BudgetInit => SIInv
  BY DEF BudgetInit, SIInv, ServingTypeOK, StampsAreNear, ChecksAreRecent,
         NonceOutlives, NotSent

LEMMA Bounds ==
  /\ {Window, KeepFor, Skew, ClaimDelay} \subseteq Nat
  /\ KeepFor >= 2 * Window /\ Skew + ClaimDelay < Window
  BY BudgetAssumption

LEMMA TickKeeps == ASSUME SIInv, Tick PROVE SIInv'
<1>1. /\ now' = now + 1 /\ now \in Nat /\ UNCHANGED <<sent, checking, nonces, served>>
      /\ \A c \in checking : now < c.at + ClaimDelay
  BY DEF Tick, SIInv, ServingTypeOK
<1>2. /\ \A a \in Attempts : sent[a].stamp \in Int /\ nonces[a] \in Nat
      /\ \A c \in checking : c.attempt \in Attempts /\ c.at \in Nat
  BY DEF SIInv, ServingTypeOK
<1>3. ServingTypeOK' /\ StampsAreNear'
  BY <1>1, <1>2, Bounds DEF SIInv, ServingTypeOK, StampsAreNear
<1>4. ChecksAreRecent'
  BY <1>1, <1>2, Bounds DEF SIInv, ChecksAreRecent
<1>5. NonceOutlives'
  BY <1>1, <1>2, Bounds DEF SIInv, NonceOutlives, Settled
<1> QED
  BY <1>3, <1>4, <1>5 DEF SIInv

LEMMA SignKeeps ==
  ASSUME SIInv, NEW a \in Attempts, NEW b \in Previews, NEW n \in Sizes,
         NEW skew \in (-Skew) .. Skew, SignRequest(a, b, n, skew)
  PROVE  SIInv'
<1>1. /\ sent[a] = NotSent /\ UNCHANGED <<now, checking, nonces, served>>
      /\ sent' = [sent EXCEPT ![a] = [stamp |-> now + skew, preview |-> b, size |-> n]]
  BY DEF SignRequest
<1>2. Skew \in Nat /\ skew \in Int /\ skew <= Skew /\ n \in Nat /\ now \in Nat
  BY BudgetAssumption DEF SIInv, ServingTypeOK
<1>3. ServingTypeOK'
  BY <1>1, <1>2 DEF SIInv, ServingTypeOK
<1>4. served[a] = 0 /\ \A c \in checking : c.attempt \in Attempts \ {a}
  BY <1>1 DEF SIInv, ServingTypeOK, ChecksAreRecent, NonceOutlives
<1>5. /\ \A x \in Attempts \ {a} : sent'[x] = sent[x]
      /\ sent'[a].stamp = now + skew
  BY <1>1 DEF SIInv, ServingTypeOK
<1>6. StampsAreNear'
  BY <1>1, <1>2, <1>5 DEF SIInv, StampsAreNear
<1>7. ChecksAreRecent'
  BY <1>1, <1>4, <1>5 DEF SIInv, ChecksAreRecent, NotSent
<1>8. NonceOutlives'
  BY <1>1, <1>4, <1>5 DEF SIInv, NonceOutlives, Settled, NotSent
<1> QED
  BY <1>3, <1>6, <1>7, <1>8 DEF SIInv

LEMMA CheckKeeps ==
  ASSUME SIInv, NEW a \in Attempts, CheckAge(a)
  PROVE  SIInv'
<1>1. /\ checking' = checking \cup {[attempt |-> a, at |-> now]}
      /\ Fresh(a) /\ UNCHANGED <<now, sent, nonces, served>>
  BY DEF CheckAge
<1>2. now \in Nat /\ sent[a].stamp \in Int
  BY DEF SIInv, ServingTypeOK
<1>3. ServingTypeOK' /\ StampsAreNear'
  BY <1>1, <1>2 DEF SIInv, ServingTypeOK, StampsAreNear
<1>4. /\ sent[a] # NotSent /\ sent[a].stamp <= now + Skew
      /\ now <= sent[a].stamp + Window /\ now <= now + ClaimDelay
  BY <1>1, <1>2, Bounds DEF Fresh, SIInv, StampsAreNear
<1>5. ChecksAreRecent'
  BY <1>1, <1>4 DEF SIInv, ChecksAreRecent
<1>6. NonceOutlives'
  BY <1>1 DEF SIInv, NonceOutlives, Settled
<1> QED
  BY <1>3, <1>5, <1>6 DEF SIInv

LEMMA ClaimKeeps ==
  ASSUME SIInv, NEW c \in checking, ClaimNonce(c)
  PROVE  SIInv'
<1> DEFINE a == c.attempt
<1>1. /\ nonces[a] <= now /\ UNCHANGED <<now, sent>>
      /\ checking' \subseteq checking
      /\ served' = [served EXCEPT ![a] = @ + 1]
      /\ nonces' = Claimed(c)
  BY DEF ClaimNonce
<1>2. /\ a \in Attempts /\ c.at \in Nat /\ now \in Nat
      /\ \A x \in Attempts : sent[x].stamp \in Int /\ nonces[x] \in Nat
  BY DEF SIInv, ServingTypeOK
<1>3. nonces'[a] = c.at + KeepFor
  BY <1>1, <1>2 DEF Claimed, Expiry
<1>4. \A x \in Attempts \ {a} :
        /\ served'[x] = served[x]
        /\ nonces'[x] = nonces[x] \/ nonces[x] <= now
  BY <1>1, <1>2 DEF SIInv, ServingTypeOK, Claimed
<1>5. ServingTypeOK'
  BY <1>1, <1>2, Bounds DEF SIInv, ServingTypeOK, Claimed, Expiry
<1>6. /\ sent[a] # NotSent /\ sent[a].stamp <= c.at + Skew
      /\ c.at <= sent[a].stamp + Window /\ now <= c.at + ClaimDelay
  BY DEF SIInv, ChecksAreRecent
<1>7. ~Settled(a, now)
  BY <1>2, <1>6, Bounds DEF Settled
<1>8. served[a] = 0
  BY <1>1, <1>2, <1>7, Bounds DEF SIInv, NonceOutlives, Settled
<1>9. served'[a] = 1
  BY <1>1, <1>2, <1>8 DEF SIInv, ServingTypeOK
<1>10. sent[a].stamp + Window + ClaimDelay < nonces'[a]
  BY <1>2, <1>3, <1>6, Bounds
<1>11. NonceOutlives'
  <2> SUFFICES ASSUME NEW x \in Attempts, served'[x] # 0
               PROVE  /\ served'[x] = 1 /\ sent'[x] # NotSent
                      /\ Settled(x, nonces[x])' \/ Settled(x, now)'
    BY DEF NonceOutlives
  <2>1. CASE x = a
    BY <1>1, <1>6, <1>9, <1>10, <2>1 DEF Settled
  <2>2. CASE x # a
    <3>1. /\ served[x] = 1 /\ sent[x] # NotSent
          /\ Settled(x, nonces[x]) \/ Settled(x, now)
      BY <1>4, <2>2 DEF SIInv, NonceOutlives
    <3>2. Settled(x, nonces'[x]) \/ Settled(x, now)
      BY <1>2, <1>4, <2>2, <3>1, Bounds DEF Settled
    <3> QED
      BY <1>1, <1>4, <2>2, <3>1, <3>2 DEF Settled
  <2> QED
    BY <2>1, <2>2
<1>12. StampsAreNear' /\ ChecksAreRecent'
  BY <1>1 DEF SIInv, StampsAreNear, ChecksAreRecent
<1> QED
  BY <1>5, <1>11, <1>12 DEF SIInv

LEMMA DropKeeps ==
  ASSUME SIInv, NEW c \in checking, DropCheck(c)
  PROVE  SIInv'
<1>1. checking' \subseteq checking /\ UNCHANGED <<now, sent, nonces, served>>
  BY DEF DropCheck
<1> QED
  BY <1>1 DEF SIInv, ServingTypeOK, StampsAreNear, ChecksAreRecent, NonceOutlives,
              Settled

LEMMA ServingStep == SIInv /\ [BudgetNext]_budgetVars => SIInv'
<1> SUFFICES ASSUME SIInv, [BudgetNext]_budgetVars PROVE SIInv'
  OBVIOUS
<1>1. CASE UNCHANGED Serving
  BY <1>1 DEF Serving, SIInv, ServingTypeOK, StampsAreNear, ChecksAreRecent,
              NonceOutlives, Settled
<1> QED
  BY <1>1, TickKeeps, SignKeeps, CheckKeeps, ClaimKeeps, DropKeeps
  DEF BudgetNext, ServeRequests, budgetVars, Serving, EndJob, BeginReservation,
      LockDay, CommitReservation, AbortReservation, BuySuggestions

\* A signed request is worked on at most once, however late and often it
\* arrives: its nonce is deleted only when its signature is no longer fresh.
THEOREM RequestServedOnce == BudgetSpec => []ServedOnce
<1>1. SIInv => ServedOnce
  BY DEF SIInv, NonceOutlives, ServedOnce
<1> QED
  BY <1>1, ServingInit, ServingStep, PTL DEF BudgetSpec

------------------------------------------------------------------------
(***************************************************************************)
(* What is paid for.  The inductive invariant follows the items from the   *)
(* reservation to the purchase: what a job may buy is in its row of usage, *)
(* a day's row is the sum of the rows of that day, and while a reservation *)
(* holds the day's row it has seen all that its preview got on that day.   *)
(***************************************************************************)
Reserved == {a \in Attempts : usage[a] # NoUsage}

ItemsOf(S) == SumFunctionOnSet(Items, S)

\* What the preview of r got on the day of r.
SameDay(r) == {a \in Attempts : /\ usage[a].preview = sent[r.attempt].preview
                                /\ usage[a].day = r.day}

RowsTypeOK ==
  /\ now <= LastTick
  /\ jobs \in SUBSET Job
  /\ reserving \in SUBSET Reservation
  /\ usage \in [Attempts -> [preview : Previews \cup {NoPreview},
                             day : 0 .. LastDay, items : Nat]]
  /\ daily \in [0 .. LastDay -> Nat]
  /\ bought \in [Attempts -> Nat]

\* Rows are of requests that were signed; an attempt has one transaction at a
\* time, and none once it has a row.
RowsInv ==
  /\ IsFiniteSet(Reserved)
  /\ \A a \in Attempts : sent[a] # NotSent => sent[a].preview \in Previews
  /\ \A a \in Reserved : usage[a].preview \in Previews
  /\ \A j \in jobs : sent[j.attempt] # NotSent
  /\ \A r \in reserving : sent[r.attempt] # NotSent /\ r.attempt \notin Reserved
  /\ \A r, q \in reserving : r.attempt = q.attempt => r = q

\* A purchase is made once, of what the row allows.
BoughtInv ==
  /\ \A a \in Attempts : bought[a] <= usage[a].items
  /\ \A j \in jobs : j.step = "allowed" => /\ j.attempt \in Reserved
                                           /\ j.allowed = usage[j.attempt].items
                                           /\ bought[j.attempt] = 0

DayInv ==
  \A d \in 0 .. LastDay : /\ ItemsOf(ReservedOn(d)) = daily[d]
                          /\ daily[d] <= DayMax

LockInv ==
  /\ \A r, q \in reserving :
       r.step = "locked" /\ q.step = "locked" /\ r.day = q.day => r = q
  /\ \A r \in reserving : r.step = "locked" => ItemsOf(SameDay(r)) <= r.preview

PreviewInv ==
  \A b \in Previews : \/ ItemsOf(ReservedIn(b)) <= PreviewMax
                      \/ \E a, x \in ReservedIn(b) : usage[a].day # usage[x].day

BudgetInv == /\ SIInv /\ RowsTypeOK /\ RowsInv /\ BoughtInv
             /\ DayInv /\ LockInv /\ PreviewInv

LEMMA Limits ==
  /\ DayMax \in Nat /\ PreviewMax \in Nat /\ NoPreview \notin Previews
  /\ Sizes \subseteq Nat
  BY BudgetAssumption

\* A moment of the clock is on a day of it.
LEMMA DayOfNow ==
  ASSUME NEW t \in Nat, t <= LastTick
  PROVE  DayOf(t) \in 0 .. LastDay
<1>1. DayLength \in Nat \ {0} /\ LastTick \in Nat
  BY BudgetAssumption
<1>2. t \div DayLength \in Int /\ LastTick \div DayLength \in Int
  BY <1>1
<1>3. 0 <= t \div DayLength
  BY <1>1
<1>4. t \div DayLength <= LastTick \div DayLength
  BY <1>1
<1> QED
  BY <1>2, <1>3, <1>4 DEF DayOf, LastDay

\* Every set of rows a property sums is finite, and its items are naturals.
LEMMA RowsAreFinite ==
  ASSUME RowsTypeOK, RowsInv
  PROVE  /\ \A d : ReservedOn(d) \in SUBSET Reserved
         /\ \A b \in Previews : ReservedIn(b) \in SUBSET Reserved
         /\ \A r \in reserving : SameDay(r) \in SUBSET Reserved
         /\ \A S \in SUBSET Reserved : IsFiniteSet(S) /\ ItemsOf(S) \in Nat
         /\ \A a \in Attempts : Items[a] = usage[a].items /\ Items[a] \in Nat
<1>1. \A a \in Attempts : Items[a] = usage[a].items /\ Items[a] \in Nat
  BY DEF Items, RowsTypeOK
<1>2. \A a \in Attempts : usage[a].preview \in Previews => a \in Reserved
  BY Limits DEF Reserved, NoUsage
<1>3. \A r \in reserving : sent[r.attempt].preview \in Previews
  BY DEF RowsInv, RowsTypeOK, Reservation
<1>4. ASSUME NEW S \in SUBSET Reserved PROVE IsFiniteSet(S) /\ ItemsOf(S) \in Nat
  <2>1. IsFiniteSet(S)
    BY FS_Subset DEF RowsInv
  <2>2. \A a \in S : Items[a] \in Nat
    BY <1>1 DEF Reserved
  <2> QED
    BY <2>1, <2>2, SumNat DEF ItemsOf
<1> QED
  BY <1>1, <1>2, <1>3, <1>4 DEF ReservedOn, ReservedIn, SameDay, Reserved

LEMMA BudgetStart == BudgetInit => BudgetInv
<1> SUFFICES ASSUME BudgetInit PROVE BudgetInv
  OBVIOUS
<1>1. Reserved = {} /\ \A a \in Attempts : usage[a] = NoUsage
  BY DEF BudgetInit, Reserved
<1>2. IsFiniteSet({})
  BY FS_EmptySet
<1>3. RowsTypeOK
  <2>1. DayOf(0) \in 0 .. LastDay /\ LastTick \in Nat
    BY BudgetAssumption, DayOfNow
  <2>2. 0 \in 0 .. LastDay
    <3>1. 0 \div DayLength = 0
      BY BudgetAssumption
    <3> QED
      BY <2>1, <3>1 DEF DayOf
  <2> QED
    BY <2>1, <2>2 DEF BudgetInit, RowsTypeOK, NoUsage
<1>4. RowsInv /\ BoughtInv /\ LockInv
  BY <1>1, <1>2 DEF BudgetInit, RowsInv, BoughtInv, LockInv, NoUsage
<1>5. DayInv
  <2>1. \A d : ReservedOn(d) = {}
    BY <1>1 DEF ReservedOn
  <2>2. ItemsOf({}) = 0
    BY SumOfNone DEF ItemsOf
  <2> QED
    BY <2>1, <2>2, Limits DEF BudgetInit, DayInv
<1>6. PreviewInv
  <2>1. \A b \in Previews : ReservedIn(b) = {}
    BY <1>1, Limits DEF ReservedIn, NoUsage
  <2>2. ItemsOf({}) = 0
    BY SumOfNone DEF ItemsOf
  <2> QED
    BY <2>1, <2>2, Limits DEF PreviewInv
<1> QED
  BY <1>3, <1>4, <1>5, <1>6, ServingInit DEF BudgetInv

\* The two sums are about the rows alone.
LEMMA TotalsKept ==
  ASSUME DayInv, PreviewInv, UNCHANGED <<usage, daily>>
  PROVE  DayInv' /\ PreviewInv'
<1>1. /\ \A S : ItemsOf(S)' = ItemsOf(S)
      /\ \A d : ReservedOn(d)' = ReservedOn(d)
      /\ \A b : ReservedIn(b)' = ReservedIn(b)
  BY DEF ItemsOf, Items, ReservedOn, ReservedIn
<1> QED
  BY <1>1 DEF DayInv, PreviewInv

\* Signing, sending and accepting: a job may be added.
LEMMA ServingKeepsRows ==
  ASSUME BudgetInv, UNCHANGED <<reserving, usage, daily, bought>>, now' <= LastTick,
         \A a \in Attempts : \/ sent'[a] = sent[a]
                             \/ sent[a] = NotSent /\ sent'[a].preview \in Previews,
         jobs' \in SUBSET Job,
         \A j \in jobs' \ jobs : j.step = "new" /\ sent[j.attempt] # NotSent
  PROVE  RowsTypeOK' /\ RowsInv' /\ BoughtInv' /\ DayInv' /\ LockInv' /\ PreviewInv'
<1> USE DEF BudgetInv
<1>1. Reserved' = Reserved /\ \A S : ItemsOf(S)' = ItemsOf(S)
  BY DEF Reserved, ItemsOf, Items
<1>2. /\ \A a \in Attempts : sent[a] # NotSent => sent'[a] = sent[a]
      /\ \A j \in jobs : j.attempt \in Attempts
      /\ \A j \in jobs' : j.attempt \in Attempts
      /\ \A r \in reserving : r.attempt \in Attempts
  BY DEF RowsTypeOK, Job, Reservation
<1>3. RowsTypeOK'
  BY DEF RowsTypeOK
<1>4. RowsInv'
  BY <1>1, <1>2 DEF RowsInv
<1>5. BoughtInv'
  BY <1>1 DEF BoughtInv
<1>6. LockInv'
  <2>1. \A r \in reserving : sent'[r.attempt] = sent[r.attempt]
    BY <1>2 DEF RowsInv
  <2>2. \A r \in reserving : SameDay(r)' = SameDay(r)
    BY <2>1 DEF SameDay
  <2> QED
    BY <1>1, <2>2 DEF LockInv
<1> QED
  BY <1>3, <1>4, <1>5, <1>6, TotalsKept

LEMMA RequestsKeepRows ==
  ASSUME BudgetInv,
         \/ Tick
         \/ \E a \in Attempts, b \in Previews, n \in Sizes, skew \in (-Skew) .. Skew :
              SignRequest(a, b, n, skew)
         \/ \E a \in Attempts : CheckAge(a)
         \/ \E c \in checking : ClaimNonce(c) \/ DropCheck(c)
         \/ UNCHANGED budgetVars
  PROVE  RowsTypeOK' /\ RowsInv' /\ BoughtInv' /\ DayInv' /\ LockInv' /\ PreviewInv'
<1> USE DEF BudgetInv
<1>0. /\ now <= LastTick /\ jobs \in SUBSET Job /\ now \in Nat /\ LastTick \in Nat
      /\ sent = [a \in Attempts |-> sent[a]]
  BY BudgetAssumption DEF RowsTypeOK, SIInv, ServingTypeOK
<1>1. CASE Tick
  <2>1. /\ now' <= LastTick
        /\ UNCHANGED <<sent, jobs, reserving, usage, daily, bought>>
    BY <1>0, <1>1 DEF Tick
  <2> QED
    BY <1>0, <2>1, ServingKeepsRows
<1>2. ASSUME NEW a \in Attempts, NEW b \in Previews, NEW n \in Sizes,
             NEW skew \in (-Skew) .. Skew, SignRequest(a, b, n, skew)
      PROVE  RowsTypeOK' /\ RowsInv' /\ BoughtInv' /\ DayInv' /\ LockInv' /\ PreviewInv'
  <2>1. /\ UNCHANGED <<now, jobs, reserving, usage, daily, bought>>
        /\ sent[a] = NotSent
        /\ sent' = [sent EXCEPT ![a] =
                      [stamp |-> now + skew, preview |-> b, size |-> n]]
    BY <1>2 DEF SignRequest
  <2>2. /\ sent'[a].preview = b
        /\ \A x \in Attempts \ {a} : sent'[x] = sent[x]
    BY <1>0, <2>1
  <2> QED
    BY <1>0, <2>1, <2>2, ServingKeepsRows
<1>3. CASE (\E a \in Attempts : CheckAge(a)) \/ (\E c \in checking : DropCheck(c))
           \/ UNCHANGED budgetVars
  <2>1. UNCHANGED <<now, sent, jobs, reserving, usage, daily, bought>>
    BY <1>3 DEF CheckAge, DropCheck, budgetVars
  <2> QED
    BY <1>0, <2>1, ServingKeepsRows
<1>4. ASSUME NEW c \in checking, ClaimNonce(c)
      PROVE  RowsTypeOK' /\ RowsInv' /\ BoughtInv' /\ DayInv' /\ LockInv' /\ PreviewInv'
  <2> DEFINE j == [attempt |-> c.attempt, step |-> "new", allowed |-> 0]
  <2>1. /\ UNCHANGED <<now, sent, reserving, usage, daily, bought>>
        /\ jobs' \in {jobs, jobs \cup {j}}
    BY <1>4 DEF ClaimNonce
  <2>2. c.attempt \in Attempts /\ sent[c.attempt] # NotSent
    BY DEF SIInv, ServingTypeOK, ChecksAreRecent
  <2>3. j \in Job /\ j.step = "new" /\ sent[j.attempt] # NotSent
    BY <2>2 DEF Job
  <2> HIDE DEF j
  <2> QED
    BY <1>0, <2>1, <2>3, ServingKeepsRows
<1> QED
  BY <1>1, <1>2, <1>3, <1>4

\* A job ends, or goes on to ask: nothing is added to what jobs may buy.
LEMMA JobsKeepRows ==
  ASSUME BudgetInv, NEW j \in jobs, EndJob(j)
  PROVE  RowsTypeOK' /\ RowsInv' /\ BoughtInv' /\ DayInv' /\ LockInv' /\ PreviewInv'
<1>1. /\ UNCHANGED <<now, sent, reserving, usage, daily, bought>>
      /\ jobs' \subseteq jobs
  BY DEF EndJob
<1> QED
  BY <1>1, ServingKeepsRows DEF BudgetInv, RowsTypeOK

LEMMA BeginKeepsRows ==
  ASSUME BudgetInv, NEW j \in jobs, BeginReservation(j)
  PROVE  RowsTypeOK' /\ RowsInv' /\ BoughtInv' /\ DayInv' /\ LockInv' /\ PreviewInv'
<1> USE DEF BudgetInv
<1> DEFINE r == [attempt |-> j.attempt, day |-> DayOf(now), step |-> "begun",
                 daily |-> 0, preview |-> 0]
           k == [j EXCEPT !.step = "asking"]
<1>1. /\ UNCHANGED <<now, sent, usage, daily, bought>>
      /\ \A q \in reserving : q.attempt # j.attempt
      /\ usage[j.attempt] = NoUsage
      /\ reserving' = reserving \cup {r}
      /\ jobs' = (jobs \ {j}) \cup {k}
  BY DEF BeginReservation
<1>2. /\ j \in Job /\ j.attempt \in Attempts /\ sent[j.attempt] # NotSent
      /\ k \in Job /\ k.step = "asking" /\ k.attempt = j.attempt
  BY DEF RowsTypeOK, RowsInv, Job
<1>3. r \in Reservation /\ r.attempt = j.attempt /\ r.step = "begun"
  <2>1. now \in Nat /\ now <= LastTick
    BY DEF SIInv, ServingTypeOK, RowsTypeOK
  <2>2. DayOf(now) \in 0 .. LastDay
    BY <2>1, DayOfNow
  <2> QED
    BY <1>2, <2>2 DEF Reservation
<1> HIDE DEF r, k
<1>4. /\ Reserved' = Reserved /\ \A S : ItemsOf(S)' = ItemsOf(S)
      /\ \A q : SameDay(q)' = SameDay(q)
  BY <1>1 DEF Reserved, ItemsOf, Items, SameDay
<1>5. RowsTypeOK'
  BY <1>1, <1>2, <1>3 DEF RowsTypeOK
<1>6. RowsInv'
  <2>1. j.attempt \notin Reserved
    BY <1>1 DEF Reserved
  <2> QED
    BY <1>1, <1>2, <1>3, <1>4, <2>1 DEF RowsInv
<1>7. BoughtInv'
  BY <1>1, <1>2, <1>4 DEF BoughtInv
<1>8. LockInv'
  BY <1>1, <1>3, <1>4 DEF LockInv
<1> QED
  BY <1>1, <1>5, <1>6, <1>7, <1>8, TotalsKept

\* Reading under the lock: the sum of the preview is at least what it got today.
LEMMA LockKeepsRows ==
  ASSUME BudgetInv, NEW r \in reserving, LockDay(r)
  PROVE  RowsTypeOK' /\ RowsInv' /\ BoughtInv' /\ DayInv' /\ LockInv' /\ PreviewInv'
<1> USE DEF BudgetInv
<1> DEFINE seen == ReservedFor(sent[r.attempt].preview, r.attempt)
           q == [r EXCEPT !.step = "locked", !.daily = daily[r.day], !.preview = seen]
<1>1. /\ UNCHANGED <<now, sent, jobs, usage, daily, bought>>
      /\ r.step = "begun" /\ ~DayLocked(r.day)
      /\ reserving' = (reserving \ {r}) \cup {q}
  BY DEF LockDay
<1>2. r \in Reservation /\ r.attempt \in Attempts /\ r.attempt \notin Reserved
  BY DEF RowsTypeOK, RowsInv, Reservation
<1> DEFINE b == sent[r.attempt].preview
<1>3. b \in Previews
  BY <1>2 DEF RowsInv
<1>4. seen = ItemsOf(ReservedIn(b)) /\ seen \in Nat
  <2>1. {a \in Attempts : usage[a].preview = b /\ a # r.attempt} = ReservedIn(b)
    <3>1. usage[r.attempt].preview # b
      BY <1>2, <1>3, Limits DEF Reserved, NoUsage
    <3> QED
      BY <3>1 DEF ReservedIn
  <2>2. ItemsOf(ReservedIn(b)) \in Nat
    BY <1>3, RowsAreFinite
  <2> QED
    BY <2>1, <2>2 DEF ReservedFor, ItemsOf
<1>5. ItemsOf(SameDay(r)) <= seen
  <2>1. SameDay(r) \in SUBSET ReservedIn(b)
    BY DEF SameDay, ReservedIn
  <2>2. /\ IsFiniteSet(ReservedIn(b))
        /\ \A a \in ReservedIn(b) : Items[a] \in Nat
    BY <1>3, RowsAreFinite DEF ReservedIn
  <2>3. ItemsOf(SameDay(r)) <= ItemsOf(ReservedIn(b))
    BY <2>1, <2>2, SumOfSubset DEF ItemsOf
  <2> QED
    BY <1>4, <2>3
<1>6. /\ q \in Reservation /\ q.attempt = r.attempt /\ q.day = r.day
      /\ q.step = "locked" /\ q.preview = seen
  <2>1. daily[r.day] \in Nat
    BY <1>2 DEF RowsTypeOK, Reservation
  <2> HIDE DEF seen
  <2> QED
    BY <1>2, <1>4, <2>1 DEF Reservation
<1> HIDE DEF q, seen
<1>7. /\ Reserved' = Reserved /\ \A S : ItemsOf(S)' = ItemsOf(S)
      /\ \A x : SameDay(x)' = SameDay(x)
  BY <1>1 DEF Reserved, ItemsOf, Items, SameDay
<1>8. RowsTypeOK'
  BY <1>1, <1>6 DEF RowsTypeOK
<1>9. RowsInv' /\ BoughtInv'
  BY <1>1, <1>2, <1>6, <1>7 DEF RowsInv, BoughtInv
<1>10. LockInv'
  <2>1. SameDay(q) = SameDay(r)
    BY <1>6 DEF SameDay
  <2>2. \A x \in reserving : ~(x.step = "locked" /\ x.day = r.day)
    BY <1>1 DEF DayLocked
  <2> QED
    BY <1>1, <1>5, <1>6, <1>7, <2>1, <2>2 DEF LockInv
<1> QED
  BY <1>1, <1>8, <1>9, <1>10, TotalsKept

LEMMA AbortKeepsRows ==
  ASSUME BudgetInv, NEW r \in reserving, AbortReservation(r)
  PROVE  RowsTypeOK' /\ RowsInv' /\ BoughtInv' /\ DayInv' /\ LockInv' /\ PreviewInv'
<1> USE DEF BudgetInv
<1>1. /\ UNCHANGED <<now, sent, usage, daily, bought>>
      /\ reserving' \subseteq reserving /\ jobs' \subseteq jobs
  BY DEF AbortReservation
<1>2. /\ Reserved' = Reserved /\ \A S : ItemsOf(S)' = ItemsOf(S)
      /\ \A x : SameDay(x)' = SameDay(x)
  BY <1>1 DEF Reserved, ItemsOf, Items, SameDay
<1>3. RowsTypeOK' /\ RowsInv' /\ BoughtInv' /\ LockInv'
  BY <1>1, <1>2 DEF RowsTypeOK, RowsInv, BoughtInv, LockInv
<1> QED
  BY <1>1, <1>3, TotalsKept

LEMMA BuyKeepsRows ==
  ASSUME BudgetInv, NEW j \in jobs, BuySuggestions(j)
  PROVE  RowsTypeOK' /\ RowsInv' /\ BoughtInv' /\ DayInv' /\ LockInv' /\ PreviewInv'
<1> USE DEF BudgetInv
<1>1. /\ UNCHANGED <<now, sent, reserving, usage, daily>>
      /\ j.step = "allowed"
      /\ bought' = [bought EXCEPT ![j.attempt] = @ + j.allowed]
      /\ jobs' = jobs \ {j}
  BY DEF BuySuggestions
<1>2. /\ Reserved' = Reserved /\ \A S : ItemsOf(S)' = ItemsOf(S)
      /\ \A x : SameDay(x)' = SameDay(x)
  BY <1>1 DEF Reserved, ItemsOf, Items, SameDay
<1>3. /\ j \in Job /\ j.attempt \in Attempts /\ j.allowed \in Nat
      /\ j.allowed = usage[j.attempt].items /\ bought[j.attempt] = 0
  BY <1>1 DEF RowsTypeOK, BoughtInv, Job
<1>4. /\ bought'[j.attempt] = usage[j.attempt].items
      /\ \A a \in Attempts \ {j.attempt} : bought'[a] = bought[a]
      /\ bought' \in [Attempts -> Nat]
  BY <1>1, <1>3 DEF RowsTypeOK
<1>5. RowsTypeOK' /\ RowsInv' /\ LockInv'
  BY <1>1, <1>2, <1>4 DEF RowsTypeOK, RowsInv, LockInv
<1>6. BoughtInv'
  <2>1. \A a \in Attempts : bought'[a] <= usage'[a].items
    BY <1>1, <1>4 DEF BoughtInv, RowsTypeOK
  <2>2. ASSUME NEW k \in jobs', k.step = "allowed"
        PROVE  k.attempt \in Reserved /\ k.allowed = usage[k.attempt].items
               /\ bought'[k.attempt] = 0
    <3>1. k \in jobs /\ k # j /\ k \in Job /\ j \in Job
      BY <1>1 DEF RowsTypeOK
    <3>2. /\ k.attempt \in Reserved /\ k.allowed = usage[k.attempt].items
          /\ bought[k.attempt] = 0
      BY <2>2, <3>1 DEF BoughtInv
    <3>3. k.attempt # j.attempt
      BY <1>1, <1>3, <2>2, <3>1, <3>2 DEF Job
    <3> QED
      BY <1>4, <3>1, <3>2, <3>3 DEF Job
  <2> QED
    BY <1>1, <1>2, <2>1, <2>2 DEF BoughtInv
<1> QED
  BY <1>1, <1>5, <1>6, TotalsKept

\* The reservation gets its row: the day's sum and the day's row grow by the
\* same, and the preview's sum within what was left when it was read.
LEMMA CommitKeepsRows ==
  ASSUME BudgetInv, NEW r \in reserving, CommitReservation(r)
  PROVE  RowsTypeOK' /\ RowsInv' /\ BoughtInv' /\ DayInv' /\ LockInv' /\ PreviewInv'
<1> USE DEF BudgetInv
<1> DEFINE a == r.attempt
           b == sent[a].preview
           n == Allowed(r)
           row == [preview |-> b, day |-> r.day, items |-> n]
<1>1. /\ UNCHANGED <<now, sent, bought>>
      /\ r.step = "locked" /\ daily[r.day] + n <= DayMax
      /\ reserving' = reserving \ {r}
      /\ daily' = [daily EXCEPT ![r.day] = @ + n]
      /\ usage' = [usage EXCEPT ![a] = row]
      /\ jobs' = Answered(r)
  BY DEF CommitReservation
<1>2. /\ r \in Reservation /\ a \in Attempts /\ a \notin Reserved
      /\ r.day \in 0 .. LastDay /\ r.daily \in Nat /\ r.preview \in Nat
      /\ b \in Previews /\ usage[a] = NoUsage
  BY DEF RowsTypeOK, RowsInv, Reservation, Reserved
<1>3. /\ n \in Nat
      /\ n <= IF r.preview < PreviewMax THEN PreviewMax - r.preview ELSE 0
  <2>1. sent[a].size \in Nat
    BY <1>2 DEF SIInv, ServingTypeOK
  <2> QED
    BY <1>2, <2>1, Limits DEF Allowed, Smaller, Left
<1> HIDE DEF n
<1>4. /\ usage'[a] = row
      /\ \A x \in Attempts \ {a} : usage'[x] = usage[x]
      /\ row # NoUsage
  BY <1>1, <1>2, Limits DEF RowsTypeOK, NoUsage
<1>5. Reserved' = Reserved \cup {a}
  BY <1>2, <1>4 DEF Reserved
<1>6. /\ \A x \in Attempts : /\ Items'[x] = usage'[x].items
                             /\ Items'[x] \in Nat
      /\ Items'[a] = n
      /\ \A x \in Attempts \ {a} : Items'[x] = Items[x]
  <2>1. \A x \in Attempts : Items[x] = usage[x].items /\ Items[x] \in Nat
    BY RowsAreFinite
  <2>2. \A x \in Attempts : Items'[x] = usage'[x].items
    BY DEF Items
  <2> QED
    BY <1>2, <1>3, <1>4, <2>1, <2>2
<1>7. \A S \in SUBSET Reserved : /\ ItemsOf(S) \in Nat
                                 /\ ItemsOf(S)' = ItemsOf(S)
                                 /\ ItemsOf(S \cup {a})' = n + ItemsOf(S)
  <2> SUFFICES ASSUME NEW S \in SUBSET Reserved
               PROVE  /\ ItemsOf(S) \in Nat
                      /\ SumFunctionOnSet(Items', S) = SumFunctionOnSet(Items, S)
                      /\ SumFunctionOnSet(Items', S \cup {a})
                           = n + SumFunctionOnSet(Items, S)
    BY DEF ItemsOf
  <2>1. IsFiniteSet(S) /\ ItemsOf(S) \in Nat /\ a \notin S
    BY <1>2, RowsAreFinite
  <2>2. \A x \in S : Items[x] \in Int /\ Items'[x] = Items[x]
    BY <1>6, <2>1, RowsAreFinite DEF Reserved
  <2>3. SumFunctionOnSet(Items', S) = SumFunctionOnSet(Items, S)
    BY <2>1, <2>2, SumOfSame
  <2>4. \A x \in S \cup {a} : Items'[x] \in Int
    BY <1>2, <1>6 DEF Reserved
  <2>5. SumFunctionOnSet(Items', S \cup {a}) = Items'[a] + SumFunctionOnSet(Items', S)
    BY <2>1, <2>4, SumWith
  <2> QED
    BY <1>6, <2>1, <2>3, <2>5
<1>8. RowsTypeOK'
  <2>1. jobs' \in SUBSET Job
    <3> SUFFICES ASSUME NEW j \in jobs
                 PROVE  (IF j.attempt = r.attempt /\ j.step = "asking"
                         THEN [j EXCEPT !.step = "allowed", !.allowed = Allowed(r)]
                         ELSE j) \in Job
      BY <1>1 DEF Answered
    <3>1. j \in Job /\ Allowed(r) \in Nat
      BY <1>3 DEF RowsTypeOK, n
    <3> QED
      BY <3>1 DEF Job
  <2>2. daily' \in [0 .. LastDay -> Nat]
    BY <1>1, <1>2, <1>3 DEF RowsTypeOK
  <2>3. usage' \in [Attempts -> [preview : Previews \cup {NoPreview},
                                 day : 0 .. LastDay, items : Nat]]
    BY <1>1, <1>2, <1>3 DEF RowsTypeOK
  <2> QED
    BY <1>1, <2>1, <2>2, <2>3 DEF RowsTypeOK
<1>9. \A j \in jobs' :
        \/ j \in jobs /\ ~(j.attempt = a /\ j.step = "asking")
        \/ \E k \in jobs : /\ k.attempt = a /\ j.attempt = a
                           /\ j.step = "allowed" /\ j.allowed = n
  <2> SUFFICES ASSUME NEW k \in jobs, k.attempt = a, k.step = "asking",
                      NEW j, j = [k EXCEPT !.step = "allowed", !.allowed = Allowed(r)]
               PROVE  /\ k.attempt = a /\ j.attempt = a
                      /\ j.step = "allowed" /\ j.allowed = n
    BY <1>1 DEF Answered
  <2>1. k \in Job
    BY DEF RowsTypeOK
  <2> QED
    BY <2>1 DEF Job, n
<1>10. RowsInv'
  <2>1. IsFiniteSet(Reserved')
    BY <1>5, FS_AddElement DEF RowsInv
  <2>2. \A x \in Reserved' : usage'[x].preview \in Previews
    BY <1>2, <1>4, <1>5 DEF RowsInv, Reserved
  <2>3. \A j \in jobs' : sent'[j.attempt] # NotSent
    BY <1>1, <1>9 DEF RowsInv
  <2>4. \A q \in reserving' : sent'[q.attempt] # NotSent /\ q.attempt \notin Reserved'
    BY <1>1, <1>5 DEF RowsInv
  <2> QED
    BY <1>1, <2>1, <2>2, <2>3, <2>4 DEF RowsInv
<1>11. BoughtInv'
  <2>1. bought[a] = 0
    BY <1>2 DEF BoughtInv, RowsTypeOK, NoUsage
  <2>2. \A x \in Attempts : bought'[x] <= usage'[x].items
    BY <1>1, <1>2, <1>3, <1>4, <2>1 DEF BoughtInv
  <2>3. ASSUME NEW j \in jobs', j.step = "allowed"
        PROVE  /\ j.attempt \in Reserved' /\ j.allowed = usage'[j.attempt].items
               /\ bought'[j.attempt] = 0
    <3>1. CASE j \in jobs
      <4>1. /\ j.attempt \in Reserved /\ j.allowed = usage[j.attempt].items
            /\ bought[j.attempt] = 0
        BY <2>3, <3>1 DEF BoughtInv
      <4> QED
        BY <1>1, <1>2, <1>4, <1>5, <4>1 DEF Reserved
    <3>2. CASE j.attempt = a /\ j.allowed = n
      BY <1>1, <1>4, <1>5, <2>1, <3>2
    <3> QED
      BY <1>9, <3>1, <3>2
  <2> QED
    BY <2>2, <2>3 DEF BoughtInv
<1>12. DayInv'
  <2> SUFFICES ASSUME NEW d \in 0 .. LastDay
               PROVE  ItemsOf(ReservedOn(d))' = daily'[d] /\ daily'[d] <= DayMax
    BY DEF DayInv
  <2>1. /\ ItemsOf(ReservedOn(d)) = daily[d] /\ daily[d] <= DayMax
        /\ ReservedOn(d) \in SUBSET Reserved
    BY RowsAreFinite DEF DayInv
  <2>2. CASE d = r.day
    <3>1. ReservedOn(d)' = ReservedOn(d) \cup {a}
      BY <1>2, <1>4, <2>2 DEF ReservedOn
    <3>2. ItemsOf(ReservedOn(d))' = n + ItemsOf(ReservedOn(d))
      <4>1. ItemsOf(ReservedOn(d))' = SumFunctionOnSet(Items', ReservedOn(d)')
        BY DEF ItemsOf
      <4>2. SumFunctionOnSet(Items', ReservedOn(d) \cup {a}) = n + ItemsOf(ReservedOn(d))
        BY <1>7, <2>1 DEF ItemsOf
      <4> QED
        BY <3>1, <4>1, <4>2
    <3>3. daily'[d] = daily[d] + n /\ daily[d] \in Nat
      BY <1>1, <1>2, <2>2 DEF RowsTypeOK
    <3> QED
      BY <1>1, <1>3, <2>1, <2>2, <3>2, <3>3
  <2>3. CASE d # r.day
    <3>1. ReservedOn(d)' = ReservedOn(d)
      BY <1>2, <1>4, <2>3 DEF ReservedOn
    <3>2. daily'[d] = daily[d]
      BY <1>1, <2>3 DEF RowsTypeOK
    <3>3. SumFunctionOnSet(Items', ReservedOn(d)) = ItemsOf(ReservedOn(d))
      BY <1>7, <2>1 DEF ItemsOf
    <3> QED
      BY <2>1, <3>1, <3>2, <3>3 DEF ItemsOf
  <2> QED
    BY <2>2, <2>3
<1>13. LockInv'
  <2> SUFFICES ASSUME NEW q \in reserving', q.step = "locked"
               PROVE  SumFunctionOnSet(Items', SameDay(q)') <= q.preview
    BY <1>1 DEF LockInv, ItemsOf
  <2>1. q \in reserving /\ q # r /\ q.day # r.day
    BY <1>1 DEF LockInv
  <2>2. SameDay(q) \in SUBSET Reserved
    BY <2>1, RowsAreFinite
  <2>3. SameDay(q)' = SameDay(q)
    <3>1. a \notin SameDay(q)' /\ a \notin SameDay(q)
      BY <1>2, <1>4, <2>1, <2>2 DEF SameDay
    <3>2. \A x \in Attempts \ {a} : x \in SameDay(q)' <=> x \in SameDay(q)
      BY <1>1, <1>4 DEF SameDay
    <3>3. SameDay(q)' \subseteq Attempts /\ SameDay(q) \subseteq Attempts
      BY DEF SameDay
    <3> QED
      BY <3>1, <3>2, <3>3
  <2>4. SumFunctionOnSet(Items', SameDay(q)) = ItemsOf(SameDay(q))
    BY <1>7, <2>2 DEF ItemsOf
  <2> QED
    BY <2>1, <2>3, <2>4 DEF LockInv
<1>14. PreviewInv'
  <2> SUFFICES ASSUME NEW c \in Previews,
                      \A x, y \in ReservedIn(c)' : usage'[x].day = usage'[y].day
               PROVE  SumFunctionOnSet(Items', ReservedIn(c)') <= PreviewMax
    BY DEF PreviewInv, ItemsOf
  <2>1. ReservedIn(c) \in SUBSET Reserved
    BY RowsAreFinite
  <2>2. ReservedIn(c) \subseteq ReservedIn(c)' /\ a \notin ReservedIn(c)
    BY <1>2, <1>4, <2>1 DEF ReservedIn
  <2>3. \A x \in ReservedIn(c) : usage'[x] = usage[x]
    BY <1>4, <2>2 DEF ReservedIn
  <2>4. ItemsOf(ReservedIn(c)) <= PreviewMax /\ ItemsOf(ReservedIn(c)) \in Nat
    <3>1. \A x, y \in ReservedIn(c) : usage[x].day = usage[y].day
      BY <2>2, <2>3
    <3>2. ItemsOf(ReservedIn(c)) <= PreviewMax
      BY <3>1 DEF PreviewInv
    <3> QED
      BY <1>7, <2>1, <3>2
  <2>5. CASE c # b
    <3>1. ReservedIn(c)' = ReservedIn(c)
      BY <1>2, <1>4, <2>5, Limits DEF ReservedIn, NoUsage
    <3>2. SumFunctionOnSet(Items', ReservedIn(c)) = ItemsOf(ReservedIn(c))
      BY <1>7, <2>1 DEF ItemsOf
    <3> QED
      BY <2>4, <3>1, <3>2
  <2>6. CASE c = b
    <3>1. ReservedIn(c)' = ReservedIn(c) \cup {a}
      BY <1>2, <1>4, <2>6 DEF ReservedIn
    <3>2. SumFunctionOnSet(Items', ReservedIn(c) \cup {a}) = n + ItemsOf(ReservedIn(c))
      BY <1>7, <2>1 DEF ItemsOf
    <3>3. \A x \in ReservedIn(c) : usage[x].day = r.day
      BY <1>4, <2>3, <3>1
    <3>4. ReservedIn(c) = SameDay(r)
      BY <2>6, <3>3 DEF ReservedIn, SameDay
    <3>5. ItemsOf(ReservedIn(c)) <= r.preview
      BY <1>1, <3>4 DEF LockInv
    <3> QED
      BY <1>2, <1>3, <2>4, <3>1, <3>2, <3>5, Limits
  <2> QED
    BY <2>5, <2>6
<1> QED
  BY <1>8, <1>10, <1>11, <1>12, <1>13, <1>14

LEMMA BudgetStep == BudgetInv /\ [BudgetNext]_budgetVars => BudgetInv'
<1> SUFFICES ASSUME BudgetInv, [BudgetNext]_budgetVars PROVE BudgetInv'
  OBVIOUS
<1>1. SIInv'
  BY ServingStep DEF BudgetInv
<1>2. RowsTypeOK' /\ RowsInv' /\ BoughtInv' /\ DayInv' /\ LockInv' /\ PreviewInv'
  BY RequestsKeepRows, JobsKeepRows, BeginKeepsRows, LockKeepsRows, CommitKeepsRows,
     AbortKeepsRows, BuyKeepsRows
  DEF BudgetNext, ServeRequests
<1> QED
  BY <1>1, <1>2 DEF BudgetInv

LEMMA BudgetAlways == BudgetSpec => []BudgetInv
  BY BudgetStart, BudgetStep, PTL DEF BudgetSpec

\* Every variable has its type.
THEOREM BudgetTypeCorrect == BudgetSpec => []BudgetTypeOK
<1>1. BudgetInv => BudgetTypeOK
  BY DEF BudgetInv, SIInv, ServingTypeOK, RowsTypeOK, BudgetTypeOK
<1> QED
  BY <1>1, BudgetAlways, PTL

\* No more is paid for than the limits of the day and the preview allow,
\* whatever runs at once and wherever it stops.
THEOREM PaidWithinTheLimits == BudgetSpec => []PaidWithinLimits
<1>1. BudgetInv => PaidWithinLimits
  <2> SUFFICES ASSUME BudgetInv PROVE PaidWithinLimits
    OBVIOUS
  <2> USE DEF BudgetInv
  <2>1. ASSUME NEW S \in SUBSET Reserved
        PROVE  BoughtBy(S) <= ItemsOf(S) /\ BoughtBy(S) \in Int /\ ItemsOf(S) \in Int
    <3>1. IsFiniteSet(S) /\ ItemsOf(S) \in Nat
      BY RowsAreFinite
    <3>2. \A a \in S : bought[a] \in Int /\ Items[a] \in Int /\ bought[a] <= Items[a]
      BY RowsAreFinite DEF BoughtInv, RowsTypeOK, Reserved
    <3> QED
      BY <3>1, <3>2, SumOfSmaller, SumInt DEF BoughtBy, ItemsOf
  <2>2. \A d \in 0 .. LastDay : BoughtBy(ReservedOn(d)) <= DayMax
    <3> SUFFICES ASSUME NEW d \in 0 .. LastDay
                 PROVE  BoughtBy(ReservedOn(d)) <= DayMax
      OBVIOUS
    <3>1. ReservedOn(d) \in SUBSET Reserved
      BY RowsAreFinite
    <3>2. ItemsOf(ReservedOn(d)) <= DayMax
      BY DEF DayInv
    <3> QED
      BY <2>1, <3>1, <3>2, Limits
  <2>3. \A b \in Previews : \/ BoughtBy(ReservedIn(b)) <= PreviewMax
                            \/ \E a, x \in ReservedIn(b) : usage[a].day # usage[x].day
    <3> SUFFICES ASSUME NEW b \in Previews, ItemsOf(ReservedIn(b)) <= PreviewMax
                 PROVE  BoughtBy(ReservedIn(b)) <= PreviewMax
      BY DEF PreviewInv
    <3>1. ReservedIn(b) \in SUBSET Reserved
      BY RowsAreFinite
    <3> QED
      BY <2>1, <3>1, Limits
  <2> QED
    BY <2>2, <2>3 DEF PaidWithinLimits
<1> QED
  BY <1>1, BudgetAlways, PTL

(***************************************************************************)
(* THE HOUSEHOLD.                                                          *)
(***************************************************************************)

\* A step of the composition is one of each component, or changes nothing of it.
LEMMA EachComponentSteps ==
  ASSUME [Next]_<<part, obligationVars, importVars, memberVars, budgetVars, promptVars>>
  PROVE  /\ [ObligationNext]_obligationVars /\ [ImportNext]_importVars
         /\ [MemberNext]_memberVars /\ [BudgetNext]_budgetVars
         /\ [PromptNext]_promptVars
<1>1. BotStep \/ PageStep => ObligationNext
  BY DEF BotStep, PageStep, ObligationNext
<1>2. LinesStep \/ PurchasesStep \/ ExpensesStep \/ ServerStep => ImportNext
  <2>1. LinePayloads \subseteq Payloads /\ PurchasePayloads \subseteq Payloads
        /\ ReplacePayloads \subseteq Payloads /\ LinkPayloads \subseteq Payloads
    BY DEF LinePayloads, PurchasePayloads, ReplacePayloads, LinkPayloads, OnlyPlans
  <2> QED
    BY <2>1 DEF LinesStep, PurchasesStep, ExpensesStep, ServerStep, ImportNext, ConfirmOneOf
<1>3. MemberStep => MemberNext
  BY DEF MemberStep
<1>4. ClockStep \/ BurstStep => BudgetNext
  <2>1. 0 \in (-Skew) .. Skew
    BY BudgetAssumption DEF BudgetAssumption
  <2> QED
    BY <2>1 DEF ClockStep, BurstStep, BudgetNext, ServeRequests
<1>5. SoloStep \/ PairStep \/ LinkStep => PromptNext
  BY DEF SoloStep, PairStep, LinkStep
<1> QED
  BY <1>1, <1>2, <1>3, <1>4, <1>5 DEF Next

\* The composition starts and goes on as each of its components may, so what
\* their theorems say holds of the household's behaviours.
THEOREM EachComponentIsItsOwn ==
  Spec => ObligationSpec /\ ImportSpec /\ MemberSpec /\ BudgetSpec /\ PromptSpec
<1>1. Init => ObligationInit /\ ImportInit /\ MemberInit /\ BudgetInit /\ PromptInit
  BY DEF Init, PromptStart
<1>2. [Next]_<<part, obligationVars, importVars, memberVars, budgetVars, promptVars>>
        => /\ [ObligationNext]_obligationVars /\ [ImportNext]_importVars
           /\ [MemberNext]_memberVars /\ [BudgetNext]_budgetVars
           /\ [PromptNext]_promptVars
  BY EachComponentSteps
<1> QED
  BY <1>1, <1>2, PTL DEF Spec, ObligationSpec, ImportSpec, MemberSpec, BudgetSpec, PromptSpec

\* Every variable of the five components has its type, always.
THEOREM HouseholdTyped == Spec => []HouseholdTypeOK
<1>1. ObligationTypeOK /\ ImportTypeOK /\ MemberTypeOK /\ BudgetTypeOK /\ PromptTypeOK
        => HouseholdTypeOK
  BY DEF HouseholdTypeOK
<1> QED
  BY <1>1, EachComponentIsItsOwn, TypeCorrect, ImportTyped, MembersTyped,
     BudgetTypeCorrect, PromptTyped, PTL
=============================================================================
