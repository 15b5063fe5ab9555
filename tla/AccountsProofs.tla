--------------------------- MODULE AccountsProofs ---------------------------
(***************************************************************************)
(* What holds of Accounts for every number of addresses, browsers and      *)
(* links.                                                                  *)
(***************************************************************************)
EXTENDS Accounts, FiniteSetTheorems, TLAPS

LEMMA NoAccountDiffers ==
  /\ NoAccount \notin Account
  /\ \A a \in Account, r \in Role : [a EXCEPT !.role = r] \in Account
  /\ \A a \in Account, f \in BOOLEAN : [a EXCEPT !.active = f] \in Account
  /\ \A r \in Role : [role |-> r, active |-> TRUE] \in Account
  BY ConstantsAssumption DEF NoAccount, Account

LEMMA ExistsType ==
  ASSUME TypeOK, NEW u \in Email
  PROVE  Exists(u) <=> account[u] \in Account
  BY NoAccountDiffers DEF TypeOK, Exists

-----------------------------------------------------------------------------
\* Type correctness.

LEMMA InitType == Init => TypeOK
  BY ConstantsAssumption DEF Init, TypeOK, Stage

LEMMA LeaveType ==
  ASSUME TypeOK, NEW b \in Browser, Leave(b),
         account' \in [Email -> Account \cup {NoAccount}],
         row' \in [Id -> Link \cup {None}],
         \A i \in Id : row'[i] # None => row'[i].id = i,
         issued' \in 0..MaxIssued, listed' \subseteq Id,
         session' \in [Browser -> Email \cup {None}],
         joined' \in [Secret -> Nat], done' \subseteq Secret
  PROVE  TypeOK'
<1>1. /\ pc' \in [Browser -> Stage]
      /\ actor' \in [Browser -> Email \cup {None}]
      /\ held' \in [Browser -> Draft \cup Link \cup Credentials \cup {None}]
  BY DEF TypeOK, Leave, Stage
<1>2. ASSUME NEW c \in Browser
      PROVE  /\ pc'[c] = "admin" => actor'[c] # None
             /\ pc'[c] \in {"clear", "issue"} => held'[c] \in Draft
             /\ pc'[c] \in {"apply", "mark"} => held'[c] \in Link
             /\ pc'[c] = "login" => held'[c] \in Credentials
  <2>1. CASE c = b
    BY <2>1 DEF TypeOK, Leave
  <2>2. CASE c # b
    BY <2>2 DEF TypeOK, Leave
  <2>. QED
    BY <2>1, <2>2
<1>. QED
  BY <1>1, <1>2 DEF TypeOK

LEMMA AdminStepType ==
  ASSUME TypeOK, NEW b \in Browser, AdminStep(b)
  PROVE  TypeOK'
<1>1. CASE Authorize(b)
  BY <1>1 DEF Authorize, Goto, TypeOK, Stage
<1>2. CASE ClearDatabase(b)
  BY <1>2, LeaveType DEF ClearDatabase, TypeOK
<1>3. ASSUME NEW i \in Id, RevokeInvite(b, i) PROVE TypeOK'
  BY <1>3, LeaveType DEF RevokeInvite, TypeOK
<1>4. ASSUME NEW u \in Email, NEW r \in Role, SetRole(b, u, r) PROVE TypeOK'
  <2>1. account' \in [Email -> Account \cup {NoAccount}]
    BY <1>4, ExistsType, NoAccountDiffers DEF SetRole, TypeOK
  <2>. QED
    BY <1>4, <2>1, LeaveType DEF SetRole, TypeOK
<1>5. ASSUME NEW u \in Email, Deactivate(b, u) PROVE TypeOK'
  <2>1. account' \in [Email -> Account \cup {NoAccount}]
    BY <1>5, ExistsType, NoAccountDiffers DEF Deactivate, TypeOK
  <2>. QED
    BY <1>5, <2>1, LeaveType DEF Deactivate, TypeOK
<1>6. ASSUME NEW u \in Email, Reactivate(b, u) PROVE TypeOK'
  <2>1. account' \in [Email -> Account \cup {NoAccount}]
    BY <1>6, ExistsType, NoAccountDiffers DEF Reactivate, TypeOK
  <2>. QED
    BY <1>6, <2>1, LeaveType DEF Reactivate, TypeOK
<1>7. ASSUME NEW u \in Email, NEW r \in Role, CreateInvite(b, u, r) PROVE TypeOK'
  <2>1. [purpose |-> "invite", email |-> u, role |-> r] \in Draft
    BY DEF Draft, Purpose, HasRole
  <2>. QED
    BY <1>7, <2>1 DEF CreateInvite, Prepare, Goto, TypeOK, Stage
<1>8. ASSUME NEW u \in Email, CreateResetLink(b, u) PROVE TypeOK'
  <2>1. [purpose |-> "password_reset", email |-> u, role |-> None] \in Draft
    BY DEF Draft, Purpose, HasRole
  <2>. QED
    BY <1>8, <2>1 DEF CreateResetLink, Prepare, Goto, TypeOK, Stage
<1>. QED
  BY <1>1, <1>2, <1>3, <1>4, <1>5, <1>6, <1>7, <1>8 DEF AdminStep

LEMMA SpentType ==
  ASSUME NEW k \in Link
  PROVE  /\ [k EXCEPT !.state = "used"] \in Link
         /\ [k EXCEPT !.state = "expired"] \in Link
         /\ [k EXCEPT !.state = "used"].id = k.id
         /\ [k EXCEPT !.state = "expired"].id = k.id
  BY DEF Link, HasRole, LinkState

LEMMA LinkStepType ==
  ASSUME TypeOK, NEW b \in Browser, LinkStep(b)
  PROVE  TypeOK'
<1>1. CASE DeleteLinks(b)
  BY <1>1 DEF DeleteLinks, Goto, TypeOK, Stage
<1>2. CASE Join(b)
  <2>1. held[b] \in Link
    BY <1>2 DEF Join, Goto, TypeOK
  <2>2. held[b].email \in Email /\ held[b].secret \in Secret /\ held[b].role \in Role
    BY <1>2, <2>1 DEF Join, Link, HasRole
  <2>3. account' \in [Email -> Account \cup {NoAccount}]
    BY <1>2, <2>2, NoAccountDiffers DEF Join, TypeOK
  <2>4. joined' \in [Secret -> Nat]
    BY <1>2, <2>2 DEF Join, TypeOK
  <2>. QED
    BY <1>2, <2>1, <2>3, <2>4 DEF Join, Goto, TypeOK, Stage
<1>3. CASE JoinRefused(b)
  BY <1>3, LeaveType DEF JoinRefused, TypeOK
<1>4. CASE ResetPassword(b)
  BY <1>4 DEF ResetPassword, Goto, TypeOK, Stage
<1>5. CASE MarkUsed(b)
  <2>1. held[b] \in Link
    BY <1>5 DEF MarkUsed, Submitted, TypeOK
  <2>2. held[b].email \in Email /\ held[b].secret \in Secret
    BY <2>1 DEF Link
  <2>3. session' \in [Browser -> Email \cup {None}] /\ done' \subseteq Secret
    BY <1>5, <2>2 DEF MarkUsed, Submitted, TypeOK
  <2>4. /\ row' \in [Id -> Link \cup {None}]
        /\ \A i \in Id : row'[i] # None => row'[i].id = i
    BY <1>5, SpentType DEF MarkUsed, TypeOK
  <2>. QED
    BY <1>5, <2>3, <2>4, LeaveType DEF MarkUsed, Submitted, TypeOK
<1>6. ASSUME NEW u \in Email, RequestReset(b, u) PROVE TypeOK'
  <2>1. [purpose |-> "password_reset", email |-> u, role |-> None] \in Draft
    BY DEF Draft, Purpose, HasRole
  <2>. QED
    BY <1>6, <2>1 DEF RequestReset, Prepare, Goto, TypeOK, Stage
<1>7. ASSUME NEW i \in Id, IssueLink(b, i) PROVE TypeOK'
  <2>1. held[b] \in Draft
    BY <1>7 DEF IssueLink, TypeOK
  <2>2. issued + 1 \in Secret /\ issued + 1 \in 0..MaxIssued
    BY <1>7, ConstantsAssumption DEF IssueLink, TypeOK, Secret
  <2>3. [id |-> i, secret |-> issued + 1, purpose |-> held[b].purpose,
         email |-> held[b].email, role |-> held[b].role, state |-> "open"] \in Link
    BY <2>1, <2>2 DEF Draft, Link, HasRole, LinkState
  <2>4. /\ row' \in [Id -> Link \cup {None}]
        /\ \A j \in Id : row'[j] # None => row'[j].id = j
    BY <1>7, <2>3 DEF IssueLink, TypeOK
  <2>5. listed' \subseteq Id
    BY <1>7 DEF IssueLink, TypeOK
  <2>. QED
    BY <1>7, <2>2, <2>4, <2>5, LeaveType DEF IssueLink, TypeOK
<1>8. ASSUME NEW i \in Id, Submit(b, i) PROVE TypeOK'
  BY <1>8 DEF Submit, Goto, TypeOK, Stage
<1>. QED
  BY <1>1, <1>2, <1>3, <1>4, <1>5, <1>6, <1>7, <1>8 DEF LinkStep

LEMMA SessionStepType ==
  ASSUME TypeOK, NEW b \in Browser, SessionStep(b)
  PROVE  TypeOK'
<1>1. CASE FinishLogin(b)
  <2>1. held[b].email \in Email
    BY <1>1 DEF FinishLogin, TypeOK, Credentials
  <2>. QED
    BY <1>1, <2>1, LeaveType DEF FinishLogin, TypeOK
<1>2. CASE Logout(b)
  BY <1>2 DEF Logout, requestVars, TypeOK
<1>3. CASE Abandon(b)
  BY <1>3, LeaveType DEF Abandon, TypeOK
<1>4. ASSUME NEW u \in Email, ReadCredentials(b, u) PROVE TypeOK'
  <2>1. account[u].active \in BOOLEAN
    <3>1. CASE account[u] \in Account
      BY <3>1 DEF Account
    <3>2. CASE account[u] = NoAccount
      BY <3>2 DEF NoAccount
    <3>. QED
      BY <3>1, <3>2 DEF TypeOK
  <2>. QED
    <3>1. [email |-> u, active |-> account[u].active] \in Credentials
      BY <2>1 DEF Credentials
    <3>. QED
      BY <1>4, <3>1 DEF ReadCredentials, Goto, TypeOK, Stage
<1>. QED
  BY <1>1, <1>2, <1>3, <1>4 DEF SessionStep

\* Each step keeps the types.
LEMMA NextType == TypeOK /\ [Next]_vars => TypeOK'
<1>. SUFFICES ASSUME TypeOK, [Next]_vars PROVE TypeOK'
  OBVIOUS
<1>1. ASSUME NEW b \in Browser, AdminStep(b) \/ LinkStep(b) \/ SessionStep(b)
      PROVE  TypeOK'
  BY <1>1, AdminStepType, LinkStepType, SessionStepType
<1>2. ASSUME NEW u \in Email, CreateAdmin(u) PROVE TypeOK'
  <2>1. [role |-> Admin, active |-> TRUE] \in Account
    BY NoAccountDiffers, ConstantsAssumption
  <2>. QED
    BY <1>2, <2>1 DEF CreateAdmin, requestVars, TypeOK
<1>3. ASSUME NEW i \in Id, Expire(i) PROVE TypeOK'
  <2>. DEFINE k == [row[i] EXCEPT !.state = "expired"]
  <2>1. row[i] \in Link /\ row[i].id = i /\ row' = [row EXCEPT ![i] = k]
    BY <1>3 DEF Expire, TypeOK
  <2>3. k \in Link /\ k.id = i
    BY <2>1, SpentType
  <2>. HIDE DEF k
  <2>2. /\ row' \in [Id -> Link \cup {None}]
        /\ \A j \in Id : row'[j] # None => row'[j].id = j
    BY <2>1, <2>3 DEF TypeOK
  <2>. QED
    BY <1>3, <2>2 DEF Expire, requestVars, TypeOK
<1>4. CASE UNCHANGED vars
  BY <1>4 DEF vars, TypeOK
<1>. QED
  BY <1>1, <1>2, <1>3, <1>4 DEF Next

\* Every reachable state has its type (the types of auth.py and storage.py).
THEOREM AccountsTypeCorrect == Spec => []TypeOK
  BY InitType, NextType, PTL DEF Spec

-----------------------------------------------------------------------------
\* Links.

\* A step that issues nothing, lets nobody in and only takes rows away or
\* closes them, while submissions keep what they hold or end.
Quiet ==
  /\ UNCHANGED <<issued, joined>>
  /\ \A i \in Id :
       \/ row'[i] = row[i]
       \/ row'[i] = None
       \/ /\ row[i] # None /\ row'[i].secret = row[i].secret
          /\ row'[i].email = row[i].email /\ row'[i].state # "open"
  /\ \A b \in Browser : Holding(b)' => Holding(b) /\ held'[b] = held[b]
  /\ \A u \in Email : Exists(u) => Exists(u)'

LEMMA StoredType ==
  ASSUME TypeOK, NEW i \in Stored
  PROVE  i \in Id /\ row[i] \in Link /\ row[i].id = i /\ row[i].secret \in Secret
         /\ row[i].email \in Email
  BY DEF TypeOK, Stored, Link

LEMMA HeldType ==
  ASSUME TypeOK, NEW b \in Browser, Holding(b)
  PROVE  held[b] \in Link /\ held[b].secret \in Secret /\ held[b].email \in Email
  BY DEF TypeOK, Holding, Link

LEMMA QuietKeepsLinks ==
  ASSUME TypeOK, LinkInv, Quiet,
         \A s \in done' : s \in done \/ (s \in Issued /\
            \A i \in Stored' : row'[i].secret = s => row'[i].state # "open")
  PROVE  LinkInv'
<1>1. \A i \in Stored' :
        /\ i \in Stored /\ row'[i].secret = row[i].secret
        /\ row'[i].email = row[i].email
        /\ row'[i] = row[i] \/ row'[i].state # "open"
  BY DEF Stored, Quiet
<1>2. \A b \in Submitting' : b \in Submitting /\ held'[b] = held[b]
  BY DEF Quiet, Submitting
<1>3. issued' = issued /\ joined' = joined
  BY DEF Quiet
<1>4. SecretsUnique'
  <2>1. ASSUME NEW i \in Stored', NEW j \in Stored', row'[i].secret = row'[j].secret
        PROVE  i = j
    <3>1. i \in Stored /\ j \in Stored /\ row[i].secret = row[j].secret
      BY <1>1, <2>1
    <3>. QED
      BY <3>1 DEF LinkInv, SecretsUnique
  <2>2. ASSUME NEW c \in Submitting', NEW i \in Stored', row'[i].secret = held'[c].secret
        PROVE  i = held'[c].id /\ row'[i].email = held'[c].email
    <3>1. /\ c \in Submitting /\ i \in Stored /\ row[i].secret = held[c].secret
          /\ held'[c] = held[c] /\ row'[i].email = row[i].email
      BY <1>1, <1>2, <2>2
    <3>. QED
      BY <3>1 DEF LinkInv, SecretsUnique
  <2>3. ASSUME NEW c \in Submitting', NEW d \in Submitting', held'[c].secret = held'[d].secret
        PROVE  held'[c].id = held'[d].id /\ held'[c].email = held'[d].email
    <3>1. /\ c \in Submitting /\ d \in Submitting
          /\ held'[c] = held[c] /\ held'[d] = held[d]
      BY <1>2
    <3>. QED
      BY <3>1, <2>3 DEF LinkInv, SecretsUnique
  <2>. QED
    BY <2>1, <2>2, <2>3 DEF SecretsUnique
<1>5. JoinedExist'
  <2>1. ASSUME NEW i \in Stored', joined'[row'[i].secret] # 0
        PROVE  account'[row'[i].email] # NoAccount
    <3>1. i \in Stored /\ joined[row[i].secret] # 0 /\ row'[i].email = row[i].email
      <4>1. /\ i \in Stored /\ row'[i].secret = row[i].secret
            /\ row'[i].email = row[i].email
        BY <1>1
      <4>. QED
        BY <4>1, <1>3, <2>1
    <3>2. row[i].email \in Email /\ account[row[i].email] # NoAccount
      BY <3>1, StoredType DEF LinkInv, JoinedExist, Exists
    <3>. QED
      BY <3>1, <3>2 DEF Quiet, Exists
  <2>2. ASSUME NEW b \in Submitting', joined'[held'[b].secret] # 0
        PROVE  account'[held'[b].email] # NoAccount
    <3>1. b \in Submitting /\ held'[b] = held[b] /\ joined[held[b].secret] # 0
      BY <1>2, <1>3, <2>2
    <3>2. held[b].email \in Email /\ account[held[b].email] # NoAccount
      BY <3>1, HeldType DEF LinkInv, JoinedExist, Exists, Submitting
    <3>. QED
      BY <3>1, <3>2 DEF Quiet, Exists
  <2>. QED
    BY <2>1, <2>2 DEF JoinedExist, Exists
<1>6. SecretsIssued'
  <2>1. done' \subseteq Issued'
    BY <1>3 DEF LinkInv, SecretsIssued, Issued
  <2>2. \A s \in Secret : joined'[s] # 0 => s \in Issued'
    BY <1>3 DEF LinkInv, SecretsIssued, Issued
  <2>3. \A i \in Stored' : row'[i].secret \in Issued'
    BY <1>1, <1>3 DEF LinkInv, SecretsIssued, Issued
  <2>4. \A c \in Submitting' : held'[c].secret \in Issued'
    BY <1>2, <1>3 DEF LinkInv, SecretsIssued, Issued
  <2>. QED
    BY <2>1, <2>2, <2>3, <2>4 DEF SecretsIssued
<1>7. InvitedOnce'
  BY <1>3 DEF LinkInv, InvitedOnce
<1>8. SpentLinksRefused'
  BY <1>1 DEF LinkInv, SpentLinksRefused
<1>. QED
  BY <1>4, <1>5, <1>6, <1>7, <1>8 DEF LinkInv

LEMMA LeaveHolding ==
  ASSUME TypeOK, NEW b \in Browser, Leave(b)
  PROVE  \A c \in Browser : Holding(c)' => Holding(c) /\ held'[c] = held[c] /\ c # b
  BY DEF TypeOK, Leave, Holding

LEMMA GotoHolding ==
  ASSUME TypeOK, NEW b \in Browser, NEW from, NEW to, Goto(b, from, to),
         \/ to \notin {"apply", "mark"} \/ (from \in {"apply", "mark"} /\ held' = held),
         \A c \in Browser \ {b} : held'[c] = held[c]
  PROVE  \A c \in Browser : Holding(c)' => Holding(c) /\ held'[c] = held[c]
  BY DEF TypeOK, Goto, Holding

LEMMA AccountsStay ==
  ASSUME TypeOK, NEW u \in Email, NEW v \in Email, Exists(u), Exists(v),
         NEW a \in Account, account' = [account EXCEPT ![v] = a]
  PROVE  Exists(u)'
  BY ExistsType, NoAccountDiffers DEF Exists, TypeOK

LEMMA AdminStepLinks ==
  ASSUME TypeOK, LinkInv, NEW b \in Browser, AdminStep(b)
  PROVE  LinkInv'
<1>. SUFFICES Quiet /\ done' = done
  BY QuietKeepsLinks
<1>1. CASE Authorize(b)
  BY <1>1, GotoHolding DEF Authorize, Quiet, Exists
<1>2. CASE ClearDatabase(b)
  BY <1>2, LeaveHolding DEF ClearDatabase, Quiet, Exists
<1>3. ASSUME NEW i \in Id, RevokeInvite(b, i) PROVE Quiet /\ done' = done
  BY <1>3, LeaveHolding DEF RevokeInvite, Quiet, Exists, TypeOK
<1>4. ASSUME NEW u \in Email, NEW r \in Role, SetRole(b, u, r)
      PROVE  Quiet /\ done' = done
  <2>1. \A v \in Email : Exists(v) => Exists(v)'
    BY <1>4, AccountsStay, ExistsType, NoAccountDiffers DEF SetRole
  <2>. QED
    BY <1>4, <2>1, LeaveHolding DEF SetRole, Quiet
<1>5. ASSUME NEW u \in Email, Deactivate(b, u) PROVE Quiet /\ done' = done
  <2>1. \A v \in Email : Exists(v) => Exists(v)'
    BY <1>5, AccountsStay, ExistsType, NoAccountDiffers DEF Deactivate
  <2>. QED
    BY <1>5, <2>1, LeaveHolding DEF Deactivate, Quiet
<1>6. ASSUME NEW u \in Email, Reactivate(b, u) PROVE Quiet /\ done' = done
  <2>1. \A v \in Email : Exists(v) => Exists(v)'
    BY <1>6, AccountsStay, ExistsType, NoAccountDiffers DEF Reactivate
  <2>. QED
    BY <1>6, <2>1, LeaveHolding DEF Reactivate, Quiet
<1>7. ASSUME NEW u \in Email, NEW r \in Role,
             CreateInvite(b, u, r) \/ CreateResetLink(b, u)
      PROVE  Quiet /\ done' = done
  <2>1. PICK purpose, role : Prepare(b, "admin", purpose, u, role)
    BY <1>7 DEF CreateInvite, CreateResetLink
  <2>2. \A c \in Browser \ {b} : held'[c] = held[c]
    BY <2>1 DEF Prepare, TypeOK
  <2>. QED
    BY <2>1, <2>2, GotoHolding DEF Prepare, Quiet, Exists
<1>8. Role # {}
  BY ConstantsAssumption
<1>. QED
  BY <1>1, <1>2, <1>3, <1>4, <1>5, <1>6, <1>7, <1>8 DEF AdminStep

\* A link that is issued has a secret of which nothing is known.
LEMMA IssueLinkLinks ==
  ASSUME TypeOK, LinkInv, NEW b \in Browser, NEW i \in Id, IssueLink(b, i)
  PROVE  LinkInv'
<1>. DEFINE k == [id |-> i, secret |-> issued + 1, purpose |-> held[b].purpose,
                  email |-> held[b].email, role |-> held[b].role, state |-> "open"]
<1>1. /\ row' = [row EXCEPT ![i] = k] /\ issued' = issued + 1
      /\ joined' = joined /\ account' = account /\ done' = done
  BY DEF IssueLink
<1>2. \A j \in Stored' : j # i => j \in Stored /\ row'[j] = row[j]
  BY <1>1 DEF Stored, TypeOK
<1>3. row'[i] = k /\ k.secret = issued + 1 /\ k.state = "open"
  BY <1>1 DEF TypeOK
<1>. HIDE DEF k
<1>4. \A c \in Submitting' : c \in Submitting /\ held'[c] = held[c]
  BY LeaveHolding DEF IssueLink, Submitting
<1>5. issued \in Nat /\ issued + 1 \in Secret /\ Issued \subseteq Issued'
      /\ issued + 1 \notin Issued /\ issued + 1 \in Issued'
  BY <1>1, ConstantsAssumption DEF TypeOK, Issued, Secret, IssueLink
<1>6. /\ \A j \in Stored : row[j].secret \in Issued
      /\ \A c \in Submitting : held[c].secret \in Issued
      /\ issued + 1 \notin done /\ joined[issued + 1] = 0
  BY <1>5 DEF LinkInv, SecretsIssued
<1>7. SecretsUnique'
  <2>1. ASSUME NEW j \in Stored', NEW l \in Stored', row'[j].secret = row'[l].secret
        PROVE  j = l
    BY <1>2, <1>3, <1>5, <1>6, <2>1 DEF LinkInv, SecretsUnique
  <2>2. ASSUME NEW c \in Submitting', NEW j \in Stored', row'[j].secret = held'[c].secret
        PROVE  j = held'[c].id /\ row'[j].email = held'[c].email
    BY <1>2, <1>3, <1>4, <1>5, <1>6, <2>2 DEF LinkInv, SecretsUnique
  <2>3. ASSUME NEW c \in Submitting', NEW d \in Submitting', held'[c].secret = held'[d].secret
        PROVE  held'[c].id = held'[d].id /\ held'[c].email = held'[d].email
    BY <1>4, <2>3 DEF LinkInv, SecretsUnique
  <2>. QED
    BY <2>1, <2>2, <2>3 DEF SecretsUnique
<1>8. JoinedExist'
  <2>1. ASSUME NEW j \in Stored', joined'[row'[j].secret] # 0
        PROVE  account'[row'[j].email] # NoAccount
    BY <1>1, <1>2, <1>3, <1>6, <2>1 DEF LinkInv, JoinedExist, Exists
  <2>2. ASSUME NEW c \in Submitting', joined'[held'[c].secret] # 0
        PROVE  account'[held'[c].email] # NoAccount
    BY <1>1, <1>4, <2>2 DEF LinkInv, JoinedExist, Exists
  <2>. QED
    BY <2>1, <2>2 DEF JoinedExist, Exists
<1>9. SecretsIssued'
  <2>1. \A j \in Stored' : row'[j].secret \in Issued'
    BY <1>2, <1>3, <1>5, <1>6
  <2>2. \A c \in Submitting' : held'[c].secret \in Issued'
    BY <1>4, <1>5, <1>6
  <2>3. done' \subseteq Issued' /\ \A s \in Secret : joined'[s] # 0 => s \in Issued'
    BY <1>1, <1>5 DEF LinkInv, SecretsIssued
  <2>. QED
    BY <2>1, <2>2, <2>3 DEF SecretsIssued
<1>10. InvitedOnce'
  BY <1>1 DEF LinkInv, InvitedOnce
<1>11. SpentLinksRefused'
  BY <1>1, <1>2, <1>3, <1>6 DEF LinkInv, SpentLinksRefused
<1>. QED
  BY <1>7, <1>8, <1>9, <1>10, <1>11 DEF LinkInv

\* A submission holds a copy of a stored row.
LEMMA SubmitLinks ==
  ASSUME TypeOK, LinkInv, NEW b \in Browser, NEW i \in Id, Submit(b, i)
  PROVE  LinkInv'
<1>1. /\ row' = row /\ issued' = issued /\ joined' = joined
      /\ account' = account /\ done' = done
  BY DEF Submit
<1>2. held'[b] = row[i] /\ row[i].id = i /\ i \in Stored
  BY DEF Submit, TypeOK, Stored
<1>3. \A c \in Submitting' : c # b => c \in Submitting /\ held'[c] = held[c]
  BY DEF Submit, TypeOK, Submitting, Holding, Goto
<1>4. Stored' = Stored /\ Issued' = Issued
  BY <1>1 DEF Stored, Issued
<1>5. SecretsUnique'
  <2>1. ASSUME NEW j \in Stored', NEW l \in Stored', row'[j].secret = row'[l].secret
        PROVE  j = l
    BY <1>1, <1>4, <2>1 DEF LinkInv, SecretsUnique
  <2>2. ASSUME NEW c \in Submitting', NEW j \in Stored', row'[j].secret = held'[c].secret
        PROVE  j = held'[c].id /\ row'[j].email = held'[c].email
    <3>1. CASE c = b
      BY <1>1, <1>2, <1>4, <2>2, <3>1 DEF LinkInv, SecretsUnique
    <3>2. CASE c # b
      BY <1>1, <1>3, <1>4, <2>2, <3>2 DEF LinkInv, SecretsUnique
    <3>. QED
      BY <3>1, <3>2
  <2>3. ASSUME NEW c \in Submitting', NEW d \in Submitting', held'[c].secret = held'[d].secret
        PROVE  held'[c].id = held'[d].id /\ held'[c].email = held'[d].email
    <3>1. CASE c = b /\ d # b
      BY <1>2, <1>3, <2>3, <3>1 DEF LinkInv, SecretsUnique
    <3>2. CASE c # b /\ d = b
      BY <1>2, <1>3, <2>3, <3>2 DEF LinkInv, SecretsUnique
    <3>3. CASE c # b /\ d # b
      BY <1>3, <2>3, <3>3 DEF LinkInv, SecretsUnique
    <3>. QED
      BY <3>1, <3>2, <3>3
  <2>. QED
    BY <2>1, <2>2, <2>3 DEF SecretsUnique
<1>6. JoinedExist'
  <2>1. ASSUME NEW j \in Stored', joined'[row'[j].secret] # 0
        PROVE  account'[row'[j].email] # NoAccount
    BY <1>1, <1>4, <2>1 DEF LinkInv, JoinedExist, Exists
  <2>2. ASSUME NEW c \in Submitting', joined'[held'[c].secret] # 0
        PROVE  account'[held'[c].email] # NoAccount
    BY <1>1, <1>2, <1>3, <2>2 DEF LinkInv, JoinedExist, Exists
  <2>. QED
    BY <2>1, <2>2 DEF JoinedExist, Exists
<1>7. SecretsIssued'
  <2>1. \A c \in Submitting' : held'[c].secret \in Issued'
    BY <1>2, <1>3, <1>4 DEF LinkInv, SecretsIssued
  <2>. QED
    BY <1>1, <1>4, <2>1 DEF LinkInv, SecretsIssued
<1>8. InvitedOnce' /\ SpentLinksRefused'
  BY <1>1, <1>4 DEF LinkInv, InvitedOnce, SpentLinksRefused
<1>. QED
  BY <1>5, <1>6, <1>7, <1>8 DEF LinkInv

\* The unique address of an account lets nobody in twice with one link.
LEMMA JoinLinks ==
  ASSUME TypeOK, LinkInv, NEW b \in Browser, Join(b)
  PROVE  LinkInv'
<1>. DEFINE s == held[b].secret
            u == held[b].email
            a == [role |-> held[b].role, active |-> TRUE]
<1>1. b \in Submitting /\ Holding(b) /\ ~ Exists(u)
  BY DEF Join, Goto, Submitting, Holding
<1>2. s \in Secret /\ u \in Email /\ a \in Account
  <2>1. held[b] \in Link /\ held[b].role \in Role
    BY <1>1, HeldType DEF Join, Link, HasRole
  <2>. QED
    BY <1>1, <2>1, HeldType, NoAccountDiffers
<1>3. /\ account' = [account EXCEPT ![u] = a]
      /\ joined' = [joined EXCEPT ![s] = joined[s] + 1]
      /\ row' = row /\ issued' = issued /\ held' = held /\ done' = done
  BY DEF Join
<1>4. joined[s] = 0 /\ s \in Issued
  BY <1>1 DEF LinkInv, JoinedExist, SecretsIssued
<1>5. \A i \in Stored : row[i].secret = s => row[i].email = u
  BY <1>1 DEF LinkInv, SecretsUnique
<1>6. \A c \in Submitting : held[c].secret = s => held[c].email = u
  BY <1>1 DEF LinkInv, SecretsUnique
<1>7. \A c \in Submitting' : c \in Submitting
  BY DEF Join, Goto, Submitting, Holding, TypeOK
<1>. HIDE DEF s, u, a
<1>8. /\ \A v \in Email : account[v] # NoAccount \/ v = u => account'[v] # NoAccount
      /\ \A t \in Secret : t # s => joined'[t] = joined[t]
      /\ joined'[s] = 1
  BY <1>2, <1>3, <1>4, NoAccountDiffers DEF TypeOK
<1>9. Stored' = Stored /\ Issued' = Issued
  BY <1>3 DEF Stored, Issued
<1>10. SecretsUnique'
  BY <1>3, <1>7, <1>9 DEF LinkInv, SecretsUnique
<1>11. JoinedExist'
  <2>1. ASSUME NEW i \in Stored, joined'[row[i].secret] # 0
        PROVE  account'[row[i].email] # NoAccount
    <3>1. row[i].secret \in Secret /\ row[i].email \in Email
      BY StoredType
    <3>2. CASE row[i].secret = s
      BY <1>5, <1>8, <3>1, <3>2
    <3>3. CASE row[i].secret # s
      BY <1>8, <2>1, <3>1, <3>3 DEF LinkInv, JoinedExist, Exists
    <3>. QED
      BY <3>2, <3>3
  <2>2. ASSUME NEW c \in Submitting, joined'[held[c].secret] # 0
        PROVE  account'[held[c].email] # NoAccount
    <3>1. held[c].secret \in Secret /\ held[c].email \in Email
      BY HeldType DEF Submitting
    <3>2. CASE held[c].secret = s
      BY <1>6, <1>8, <3>1, <3>2
    <3>3. CASE held[c].secret # s
      BY <1>8, <2>2, <3>1, <3>3 DEF LinkInv, JoinedExist, Exists
    <3>. QED
      BY <3>2, <3>3
  <2>. QED
    BY <1>3, <1>7, <1>9, <2>1, <2>2 DEF JoinedExist, Exists
<1>12. SecretsIssued'
  <2>1. \A t \in Secret : joined'[t] # 0 => t \in Issued
    BY <1>4, <1>8 DEF LinkInv, SecretsIssued
  <2>. QED
    BY <1>3, <1>7, <1>9, <2>1 DEF LinkInv, SecretsIssued
<1>13. InvitedOnce'
  BY <1>8 DEF LinkInv, InvitedOnce
<1>14. SpentLinksRefused'
  BY <1>3, <1>9 DEF LinkInv, SpentLinksRefused
<1>. QED
  BY <1>10, <1>11, <1>12, <1>13, <1>14 DEF LinkInv

\* The row that a submission marks is its own, if its own is still there.
LEMMA MarkUsedLinks ==
  ASSUME TypeOK, LinkInv, NEW b \in Browser, MarkUsed(b)
  PROVE  LinkInv'
<1>1. b \in Submitting /\ Holding(b)
  BY DEF MarkUsed, Submitted, Submitting, Holding
<1>2. held[b].secret \in Issued
  BY <1>1 DEF LinkInv, SecretsIssued
<1>3. \A i \in Id :
        /\ row'[i] = row[i]
           \/ (row[i] # None /\ row'[i] = [row[i] EXCEPT !.state = "used"])
        /\ i = held[b].id /\ row[i] # None =>
             row'[i] = [row[i] EXCEPT !.state = "used"]
  BY DEF MarkUsed
<1>4. \A i \in Stored :
        /\ [row[i] EXCEPT !.state = "used"].state = "used"
        /\ [row[i] EXCEPT !.state = "used"].secret = row[i].secret
        /\ [row[i] EXCEPT !.state = "used"].email = row[i].email
  BY StoredType DEF Link
<1>5. \A i \in Id : \/ row'[i] = row[i]
                    \/ /\ i \in Stored /\ row'[i].secret = row[i].secret
                       /\ row'[i].email = row[i].email /\ row'[i].state = "used"
  BY <1>3, <1>4 DEF Stored
<1>6. Quiet
  BY <1>5, LeaveHolding DEF MarkUsed, Submitted, Quiet, Stored, Exists
<1>7. ASSUME NEW i \in Stored', row'[i].secret = held[b].secret
      PROVE  row'[i].state # "open"
  <2>1. i \in Stored /\ row[i].secret = held[b].secret
    BY <1>5, <1>7 DEF Stored
  <2>2. i = held[b].id
    BY <1>1, <2>1 DEF LinkInv, SecretsUnique
  <2>. QED
    BY <1>3, <1>4, <2>1, <2>2 DEF Stored
<1>8. done' = done \cup {held[b].secret}
  BY DEF MarkUsed, Submitted
<1>. QED
  BY <1>2, <1>6, <1>7, <1>8, QuietKeepsLinks

LEMMA LinkStepLinks ==
  ASSUME TypeOK, LinkInv, NEW b \in Browser, LinkStep(b)
  PROVE  LinkInv'
<1>1. CASE DeleteLinks(b)
  <2>1. Quiet
    BY <1>1, GotoHolding DEF DeleteLinks, Quiet, Exists
  <2>. QED
    BY <1>1, <2>1, QuietKeepsLinks DEF DeleteLinks
<1>2. CASE JoinRefused(b)
  <2>1. Quiet
    BY <1>2, LeaveHolding DEF JoinRefused, Quiet, Exists
  <2>. QED
    BY <1>2, <2>1, QuietKeepsLinks DEF JoinRefused
<1>3. CASE ResetPassword(b)
  <2>1. Quiet
    BY <1>3, GotoHolding DEF ResetPassword, Quiet, Exists
  <2>. QED
    BY <1>3, <2>1, QuietKeepsLinks DEF ResetPassword
<1>4. ASSUME NEW u \in Email, RequestReset(b, u) PROVE LinkInv'
  <2>1. \A c \in Browser \ {b} : held'[c] = held[c]
    BY <1>4 DEF RequestReset, Prepare, TypeOK
  <2>2. Quiet
    BY <1>4, <2>1, GotoHolding DEF RequestReset, Prepare, Quiet, Exists
  <2>. QED
    BY <1>4, <2>2, QuietKeepsLinks DEF RequestReset, Prepare
<1>. QED
  BY <1>1, <1>2, <1>3, <1>4, JoinLinks, MarkUsedLinks, IssueLinkLinks, SubmitLinks
  DEF LinkStep

LEMMA SessionStepLinks ==
  ASSUME TypeOK, LinkInv, NEW b \in Browser, SessionStep(b)
  PROVE  LinkInv'
<1>. SUFFICES Quiet /\ done' = done
  BY QuietKeepsLinks
<1>1. CASE FinishLogin(b)
  BY <1>1, LeaveHolding DEF FinishLogin, Quiet, Exists
<1>2. CASE Logout(b)
  BY <1>2 DEF Logout, requestVars, Quiet, Exists, Holding
<1>3. CASE Abandon(b)
  BY <1>3, LeaveHolding DEF Abandon, Quiet, Exists
<1>4. ASSUME NEW u \in Email, ReadCredentials(b, u) PROVE Quiet /\ done' = done
  <2>1. \A c \in Browser \ {b} : held'[c] = held[c]
    BY <1>4 DEF ReadCredentials, TypeOK
  <2>. QED
    BY <1>4, <2>1, GotoHolding DEF ReadCredentials, Quiet, Exists
<1>. QED
  BY <1>1, <1>2, <1>3, <1>4 DEF SessionStep

LEMMA CreateAdminLinks ==
  ASSUME TypeOK, LinkInv, NEW u \in Email, CreateAdmin(u)
  PROVE  LinkInv'
<1>. DEFINE a == [role |-> Admin, active |-> TRUE]
<1>1. a \in Account /\ account' = [account EXCEPT ![u] = a]
  BY NoAccountDiffers, ConstantsAssumption DEF CreateAdmin
<1>. HIDE DEF a
<1>2. \A v \in Email : Exists(v) => account'[v] # NoAccount
  BY <1>1, NoAccountDiffers DEF TypeOK, Exists
<1>3. Quiet /\ done' = done
  BY <1>2 DEF CreateAdmin, requestVars, Quiet, Exists, Holding
<1>. QED
  BY <1>3, QuietKeepsLinks

LEMMA ExpireLinks ==
  ASSUME TypeOK, LinkInv, NEW i \in Id, Expire(i)
  PROVE  LinkInv'
<1>. DEFINE k == [row[i] EXCEPT !.state = "expired"]
<1>1. /\ k.secret = row[i].secret /\ k.email = row[i].email /\ k.state = "expired"
      /\ row[i] # None /\ row' = [row EXCEPT ![i] = k]
  BY StoredType DEF Expire, Stored, Link
<1>. HIDE DEF k
<1>2. Quiet /\ done' = done
  BY <1>1 DEF Expire, requestVars, Quiet, Exists, Holding, TypeOK
<1>. QED
  BY <1>2, QuietKeepsLinks

\* LinkInv is inductive under the types.
LEMMA NextLinks == TypeOK /\ LinkInv /\ [Next]_vars => LinkInv'
<1>. SUFFICES ASSUME TypeOK, LinkInv, [Next]_vars PROVE LinkInv'
  OBVIOUS
<1>1. CASE UNCHANGED vars
  <2>1. Quiet /\ done' = done
    BY <1>1 DEF vars, Quiet, Exists, Holding
  <2>. QED
    BY <2>1, QuietKeepsLinks
<1>. QED
  BY <1>1, AdminStepLinks, LinkStepLinks, SessionStepLinks, CreateAdminLinks,
     ExpireLinks DEF Next

LEMMA InitLinks == Init => LinkInv
<1>. SUFFICES ASSUME Init PROVE LinkInv
  OBVIOUS
<1>1. Stored = {} /\ Submitting = {}
  BY DEF Init, Stored, Submitting, Holding
<1>2. \A s \in Secret : joined[s] = 0
  BY DEF Init
<1>. QED
  BY <1>1, <1>2 DEF Init, LinkInv, SecretsUnique, JoinedExist, SecretsIssued, InvitedOnce,
    SpentLinksRefused

LEMMA LinksHold == Spec => [](TypeOK /\ LinkInv)
  BY InitType, NextType, InitLinks, NextLinks, PTL DEF Spec

\* accept_invite creates one account at most for each invitation.
THEOREM InvitationsOnce == Spec => []InvitedOnce
  BY LinksHold, PTL DEF LinkInv

\* _usable_token refuses every link of which a submission ran to its end.
THEOREM SpentRefused == Spec => []SpentLinksRefused
  BY LinksHold, PTL DEF LinkInv

-----------------------------------------------------------------------------
\* How links are spent.

LEMMA OpenDiffers ==
  ASSUME TypeOK, NEW i \in Stored, row[i].state = "open"
  PROVE  /\ [row[i] EXCEPT !.state = "used"] # row[i]
         /\ [row[i] EXCEPT !.state = "used"] # [row[i] EXCEPT !.state = "expired"]
         /\ [row[i] EXCEPT !.state = "used"] # None
         /\ [row[i] EXCEPT !.state = "used"].state = "used"
<1>. DEFINE k == [row[i] EXCEPT !.state = "used"]
<1>1. row[i] \in Link /\ k \in Link
  BY StoredType, SpentType
<1>2. k.state = "used" /\ [row[i] EXCEPT !.state = "expired"].state = "expired"
  BY <1>1 DEF Link
<1>3. k # None
  BY <1>1, RowAssumption
<1>. QED
  BY <1>2, <1>3

Spending(i) ==
  i \in Stored /\ row[i].state = "open" /\ row'[i] = [row[i] EXCEPT !.state = "used"]

\* Only MarkUsed spends a link.
LEMMA OnlyMarkUsedSpends ==
  ASSUME TypeOK, Next, NEW i \in Stored, Spending(i)
  PROVE  \E b \in Browser : MarkUsed(b)
<1>. SUFFICES ASSUME \A b \in Browser : ~ MarkUsed(b) PROVE FALSE
  OBVIOUS
<1>1. /\ row'[i] # row[i] /\ row'[i] # [row[i] EXCEPT !.state = "expired"]
      /\ row'[i] # None /\ i \in Id
  BY OpenDiffers, StoredType DEF Spending
<1>2. ASSUME NEW b \in Browser, AdminStep(b) PROVE FALSE
  BY <1>1, <1>2 DEF AdminStep, Authorize, ClearDatabase, RevokeInvite, Deactivate,
    Reactivate, CreateResetLink, SetRole, CreateInvite, Prepare, TypeOK
<1>3. ASSUME NEW b \in Browser, NEW j \in Id, IssueLink(b, j) PROVE FALSE
  <2>1. i # j
    BY <1>3, StoredType DEF IssueLink, NewId, Id
  <2>. QED
    BY <1>1, <1>3, <2>1 DEF IssueLink, TypeOK
<1>4. ASSUME NEW b \in Browser, LinkStep(b) PROVE FALSE
  BY <1>1, <1>3, <1>4 DEF LinkStep, DeleteLinks, Join, JoinRefused, ResetPassword,
    RequestReset, Submit, Prepare, TypeOK
<1>5. ASSUME NEW b \in Browser, SessionStep(b) PROVE FALSE
  BY <1>1, <1>5 DEF SessionStep, FinishLogin, Logout, Abandon, ReadCredentials
<1>6. ASSUME NEW u \in Email, CreateAdmin(u) PROVE FALSE
  BY <1>1, <1>6 DEF CreateAdmin
<1>7. ASSUME NEW j \in Id, Expire(j) PROVE FALSE
  BY <1>1, <1>7 DEF Expire, TypeOK
<1>. QED
  BY <1>2, <1>4, <1>5, <1>6, <1>7 DEF Next

\* mark_auth_token_used spends the submission's own link, unless that link
\* was deleted while the submission ran.
THEOREM SpentByOwner == Spec => SpentByItsSubmission
<1>1. ASSUME TypeOK, LinkInv, [Next]_vars, row' # row,
             NEW i \in Stored, Spending(i)
      PROVE  \E b \in Browser :
               /\ pc[b] = "mark"
               /\ held[b].id = i
               /\ \/ held[b].secret = row[i].secret
                  \/ \A j \in Stored : row[j].secret # held[b].secret
  <2>1. Next
    BY <1>1 DEF vars
  <2>2. PICK b \in Browser : MarkUsed(b)
    BY <1>1, <2>1, OnlyMarkUsedSpends
  <2>3. pc[b] = "mark" /\ b \in Submitting
    BY <2>2 DEF MarkUsed, Submitted, Submitting, Holding
  <2>4. held[b].id = i
    BY <1>1, <2>2, OpenDiffers, StoredType DEF MarkUsed, Spending
  <2>5. \A j \in Stored : row[j].secret = held[b].secret => j = i
    BY <1>1, <2>3, <2>4 DEF LinkInv, SecretsUnique
  <2>. QED
    BY <2>3, <2>4, <2>5
<1>2. TypeOK /\ LinkInv /\ [Next]_vars =>
        [\A i \in Stored :
          row[i].state = "open" /\ row'[i] = [row[i] EXCEPT !.state = "used"] =>
           \E b \in Browser :
             /\ pc[b] = "mark"
             /\ held[b].id = i
             /\ \/ held[b].secret = row[i].secret
                \/ \A j \in Stored : row[j].secret # held[b].secret]_row
  BY <1>1 DEF Spending
<1>. QED
  BY <1>2, LinksHold, PTL DEF Spec, SpentByItsSubmission

-----------------------------------------------------------------------------
\* Administrators.

\* Only a change of a role or a deactivation takes an administrator away.
LEMMA OnlyTwoTakeAdmins ==
  ASSUME TypeOK, Next, NEW v \in Email, IsAdmin(v), ~ IsAdmin(v)'
  PROVE  \E b \in Browser, u \in Email :
           Deactivate(b, u) \/ \E r \in Role : SetRole(b, u, r)
<1>. SUFFICES ASSUME \A b \in Browser, u \in Email :
                       ~ Deactivate(b, u) /\ \A r \in Role : ~ SetRole(b, u, r)
              PROVE  FALSE
  OBVIOUS
<1>1. account' # account /\ account[v] # NoAccount
  BY ConstantsAssumption DEF IsAdmin, NoAccount
<1>2. account'[v] # account[v]
  BY DEF IsAdmin
<1>3. ASSUME NEW b \in Browser, NEW u \in Email, Reactivate(b, u) PROVE FALSE
  <2>1. CASE u # v
    BY <1>2, <1>3, <2>1 DEF Reactivate, TypeOK
  <2>2. CASE u = v
    <3>1. account[v] \in Account
      BY <1>1, ExistsType DEF Exists
    <3>2. account'[v] = [account[v] EXCEPT !.active = TRUE]
      BY <1>3, <2>2 DEF Reactivate, TypeOK
    <3>3. account'[v].role = account[v].role /\ account'[v].active
      BY <3>1, <3>2 DEF Account
    <3>. QED
      BY <3>3 DEF IsAdmin
  <2>. QED
    BY <2>1, <2>2
<1>4. ASSUME NEW b \in Browser, AdminStep(b) PROVE FALSE
  BY <1>1, <1>3, <1>4 DEF AdminStep, Authorize, ClearDatabase, RevokeInvite,
    CreateResetLink, CreateInvite, Prepare
<1>5. ASSUME NEW b \in Browser, Join(b) PROVE FALSE
  BY <1>1, <1>2, <1>5 DEF Join, Exists, TypeOK
<1>6. ASSUME NEW b \in Browser, LinkStep(b) PROVE FALSE
  BY <1>1, <1>5, <1>6 DEF LinkStep, DeleteLinks, JoinRefused, ResetPassword, MarkUsed,
    Submitted, RequestReset, Submit, Prepare, IssueLink
<1>7. ASSUME NEW b \in Browser, SessionStep(b) PROVE FALSE
  BY <1>1, <1>7 DEF SessionStep, FinishLogin, Logout, Abandon, ReadCredentials
<1>8. ASSUME NEW u \in Email, CreateAdmin(u) PROVE FALSE
  BY <1>1, <1>2, <1>8 DEF CreateAdmin, Exists, TypeOK
<1>9. ASSUME NEW i \in Id, Expire(i) PROVE FALSE
  BY <1>1, <1>9 DEF Expire
<1>. QED
  BY <1>4, <1>6, <1>7, <1>8, <1>9 DEF Next

\* The last administrator goes only through a request whose own actor is no
\* administrator any more: set_user_role and deactivate_user refuse the
\* actor's own account.
THEOREM LastAdminOverlap == Spec => LastAdminLostOnlyByOverlap
<1>1. ASSUME TypeOK, [Next]_vars, account' # account,
             ActiveAdmins # {}, ActiveAdmins' = {}
      PROVE  \E b \in Browser : /\ pc[b] = "admin" /\ pc'[b] = "idle"
                                /\ actor[b] \notin ActiveAdmins
  <2>1. Next
    BY <1>1 DEF vars
  <2>2. PICK v \in Email : IsAdmin(v)
    BY <1>1 DEF ActiveAdmins
  <2>3. \A w \in Email : ~ IsAdmin(w)'
    BY <1>1 DEF ActiveAdmins
  <2>4. PICK b \in Browser, u \in Email :
          Deactivate(b, u) \/ \E r \in Role : SetRole(b, u, r)
    BY <1>1, <2>1, <2>2, <2>3, OnlyTwoTakeAdmins
  <2>5. pc[b] = "admin" /\ pc'[b] = "idle" /\ u # actor[b] /\ actor[b] \in Email
    BY <1>1, <2>4 DEF Deactivate, SetRole, Leave, TypeOK
  <2>6. account'[actor[b]] = account[actor[b]]
    BY <1>1, <2>4, <2>5 DEF Deactivate, SetRole, TypeOK
  <2>7. ~ IsAdmin(actor[b])
    BY <2>3, <2>5, <2>6 DEF IsAdmin
  <2>. QED
    BY <2>5, <2>7 DEF ActiveAdmins
<1>2. TypeOK /\ [Next]_vars =>
        [ActiveAdmins # {} /\ ActiveAdmins' = {} =>
          \E b \in Browser : /\ pc[b] = "admin" /\ pc'[b] = "idle"
                             /\ actor[b] \notin ActiveAdmins]_account
  BY <1>1
<1>. QED
  BY <1>2, AccountsTypeCorrect, PTL DEF Spec, LastAdminLostOnlyByOverlap

-----------------------------------------------------------------------------
\* Links of one subject.

Subject == [purpose : Purpose, email : Email]

LEMMA BothFinite ==
  ASSUME NEW draft
  PROVE  /\ IsFiniteSet(Outstanding(draft)) /\ IsFiniteSet(Issuing(draft))
         /\ Cardinality(Outstanding(draft)) \in Nat
         /\ Cardinality(Issuing(draft)) \in Nat
         /\ Cardinality(Browser) \in Nat
         /\ Cardinality(Issuing(draft)) <= Cardinality(Browser)
<1>1. IsFiniteSet(Id) /\ Outstanding(draft) \subseteq Id
  BY FS_Interval, ConstantsAssumption DEF Id, Outstanding, Stored
<1>2. Issuing(draft) \subseteq Browser
  BY DEF Issuing
<1>. QED
  BY <1>1, <1>2, FS_Subset, FS_CardinalityType, ConstantsAssumption

\* A step after which no link is new and no request is new at the insert.
Fewer ==
  /\ \A i \in Stored' :
       i \in Stored /\ row'[i].purpose = row[i].purpose /\ row'[i].email = row[i].email
  /\ \A c \in Browser : pc'[c] = "issue" => pc[c] = "issue" /\ held'[c] = held[c]

LEMMA FewerKeeps ==
  ASSUME OneLinkPerRequest, Fewer
  PROVE  OneLinkPerRequest'
<1>1. SUFFICES ASSUME NEW draft \in Subject
               PROVE  Cardinality(Outstanding(draft)') + Cardinality(Issuing(draft)')
                        <= Cardinality(Browser)
  BY DEF OneLinkPerRequest, Subject
<1>2. Outstanding(draft)' \subseteq Outstanding(draft)
  BY DEF Fewer, Outstanding, SameSubject
<1>3. Issuing(draft)' \subseteq Issuing(draft)
  BY DEF Fewer, Issuing, SameSubject
<1>4. /\ Cardinality(Outstanding(draft)') <= Cardinality(Outstanding(draft))
      /\ Cardinality(Issuing(draft)') <= Cardinality(Issuing(draft))
      /\ Cardinality(Outstanding(draft)') \in Nat
      /\ Cardinality(Issuing(draft)') \in Nat
  BY <1>2, <1>3, BothFinite, FS_Subset, FS_CardinalityType
<1>5. Cardinality(Outstanding(draft)) + Cardinality(Issuing(draft)) <= Cardinality(Browser)
  BY DEF OneLinkPerRequest, Subject
<1>. QED
  BY <1>4, <1>5, BothFinite

LEMMA SpentSubject ==
  ASSUME TypeOK, NEW i \in Stored
  PROVE  /\ [row[i] EXCEPT !.state = "used"].purpose = row[i].purpose
         /\ [row[i] EXCEPT !.state = "used"].email = row[i].email
         /\ [row[i] EXCEPT !.state = "expired"].purpose = row[i].purpose
         /\ [row[i] EXCEPT !.state = "expired"].email = row[i].email
  BY StoredType DEF Link

LEMMA LeaveIssuing ==
  ASSUME TypeOK, NEW b \in Browser, Leave(b)
  PROVE  \A c \in Browser : pc'[c] = "issue" =>
           pc[c] = "issue" /\ held'[c] = held[c] /\ c # b
  BY DEF TypeOK, Leave

LEMMA MostAreFewer ==
  ASSUME TypeOK, Next,
         \A b \in Browser : ~ DeleteLinks(b) /\ \A i \in Id : ~ IssueLink(b, i)
  PROVE  Fewer
<1>1. ASSUME NEW b \in Browser, Leave(b), row' = row PROVE Fewer
  BY <1>1, LeaveIssuing DEF Fewer, Stored
<1>2. ASSUME NEW b \in Browser, NEW from, NEW to, Goto(b, from, to), to # "issue",
             row' = row, \A c \in Browser \ {b} : held'[c] = held[c]
      PROVE  Fewer
  BY <1>2 DEF Fewer, Goto, TypeOK, Stored
<1>3. ASSUME NEW b \in Browser, NEW from, NEW purpose, NEW u, NEW r,
             Prepare(b, from, purpose, u, r)
      PROVE  Fewer
  BY <1>2, <1>3 DEF Prepare, TypeOK
<1>4. ASSUME NEW b \in Browser, ClearDatabase(b) PROVE Fewer
  BY <1>4, LeaveIssuing DEF ClearDatabase, Fewer, Stored
<1>5. ASSUME NEW b \in Browser, NEW i \in Id, RevokeInvite(b, i) PROVE Fewer
  BY <1>5, LeaveIssuing DEF RevokeInvite, Fewer, Stored, TypeOK
<1>6. ASSUME NEW b \in Browser, AdminStep(b) PROVE Fewer
  <2>1. CASE Authorize(b)
    BY <1>2, <2>1 DEF Authorize
  <2>2. ASSUME NEW u \in Email,
               \/ Deactivate(b, u) \/ Reactivate(b, u)
               \/ \E r \in Role : SetRole(b, u, r)
        PROVE  Fewer
    BY <1>1, <2>2 DEF Deactivate, Reactivate, SetRole
  <2>3. ASSUME NEW u \in Email,
               CreateResetLink(b, u) \/ \E r \in Role : CreateInvite(b, u, r)
        PROVE  Fewer
    BY <1>3, <2>3 DEF CreateResetLink, CreateInvite
  <2>. QED
    BY <1>4, <1>5, <1>6, <2>1, <2>2, <2>3 DEF AdminStep
<1>7. ASSUME NEW b \in Browser, MarkUsed(b) PROVE Fewer
  <2>1. \A i \in Stored' :
          /\ i \in Stored
          /\ row'[i] = row[i] \/ row'[i] = [row[i] EXCEPT !.state = "used"]
    BY <1>7 DEF MarkUsed, Stored
  <2>. QED
    BY <1>7, <2>1, SpentSubject, LeaveIssuing DEF MarkUsed, Submitted, Fewer
<1>8. ASSUME NEW b \in Browser, LinkStep(b) PROVE Fewer
  <2>1. CASE JoinRefused(b)
    BY <1>1, <2>1 DEF JoinRefused
  <2>2. CASE Join(b) \/ ResetPassword(b)
    BY <1>2, <2>2 DEF Join, ResetPassword
  <2>3. ASSUME NEW u \in Email, RequestReset(b, u) PROVE Fewer
    BY <1>3, <2>3 DEF RequestReset
  <2>4. ASSUME NEW i \in Id, Submit(b, i) PROVE Fewer
    BY <1>2, <2>4 DEF Submit, TypeOK
  <2>. QED
    BY <1>7, <1>8, <2>1, <2>2, <2>3, <2>4 DEF LinkStep
<1>9. ASSUME NEW b \in Browser, SessionStep(b) PROVE Fewer
  <2>1. CASE FinishLogin(b) \/ Abandon(b)
    BY <1>1, <2>1 DEF FinishLogin, Abandon
  <2>2. CASE Logout(b)
    BY <2>2 DEF Logout, requestVars, Fewer, Stored
  <2>3. ASSUME NEW u \in Email, ReadCredentials(b, u) PROVE Fewer
    BY <1>2, <2>3 DEF ReadCredentials, TypeOK
  <2>. QED
    BY <1>9, <2>1, <2>2, <2>3 DEF SessionStep
<1>10. ASSUME NEW u \in Email, CreateAdmin(u) PROVE Fewer
  BY <1>10 DEF CreateAdmin, requestVars, Fewer, Stored
<1>11. ASSUME NEW i \in Id, Expire(i) PROVE Fewer
  <2>1. i \in Stored /\ \A j \in Stored' :
          /\ j \in Stored
          /\ row'[j] = row[j] \/ (j = i /\ row'[i] = [row[i] EXCEPT !.state = "expired"])
    BY <1>11 DEF Expire, Stored, TypeOK
  <2>. QED
    BY <1>11, <2>1, SpentSubject DEF Expire, requestVars, Fewer
<1>. QED
  BY <1>6, <1>8, <1>9, <1>10, <1>11 DEF Next

LEMMA DeleteLinksKeeps ==
  ASSUME TypeOK, OneLinkPerRequest, NEW b \in Browser, DeleteLinks(b)
  PROVE  OneLinkPerRequest'
<1>1. SUFFICES ASSUME NEW draft \in Subject
               PROVE  Cardinality(Outstanding(draft)') + Cardinality(Issuing(draft)')
                        <= Cardinality(Browser)
  BY DEF OneLinkPerRequest, Subject
<1>2. CASE SameSubject(held[b], draft)
  <2>1. Outstanding(draft)' = {}
    BY <1>2 DEF DeleteLinks, Outstanding, SameSubject, Stored
  <2>2. Issuing(draft)' \subseteq Browser
    BY DEF Issuing
  <2>. QED
    BY <2>1, <2>2, FS_EmptySet, FS_Subset, FS_CardinalityType, ConstantsAssumption
<1>3. CASE ~ SameSubject(held[b], draft)
  <2>1. Outstanding(draft)' \subseteq Outstanding(draft)
    BY DEF DeleteLinks, Outstanding, Stored
  <2>2. Issuing(draft)' \subseteq Issuing(draft)
    BY <1>3 DEF DeleteLinks, Goto, Issuing, SameSubject, TypeOK
  <2>3. /\ Cardinality(Outstanding(draft)') <= Cardinality(Outstanding(draft))
        /\ Cardinality(Issuing(draft)') <= Cardinality(Issuing(draft))
        /\ Cardinality(Outstanding(draft)') \in Nat
        /\ Cardinality(Issuing(draft)') \in Nat
    BY <2>1, <2>2, BothFinite, FS_Subset, FS_CardinalityType
  <2>4. Cardinality(Outstanding(draft)) + Cardinality(Issuing(draft))
          <= Cardinality(Browser)
    BY DEF OneLinkPerRequest, Subject
  <2>. QED
    BY <2>3, <2>4, BothFinite
<1>. QED
  BY <1>2, <1>3

LEMMA IssueLinkKeeps ==
  ASSUME TypeOK, OneLinkPerRequest, NEW b \in Browser, NEW i \in Id, IssueLink(b, i)
  PROVE  OneLinkPerRequest'
<1>1. SUFFICES ASSUME NEW draft \in Subject
               PROVE  Cardinality(Outstanding(draft)') + Cardinality(Issuing(draft)')
                        <= Cardinality(Browser)
  BY DEF OneLinkPerRequest, Subject
<1>2. /\ \A j \in Stored' : j # i => j \in Stored /\ row'[j] = row[j]
      /\ row'[i].purpose = held[b].purpose /\ row'[i].email = held[b].email
      /\ pc[b] = "issue" /\ i \notin Stored
  BY DEF IssueLink, TypeOK, Stored, NewId, Id
<1>3. \A c \in Browser : pc'[c] = "issue" => pc[c] = "issue" /\ held'[c] = held[c] /\ c # b
  BY LeaveIssuing DEF IssueLink
<1>4. Cardinality(Outstanding(draft)) + Cardinality(Issuing(draft)) <= Cardinality(Browser)
  BY DEF OneLinkPerRequest, Subject
<1>5. CASE SameSubject(held[b], draft)
  <2>1. Outstanding(draft)' \subseteq Outstanding(draft) \cup {i}
    BY <1>2 DEF Outstanding
  <2>2. Issuing(draft)' \subseteq Issuing(draft) \ {b} /\ b \in Issuing(draft)
    BY <1>2, <1>3, <1>5 DEF Issuing, SameSubject
  <2>3. /\ Cardinality(Outstanding(draft) \cup {i}) <= Cardinality(Outstanding(draft)) + 1
        /\ Cardinality(Outstanding(draft) \cup {i}) \in Nat
        /\ Cardinality(Outstanding(draft)') <= Cardinality(Outstanding(draft) \cup {i})
        /\ Cardinality(Outstanding(draft)') \in Nat
    <3>1. IsFiniteSet(Outstanding(draft) \cup {i})
      BY BothFinite, FS_AddElement
    <3>2. i \notin Outstanding(draft)
      BY <1>2 DEF Outstanding
    <3>3. Cardinality(Outstanding(draft) \cup {i}) = Cardinality(Outstanding(draft)) + 1
      BY <3>2, BothFinite, FS_AddElement
    <3>4. Cardinality(Outstanding(draft) \cup {i}) \in Nat
      BY <3>1, FS_CardinalityType
    <3>5. /\ Cardinality(Outstanding(draft)') <= Cardinality(Outstanding(draft) \cup {i})
          /\ IsFiniteSet(Outstanding(draft)')
      BY <2>1, <3>1, FS_Subset
    <3>6. Cardinality(Outstanding(draft)') \in Nat
      BY <3>5, FS_CardinalityType
    <3>7. Cardinality(Outstanding(draft)) \in Nat
      BY BothFinite
    <3>. QED
      BY <3>3, <3>4, <3>5, <3>6, <3>7
  <2>4. /\ Cardinality(Issuing(draft) \ {b}) = Cardinality(Issuing(draft)) - 1
        /\ Cardinality(Issuing(draft)') <= Cardinality(Issuing(draft) \ {b})
        /\ Cardinality(Issuing(draft)') \in Nat
    <3>1. /\ IsFiniteSet(Issuing(draft) \ {b})
          /\ Cardinality(Issuing(draft) \ {b}) = Cardinality(Issuing(draft)) - 1
      BY <2>2, BothFinite, FS_RemoveElement
    <3>. QED
      BY <2>2, <3>1, FS_Subset, FS_CardinalityType
  <2>. QED
    BY <1>4, <2>3, <2>4, BothFinite
<1>6. CASE ~ SameSubject(held[b], draft)
  <2>1. Outstanding(draft)' \subseteq Outstanding(draft)
    BY <1>2, <1>6 DEF Outstanding, SameSubject
  <2>2. Issuing(draft)' \subseteq Issuing(draft)
    BY <1>3 DEF Issuing, SameSubject
  <2>3. /\ Cardinality(Outstanding(draft)') <= Cardinality(Outstanding(draft))
        /\ Cardinality(Issuing(draft)') <= Cardinality(Issuing(draft))
        /\ Cardinality(Outstanding(draft)') \in Nat
        /\ Cardinality(Issuing(draft)') \in Nat
    BY <2>1, <2>2, BothFinite, FS_Subset, FS_CardinalityType
  <2>. QED
    BY <1>4, <2>3, BothFinite
<1>. QED
  BY <1>5, <1>6

\* create_invite and request_password_reset: a subject never has more links
\* than requests can overlap.
THEOREM LinksPerRequest == Spec => []OneLinkPerRequest
<1>1. Init => OneLinkPerRequest
  <2>1. SUFFICES ASSUME Init, NEW draft \in Subject
                 PROVE  Cardinality(Outstanding(draft)) + Cardinality(Issuing(draft))
                          <= Cardinality(Browser)
    BY DEF OneLinkPerRequest, Subject
  <2>2. Outstanding(draft) = {} /\ Issuing(draft) = {}
    BY <2>1 DEF Init, Outstanding, Stored, Issuing
  <2>. QED
    BY <2>2, FS_EmptySet, FS_CardinalityType, ConstantsAssumption
<1>2. TypeOK /\ OneLinkPerRequest /\ [Next]_vars => OneLinkPerRequest'
  <2>. SUFFICES ASSUME TypeOK, OneLinkPerRequest, [Next]_vars PROVE OneLinkPerRequest'
    OBVIOUS
  <2>1. CASE UNCHANGED vars
    BY <2>1, FewerKeeps DEF vars, Fewer, Stored
  <2>2. CASE Next
    BY <2>2, FewerKeeps, MostAreFewer, DeleteLinksKeeps, IssueLinkKeeps
  <2>. QED
    BY <2>1, <2>2
<1>. QED
  BY <1>1, <1>2, AccountsTypeCorrect, PTL DEF Spec
=============================================================================
