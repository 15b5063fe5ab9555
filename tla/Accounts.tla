------------------------------ MODULE Accounts ------------------------------
(***************************************************************************)
(* Accounts, sessions and the single-use links that invite a person or     *)
(* reset a password (auth.py, webapp.py, storage.py).  A request resolves  *)
(* the account of its session once, at its start; the handler then reads   *)
(* and writes in several transactions while other requests run.  Rows of   *)
(* auth_tokens are named by their rowid, which SQLite gives out again      *)
(* after the highest row was deleted.                                      *)
(***************************************************************************)
EXTENDS FiniteSets, Integers

CONSTANTS
  Email,        \* normalized addresses; an account is known by its address
  Role,         \* role tiers
  Admin,        \* the tier of administrators
  Browser,      \* browser sessions, each with at most one request at a time
  Development,  \* whether the application runs as development
  MaxIssued,    \* bound: how many links are ever issued
  None          \* no account, no session, no row

ASSUME ConstantsAssumption ==
  /\ Admin \in Role
  /\ None \notin Email \cup Role
  /\ IsFiniteSet(Browser)
  /\ Development \in BOOLEAN
  /\ MaxIssued \in Nat

VARIABLES
  account,  \* per address: its row in users
  row,      \* per rowid: a row of auth_tokens
  issued,   \* how many links have been issued; the last one's secret
  listed,   \* rowids that a page of pending invitations has shown
  session,  \* per browser: the account its session names
  pc,       \* per browser: where its request is
  actor,    \* per browser: the account the request was authorized as
  held,     \* per browser: the link that the request read or is to issue
  joined,   \* history: how many accounts each link has created
  done      \* history: links of which a submission ran to its end

vars == <<account, row, issued, listed, session, pc, actor, held, joined, done>>
requestVars == <<pc, actor, held>>

Id == 1..MaxIssued
Secret == 1..MaxIssued
Purpose == {"invite", "password_reset"}

NoAccount == [role |-> None, active |-> FALSE]
Account == [role : Role, active : BOOLEAN]

\* The subject of a link that is still to be issued; an invitation has a role.
HasRole(k) == k.purpose = "invite" => k.role \in Role
Draft == {k \in [purpose : Purpose, email : Email, role : Role \cup {None}] : HasRole(k)}

\* `expired' is a link whose time has passed without use.
LinkState == {"open", "used", "expired"}
Link ==
  {k \in [id : Id, secret : Secret, purpose : Purpose, email : Email,
          role : Role \cup {None}, state : LinkState] : HasRole(k)}

ASSUME RowAssumption == None \notin Link

Stage == {"idle", "admin", "clear", "issue", "apply", "mark", "login"}

\* What a login read.
Credentials == [email : Email, active : BOOLEAN]

TypeOK ==
  /\ account \in [Email -> Account \cup {NoAccount}]
  /\ row \in [Id -> Link \cup {None}]
  /\ \A i \in Id : row[i] # None => row[i].id = i
  /\ issued \in 0..MaxIssued
  /\ listed \subseteq Id
  /\ session \in [Browser -> Email \cup {None}]
  /\ pc \in [Browser -> Stage]
  /\ actor \in [Browser -> Email \cup {None}]
  /\ held \in [Browser -> Draft \cup Link \cup Credentials \cup {None}]
  /\ \A b \in Browser :
       /\ pc[b] = "admin" => actor[b] # None
       /\ pc[b] \in {"clear", "issue"} => held[b] \in Draft
       /\ pc[b] \in {"apply", "mark"} => held[b] \in Link
       /\ pc[b] = "login" => held[b] \in Credentials
  /\ joined \in [Secret -> Nat]
  /\ done \subseteq Secret

Init ==
  /\ account = [u \in Email |-> NoAccount]
  /\ row = [i \in Id |-> None]
  /\ issued = 0
  /\ listed = {}
  /\ session = [b \in Browser |-> None]
  /\ pc = [b \in Browser |-> "idle"]
  /\ actor = [b \in Browser |-> None]
  /\ held = [b \in Browser |-> None]
  /\ joined = [s \in Secret |-> 0]
  /\ done = {}

-----------------------------------------------------------------------------
Exists(u) == account[u] # NoAccount
IsAdmin(u) == account[u].role = Admin /\ account[u].active
ActiveAdmins == {u \in Email : IsAdmin(u)}

Stored == {i \in Id : row[i] # None}

\* The rowid of an insert: one above the highest row that is stored.
NewId(i) == i - 1 \in Stored \cup {0} /\ \A j \in Stored : j < i

Goto(b, from, to) == pc[b] = from /\ pc' = [pc EXCEPT ![b] = to]

\* The request ends, wherever it is.
Leave(b) ==
  /\ pc' = [pc EXCEPT ![b] = "idle"]
  /\ actor' = [actor EXCEPT ![b] = None]
  /\ held' = [held EXCEPT ![b] = None]

-----------------------------------------------------------------------------
\* Requests of administrators: what the middleware loads at the start passes
\* the guard once; the handler does not look at the account again.

Authorize(b) ==
  /\ Goto(b, "idle", "admin")
  /\ session[b] # None
  /\ IsAdmin(session[b])
  /\ actor' = [actor EXCEPT ![b] = session[b]]
  /\ UNCHANGED <<account, row, issued, listed, session, held, joined, done>>

\* The same without the check that the account is not the actor's own.
SetAnyRole(b, u, r) ==
  /\ pc[b] = "admin"
  /\ Exists(u)
  /\ account' = [account EXCEPT ![u].role = r]
  /\ Leave(b)
  /\ UNCHANGED <<row, issued, listed, session, joined, done>>

SetRole(b, u, r) ==
  /\ pc[b] = "admin"
  /\ u # actor[b]
  /\ Exists(u)
  /\ account' = [account EXCEPT ![u].role = r]
  /\ Leave(b)
  /\ UNCHANGED <<row, issued, listed, session, joined, done>>

Deactivate(b, u) ==
  /\ pc[b] = "admin"
  /\ u # actor[b]
  /\ Exists(u)
  /\ account' = [account EXCEPT ![u].active = FALSE]
  /\ Leave(b)
  /\ UNCHANGED <<row, issued, listed, session, joined, done>>

Reactivate(b, u) ==
  /\ pc[b] = "admin"
  /\ Exists(u)
  /\ account' = [account EXCEPT ![u].active = TRUE]
  /\ Leave(b)
  /\ UNCHANGED <<row, issued, listed, session, joined, done>>

\* The rowid comes from a page that may be old; the purpose is not checked.
RevokeInvite(b, i) ==
  /\ pc[b] = "admin"
  /\ i \in listed
  /\ row' = [row EXCEPT ![i] = None]
  /\ Leave(b)
  /\ UNCHANGED <<account, issued, listed, session, joined, done>>

ClearDatabase(b) ==
  /\ pc[b] = "admin"
  /\ Development
  /\ row' = [i \in Id |-> None]
  /\ Leave(b)
  /\ UNCHANGED <<account, issued, listed, session, joined, done>>

-----------------------------------------------------------------------------
\* A new link: the check of the account, the deletion of older links of the
\* same subject and the insert are three transactions.

Prepare(b, from, purpose, u, r) ==
  /\ Goto(b, from, "clear")
  /\ held' = [held EXCEPT ![b] = [purpose |-> purpose, email |-> u, role |-> r]]
  /\ UNCHANGED <<account, row, issued, listed, session, actor, joined, done>>

CreateInvite(b, u, r) == ~ Exists(u) /\ Prepare(b, "admin", "invite", u, r)
CreateResetLink(b, u) == Exists(u) /\ Prepare(b, "admin", "password_reset", u, None)
RequestReset(b, u) ==
  account[u].active /\ Prepare(b, "idle", "password_reset", u, None)

SameSubject(link, draft) ==
  link.purpose = draft.purpose /\ link.email = draft.email

\* The same without the deletion.
KeepLinks(b) ==
  /\ Goto(b, "clear", "issue")
  /\ UNCHANGED <<account, row, issued, listed, session, actor, held, joined, done>>

DeleteLinks(b) ==
  /\ Goto(b, "clear", "issue")
  /\ row' = [i \in Id |-> IF row[i] # None /\ SameSubject(row[i], held[b])
                            THEN None ELSE row[i]]
  /\ UNCHANGED <<account, issued, listed, session, actor, held, joined, done>>

IssueLink(b, i) ==
  /\ pc[b] = "issue"
  /\ issued < MaxIssued
  /\ NewId(i)
  /\ issued' = issued + 1
  /\ row' = [row EXCEPT ![i] =
       [id |-> i, secret |-> issued + 1, purpose |-> held[b].purpose,
        email |-> held[b].email, role |-> held[b].role, state |-> "open"]]
  /\ listed' = IF held[b].purpose = "invite" THEN listed \cup {i} ELSE listed
  /\ Leave(b)
  /\ UNCHANGED <<account, session, joined, done>>

-----------------------------------------------------------------------------
\* A submitted link: _usable_token, then the action (a password is hashed for
\* a while), then the mark.

Submit(b, i) ==
  /\ Goto(b, "idle", "apply")
  /\ row[i] # None
  /\ row[i].state = "open"
  /\ held' = [held EXCEPT ![b] = row[i]]
  /\ UNCHANGED <<account, row, issued, listed, session, actor, joined, done>>

\* The same with an upsert instead of an insert of the account.
JoinAgain(b) ==
  /\ Goto(b, "apply", "mark")
  /\ held[b].purpose = "invite"
  /\ account' = [account EXCEPT ![held[b].email] =
                   [role |-> held[b].role, active |-> TRUE]]
  /\ joined' = [joined EXCEPT ![held[b].secret] = @ + 1]
  /\ UNCHANGED <<row, issued, listed, session, actor, held, done>>

Join(b) ==
  /\ Goto(b, "apply", "mark")
  /\ held[b].purpose = "invite"
  /\ ~ Exists(held[b].email)
  /\ account' = [account EXCEPT ![held[b].email] =
                   [role |-> held[b].role, active |-> TRUE]]
  /\ joined' = [joined EXCEPT ![held[b].secret] = @ + 1]
  /\ UNCHANGED <<row, issued, listed, session, actor, held, done>>

\* The unique address refuses the account: the link stays as it is.
JoinRefused(b) ==
  /\ pc[b] = "apply"
  /\ held[b].purpose = "invite"
  /\ Exists(held[b].email)
  /\ Leave(b)
  /\ UNCHANGED <<account, row, issued, listed, session, joined, done>>

\* The new password itself is not told apart.
ResetPassword(b) ==
  /\ Goto(b, "apply", "mark")
  /\ held[b].purpose = "password_reset"
  /\ UNCHANGED <<account, row, issued, listed, session, actor, held, joined, done>>

\* The end of a submission; an invitation also logs the person in.
Submitted(b) ==
  /\ pc[b] = "mark"
  /\ done' = done \cup {held[b].secret}
  /\ session' = IF held[b].purpose = "invite"
                  THEN [session EXCEPT ![b] = held[b].email] ELSE session
  /\ Leave(b)
  /\ UNCHANGED <<account, issued, listed, joined>>

\* The same for all links of the subject.
MarkSubject(b) ==
  /\ Submitted(b)
  /\ row' = [i \in Id |-> IF row[i] # None /\ SameSubject(row[i], held[b])
                            THEN [row[i] EXCEPT !.state = "used"] ELSE row[i]]

\* The same for invitations only.
MarkInvite(b) ==
  /\ Submitted(b)
  /\ row' = [i \in Id |->
       IF i = held[b].id /\ row[i] # None /\ held[b].purpose = "invite"
         THEN [row[i] EXCEPT !.state = "used"] ELSE row[i]]

\* The row that now has the rowid which the submission read.
MarkUsed(b) ==
  /\ Submitted(b)
  /\ row' = [i \in Id |-> IF i = held[b].id /\ row[i] # None
                            THEN [row[i] EXCEPT !.state = "used"] ELSE row[i]]

-----------------------------------------------------------------------------
\* Sessions.

\* The credentials are read, then a password is verified for a while, also
\* for an address without an account.
ReadCredentials(b, u) ==
  /\ Goto(b, "idle", "login")
  /\ held' = [held EXCEPT ![b] = [email |-> u, active |-> account[u].active]]
  /\ UNCHANGED <<account, row, issued, listed, session, actor, joined, done>>

FinishLogin(b) ==
  /\ pc[b] = "login"
  /\ held[b].active
  /\ session' = [session EXCEPT ![b] = held[b].email]
  /\ Leave(b)
  /\ UNCHANGED <<account, row, issued, listed, joined, done>>

Logout(b) ==
  /\ pc[b] = "idle"
  /\ session[b] # None
  /\ session' = [session EXCEPT ![b] = None]
  /\ UNCHANGED <<account, row, issued, listed, requestVars, joined, done>>

-----------------------------------------------------------------------------
\* The command line, time and failures.

CreateAdmin(u) ==
  /\ ~ Exists(u)
  /\ account' = [account EXCEPT ![u] = [role |-> Admin, active |-> TRUE]]
  /\ UNCHANGED <<row, issued, listed, session, requestVars, joined, done>>

Expire(i) ==
  /\ row[i] # None
  /\ row[i].state = "open"
  /\ row' = [row EXCEPT ![i].state = "expired"]
  /\ UNCHANGED <<account, issued, listed, session, requestVars, joined, done>>

\* A wrong password, an invalid form, a busy database or a restart.
Abandon(b) ==
  /\ pc[b] # "idle"
  /\ Leave(b)
  /\ UNCHANGED <<account, row, issued, listed, session, joined, done>>

AdminStep(b) ==
  \/ Authorize(b) \/ ClearDatabase(b)
  \/ \E i \in Id : RevokeInvite(b, i)
  \/ \E u \in Email :
       \/ Deactivate(b, u) \/ Reactivate(b, u) \/ CreateResetLink(b, u)
       \/ \E r \in Role : SetRole(b, u, r) \/ CreateInvite(b, u, r)

LinkStep(b) ==
  \/ DeleteLinks(b) \/ Join(b) \/ JoinRefused(b) \/ ResetPassword(b) \/ MarkUsed(b)
  \/ \E u \in Email : RequestReset(b, u)
  \/ \E i \in Id : IssueLink(b, i) \/ Submit(b, i)

SessionStep(b) ==
  \/ FinishLogin(b) \/ Logout(b) \/ Abandon(b)
  \/ \E u \in Email : ReadCredentials(b, u)

Next ==
  \/ \E b \in Browser : AdminStep(b) \/ LinkStep(b) \/ SessionStep(b)
  \/ \E u \in Email : CreateAdmin(u)
  \/ \E i \in Id : Expire(i)

Spec == Init /\ [][Next]_vars

-----------------------------------------------------------------------------
\* What the accounts promise.

\* Nobody demotes or deactivates themselves, which "removes the last admin
\* failure class": the last active administrator can only go through a request
\* whose own actor lost the role after the guard of require_role had passed.
LastAdminLostOnlyByOverlap ==
  [][ActiveAdmins # {} /\ ActiveAdmins' = {} =>
       \E b \in Browser : /\ pc[b] = "admin" /\ pc'[b] = "idle"
                          /\ actor[b] \notin ActiveAdmins]_account

\* An invitation creates one account at most, although accept_invite checks
\* it long before it marks it, a restart may fall between the two, and the
\* rowid it marks may belong to another link by then.
InvitedOnce == \A s \in Secret : joined[s] <= 1

\* create_invite and request_password_reset delete the older links of a
\* subject in a transaction of their own: more than one link is stored for a
\* subject only as long as that many requests overlapped.
Outstanding(draft) == {i \in Stored : SameSubject(row[i], draft)}
Issuing(draft) ==
  {b \in Browser : pc[b] = "issue" /\ SameSubject(held[b], draft)}

OneLinkPerRequest ==
  \A draft \in [purpose : Purpose, email : Email] :
    Cardinality(Outstanding(draft)) + Cardinality(Issuing(draft))
      <= Cardinality(Browser)

\* "Consume a token so it can never authorize a second action": once one
\* submission of a link ran to its end, _usable_token refuses the link.
SpentLinksRefused ==
  \A i \in Stored : row[i].secret \in done => row[i].state # "open"

Holding(b) == pc[b] \in {"apply", "mark"}

Submitting == {b \in Browser : Holding(b)}
Issued == 1..issued

\* A secret names one row, and one rowid while a submission holds it.
SecretsUnique ==
  /\ \A i, j \in Stored : row[i].secret = row[j].secret => i = j
  /\ \A b \in Submitting, i \in Stored : row[i].secret = held[b].secret =>
       i = held[b].id /\ row[i].email = held[b].email
  /\ \A b, c \in Submitting : held[b].secret = held[c].secret =>
       held[b].id = held[c].id /\ held[b].email = held[c].email

\* A link that let someone in is of an address with an account.
JoinedExist ==
  /\ \A i \in Stored : joined[row[i].secret] # 0 => Exists(row[i].email)
  /\ \A b \in Submitting : joined[held[b].secret] # 0 => Exists(held[b].email)

\* Whatever is known of a secret was known after it was issued.
SecretsIssued ==
  /\ done \subseteq Issued
  /\ \A s \in Secret : joined[s] # 0 => s \in Issued
  /\ \A i \in Stored : row[i].secret \in Issued
  /\ \A b \in Submitting : held[b].secret \in Issued

\* The inductive form of InvitedOnce and SpentLinksRefused.
LinkInv ==
  /\ SecretsUnique /\ JoinedExist /\ SecretsIssued
  /\ InvitedOnce /\ SpentLinksRefused

\* mark_auth_token_used names a row by its rowid: a link is spent by its own
\* submission, or by one whose own row was deleted in the meantime.
SpentByItsSubmission ==
  [][\A i \in Stored :
       row[i].state = "open" /\ row'[i] = [row[i] EXCEPT !.state = "used"] =>
         \E b \in Browser :
           /\ pc[b] = "mark"
           /\ held[b].id = i
           /\ \/ held[b].secret = row[i].secret
              \/ \A j \in Stored : row[j].secret # held[b].secret]_row
=============================================================================
