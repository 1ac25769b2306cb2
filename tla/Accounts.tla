------------------------------- MODULE Accounts -------------------------------
(***************************************************************************)
(* User accounts and access tokens: register, POST /users and seed_admin   *)
(* make accounts, login and register hand out access tokens, a password    *)
(* reset changes an account, and get_current_user admits or refuses a      *)
(* token.  Each query or commit is a step of its own.  The refresh tokens  *)
(* that go with the access tokens are in TokenSessions, the code and reset *)
(* token that lead to a reset in PasswordReset.                            *)
(*                                                                         *)
(* An account is named by the request that made it, a password by the      *)
(* request that set it, an access token by the request it was issued to.   *)
(* The clock counts half seconds: iat and password_changed_at are compared *)
(* in whole seconds, and only the second is kept with its fraction.        *)
(* Nobody sees it move but those who look at it, so looking at it is what  *)
(* moves it, by any amount.  A token past its lifetime (24 hours) counts   *)
(* as one never issued.                                                    *)
(***************************************************************************)
EXTENDS Integers, FiniteSets, TLC

CONSTANTS
  Registers, Creates, Seeds,   \* requests that make accounts, and script runs
  Logins, Resets, Uses,        \* Uses: requests of an admin route
  Unreliable,                  \* requests that may fail
  Emails, Lower,               \* emails as typed, and their lower-case form
  LastTick,                    \* bound of the clock
  None

Makers   == Registers \union Creates \union Seeds
Issuers  == Registers \union Logins
Requests == Makers \union Logins \union Resets \union Uses

ASSUME AccountAssumption ==
  /\ Unreliable \subseteq Requests
  /\ Makers \intersect Logins = {} /\ (Makers \union Logins) \intersect Resets = {}
  /\ Uses \intersect (Makers \union Logins \union Resets) = {}
  /\ DOMAIN Lower = Emails /\ LastTick \in Nat
  /\ None \notin Requests \union Emails \union Nat

VARIABLES
  user,      \* committed rows: [email, role, password, changed], or None
  now,       \* the clock when it was last looked at
  pc, req,   \* per request: where its handler is, and what was asked
  resp,      \* HTTP status; of seed_admin 201 created, 409 exists, 500 raised
  account,   \* per request: the row it works on, or None
  stamp,     \* per issuer and reset: the time it took from the clock, or None
  mailed,    \* per reset: the account whose address its code was mailed to
  past       \* history: the requests answered before this one arrived, as far
             \* as they can matter to it

vars == <<user, now, pc, req, resp, account, stamp, mailed, past>>

Init ==
  /\ user = [m \in Makers |-> None] /\ now = 0
  /\ pc = [r \in Requests |-> "idle"] /\ req = [r \in Requests |-> None]
  /\ resp = [r \in Requests |-> None] /\ account = [r \in Requests |-> None]
  /\ stamp = [r \in Issuers \union Resets |-> None]
  /\ mailed = [s \in Resets |-> None] /\ past = [r \in Requests |-> {}]

Goto(r, label) == pc' = [pc EXCEPT ![r] = label] /\ UNCHANGED resp
Finish(r, status) ==
  pc' = [pc EXCEPT ![r] = "done"] /\ resp' = [resp EXCEPT ![r] = status]
Answer(r, status) ==
  Finish(r, status) \/ (r \in Unreliable /\ Finish(r, 500))
Open(r) == pc[r] \notin {"idle", "done"}

Arrive(r, body) ==
  /\ pc[r] = "idle"
  /\ req' = [req EXCEPT ![r] = body]
  /\ past' = [past EXCEPT ![r] =
       { q \in IF r \in Logins THEN {body.password} ELSE Resets : pc[q] = "done" }]

Look == now' \in now .. LastTick

Stored == { m \in Makers : user[m] # None }
ByEmail(e) == { m \in Stored : user[m].email = e }
ByLower(e) == { m \in Stored : Lower[user[m].email] = e }   \* e in lower case

-----------------------------------------------------------------------------
(* create_user and seed_admin                                               *)

LookUp(m) ==
  \E e \in Emails :
    /\ Arrive(m, [email |-> e])
    /\ IF ByEmail(e) # {} THEN Finish(m, 409) ELSE Goto(m, "insert")
    /\ UNCHANGED <<user, now, account, stamp, mailed>>

Row(m) ==
  [email |-> req[m].email, role |-> IF m \in Seeds THEN "admin" ELSE "user",
   password |-> m, changed |-> None]

\* Mutant: ON CONFLICT DO NOTHING.
Insert_OrNothing(m) ==
  /\ pc[m] = "insert"
  /\ user' = IF ByEmail(req[m].email) = {} THEN [user EXCEPT ![m] = Row(m)] ELSE user
  /\ \/ m \in Registers /\ Goto(m, "verify")
     \/ m \notin Registers /\ Finish(m, 201)
  /\ UNCHANGED <<now, req, account, stamp, mailed, past>>

\* Mutant: no unique index.
Insert_Twice(m) ==
  /\ pc[m] = "insert"
  /\ user' = [user EXCEPT ![m] = Row(m)]
  /\ \/ m \in Registers /\ Goto(m, "verify")
     \/ m \notin Registers /\ Finish(m, 201)
  /\ UNCHANGED <<now, req, account, stamp, mailed, past>>

\* INSERT and COMMIT: between them another INSERT of the email would only
\* wait.  The IntegrityError of the unique index is not handled; register
\* goes on with login, unless the reply to the COMMIT is lost.
Insert(m) ==
  /\ pc[m] = "insert"
  /\ \/ /\ ByEmail(req[m].email) # {}
        /\ Finish(m, 500) /\ UNCHANGED user
     \/ /\ ByEmail(req[m].email) = {}
        /\ user' = [user EXCEPT ![m] = Row(m)]
        /\ \/ m \in Registers /\ Goto(m, "verify")
           \/ m \notin Registers /\ Finish(m, 201)
           \/ m \in Unreliable /\ Finish(m, 500)
  /\ UNCHANGED <<now, req, account, stamp, mailed, past>>

-----------------------------------------------------------------------------
(* login                                                                    *)

\* Mutant: the account is found whatever the case of the email.
Matching_AnyCase(e) == ByLower(Lower[e])

Matching(e) == ByEmail(e)

\* get_by_email and verify_password; r is refused with the given status.
Verify(r, e, p, status) ==
  LET refuse == Finish(r, status) /\ UNCHANGED account IN
  /\ \/ Matching(e) = {} /\ refuse
     \/ \E m \in Matching(e) :
          \/ user[m].password # p /\ refuse
          \/ /\ user[m].password = p
             /\ account' = [account EXCEPT ![r] = m]
             /\ Goto(r, "issue")
  /\ UNCHANGED <<user, now, stamp, mailed>>

ReceiveLogin(l) ==
  \E e \in Emails, p \in { q \in Makers \union Resets : pc[q] # "idle" } :
    Arrive(l, [email |-> e, password |-> p]) /\ Verify(l, e, p, 401)

\* register logs in, and does not handle an InvalidCredentialsError.
VerifyNew(g) ==
  /\ pc[g] = "verify"
  /\ Verify(g, req[g].email, g, 500)
  /\ UNCHANGED <<req, past>>

\* create_token_pair and the commit.
Issue(r) ==
  /\ pc[r] = "issue"
  /\ Look /\ stamp' = [stamp EXCEPT ![r] = now']
  /\ Answer(r, IF r \in Logins THEN 200 ELSE 201)
  /\ UNCHANGED <<user, req, account, mailed, past>>

-----------------------------------------------------------------------------
(* The accounts a password reset touches                                    *)

\* forgot_password mails a code to the row that LIMIT 1 returns; what follows
\* until the reset token is presented is in PasswordReset.
MailCode(s) ==
  \E e \in { Lower[f] : f \in Emails } : \E m \in ByLower(e) :
    /\ Arrive(s, [email |-> e])
    /\ mailed' = [mailed EXCEPT ![s] = m]
    /\ Goto(s, "change")
    /\ UNCHANGED <<user, now, account, stamp>>

\* reset_password_step looks the row up again and assigns to it.
ChangePassword(s) ==
  /\ pc[s] = "change"
  /\ \E m \in ByLower(req[s].email) : account' = [account EXCEPT ![s] = m]
  /\ Look /\ stamp' = [stamp EXCEPT ![s] = now']
  /\ Goto(s, "commit")
  /\ UNCHANGED <<user, req, mailed, past>>

\* Mutant: password_changed_at is not set.
CommitReset_Undated(s) ==
  /\ pc[s] = "commit"
  /\ user' = [user EXCEPT ![account[s]].password = s]
  /\ Answer(s, 200)
  /\ UNCHANGED <<now, req, account, stamp, mailed, past>>

\* UPDATE and COMMIT of the two columns.
CommitReset(s) ==
  /\ pc[s] = "commit"
  /\ user' = [user EXCEPT ![account[s]].password = s, ![account[s]].changed = stamp[s]]
  /\ Answer(s, 200)
  /\ UNCHANGED <<now, req, account, stamp, mailed, past>>

-----------------------------------------------------------------------------
(* get_current_user and require_role                                        *)

Seconds(t) == t \div 2

\* Mutant: no leeway for a login within the second of the reset.
Outdated_Strict(t) ==
  LET changed == user[account[t]].changed IN
  changed # None /\ Seconds(stamp[t]) <= Seconds(changed)

\* int(iat) < int(password_changed_at) - 1
Outdated(t) ==
  LET changed == user[account[t]].changed IN
  changed # None /\ Seconds(stamp[t]) < Seconds(changed) - 1

\* A request to a route for admins; other routes lack the last line's 403.
Use(u) ==
  \E t \in Issuers :
    /\ resp[t] \in {200, 201}
    /\ Arrive(u, [token |-> t])
    /\ \/ Outdated(t) /\ Finish(u, 401)
       \/ ~Outdated(t) /\ Finish(u, IF user[account[t]].role = "admin" THEN 200 ELSE 403)
    /\ UNCHANGED <<user, now, account, stamp, mailed>>

-----------------------------------------------------------------------------

\* A statement fails, or the process stops: the transaction is rolled back.
Fail(r) ==
  /\ r \in Unreliable /\ Open(r) /\ Finish(r, 500)
  /\ UNCHANGED <<user, now, req, account, stamp, mailed, past>>

Next ==
  \/ \E m \in Makers : LookUp(m) \/ Insert(m)
  \/ \E l \in Logins : ReceiveLogin(l)
  \/ \E g \in Registers : VerifyNew(g)
  \/ \E r \in Issuers : Issue(r)
  \/ \E s \in Resets : MailCode(s) \/ ChangePassword(s) \/ CommitReset(s)
  \/ \E u \in Uses : Use(u)
  \/ \E r \in Requests : Fail(r)

Spec == Init /\ [][Next]_vars
=============================================================================
