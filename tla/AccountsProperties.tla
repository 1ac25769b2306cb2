-------------------------- MODULE AccountsProperties --------------------------
(***************************************************************************)
(* What accounts and access tokens promise although emails are looked up   *)
(* and inserted in two steps, resets overlap, and times are compared in    *)
(* seconds.                                                                *)
(***************************************************************************)
EXTENDS Accounts

UserRow == [email : Emails, role : {"user", "admin"},
            password : Makers \union Resets, changed : 0 .. LastTick \union {None}]
ASSUME RowAssumption == None \notin UserRow
Body == [email : Emails \union { Lower[e] : e \in Emails }]
LoginBody == [email : Emails, password : Makers \union Resets]

\* Types, and an email never names two accounts (user.email is unique; the
\* lookup of create_user.py:17 does not see a registration under way).
TypeOK ==
  /\ user \in [Makers -> UserRow \union {None}]
  /\ \A m, n \in Stored : user[m].email = user[n].email => m = n
  /\ now \in 0 .. LastTick
  /\ pc \in [Requests -> {"idle", "insert", "verify", "issue", "change", "commit", "done"}]
  /\ req \in [Requests -> {None} \union Body \union LoginBody \union [token : Issuers]]
  /\ resp \in [Requests -> {None, 200, 201, 401, 403, 409, 500}]
  /\ account \in [Requests -> Makers \union {None}]
  /\ \A r \in Requests : account[r] # None => account[r] \in Stored
  /\ stamp \in [Issuers \union Resets -> 0 .. LastTick \union {None}]
  /\ mailed \in [Resets -> Makers \union {None}]
  /\ past \in [Requests -> SUBSET Requests]

\* Of requests racing for an email one gets the account: 201 means that the
\* account is the request's own, with its email and role, 409 that another
\* has the email, and only an error leaves the client in doubt
\* (create_user.py:17-23, seed_admin.py:26-33, auth.py:44-52).
RepliesAreTrue ==
  \A m \in Makers :
    /\ resp[m] = 201 =>
         /\ m \in Stored /\ user[m].email = req[m].email
         /\ user[m].role = "admin" <=> m \in Seeds
    /\ resp[m] = 409 => m \notin Stored /\ ByEmail(req[m].email) # {}

\* s set the password of account m, or may have.
Sets(s, m) ==
  \/ s = m /\ m \in Stored
  \/ s \in Resets /\ account[s] = m /\ resp[s] \in {200, 500}
Twins(m) == ByLower(Lower[user[m].email]) \ {m}

\* Whoever was told of a new password can log in with it: a registration whose
\* login failed (auth.py:44-52, the client gets 500 for an account that
\* exists), and a reset, for the account its code was mailed to.  The
\* exceptions: a reset that did not end before this one set the password, and
\* an account whose email differs in case only, as forgot-password and
\* reset-password may each pick either (user_repository.py:16-23).
RightPasswordLogsIn ==
  \A l \in Logins, m \in Stored :
    ( /\ resp[l] = 401 /\ req[l].email = user[m].email /\ req[l].password \in past[l]
      /\ LET s == req[l].password IN
         s = m \/ (s \in Resets /\ mailed[s] = m /\ resp[s] = 200) )
    => \/ \E s \in Resets \ {req[l].password} :
            Sets(s, m) /\ s \notin past[req[l].password]
       \/ req[l].password \in Resets /\ Twins(m) # {}

Admitted(u)  == resp[u] \in {200, 403}
Overlap(s, r) == s \notin past[r] /\ r \notin past[s]

\* Once a reset of its account was answered, an access token issued two
\* seconds or more before the reset is refused, unless another reset of that
\* account overlapped and put back the time (password_reset.py:75, deps.py:47;
\* tests/integration/test_password_reset_invalidation.py:4).
AccessEndsWithReset ==
  \A u \in Uses : Admitted(u) =>
    LET t == req[u].token IN
    \A s \in Resets \intersect past[u] :
      resp[s] = 200 /\ account[s] = account[t] /\ stamp[t] + 4 <= stamp[s] =>
        \E r \in Resets \ {s} :
          account[r] = account[s] /\ pc[r] = "done" /\ Overlap(r, s)

\* A token is refused only if a reset of its account took the time after it was
\* issued: who logs in after a reset stays logged in,
\* were it in the same second (deps.py:47, the floor of
\* tests/integration/test_password_reset_invalidation.py:5).
NewSessionsAreAccepted ==
  \A u \in Uses : resp[u] = 401 =>
    LET t == req[u].token IN
    \E s \in Resets : account[s] = account[t] /\ stamp[s] # None /\ stamp[t] < stamp[s]

-----------------------------------------------------------------------------
(* The inductive invariant behind these properties.                         *)

\* Where a handler of each kind can be, and what it was asked.
Places ==
  /\ \A m \in Makers :
       /\ pc[m] \in {"idle", "insert", "done"} \/ (m \in Registers /\ pc[m] \in {"verify", "issue"})
       /\ pc[m] # "idle" => req[m] \in [email : Emails]
  /\ \A l \in Logins :
       /\ pc[l] \in {"idle", "issue", "done"}
       /\ pc[l] # "idle" => req[l] \in LoginBody
  /\ \A s \in Resets :
       /\ pc[s] \in {"idle", "change", "commit", "done"}
       /\ pc[s] # "idle" => req[s] \in [email : { Lower[e] : e \in Emails }]
  /\ \A u \in Uses :
       /\ pc[u] \in {"idle", "done"}
       /\ pc[u] # "idle" => req[u] \in [token : Issuers] /\ pc[req[u].token] = "done"
  /\ \A r \in Requests : pc[r] = "done" <=> resp[r] # None

\* What a handler has done by then: the row it made, the row it works on and
\* the time it took.
Progress ==
  /\ \A m \in Makers :
       /\ m \in Stored =>
            /\ pc[m] \in {"verify", "issue", "done"}
            /\ user[m].email = req[m].email
            /\ user[m].role = "admin" <=> m \in Seeds
       /\ pc[m] \in {"verify", "issue"} => m \in Stored
  /\ \A t \in Issuers :
       /\ pc[t] = "issue" => account[t] # None
       /\ resp[t] \in {200, 201} => account[t] # None /\ stamp[t] # None
  /\ \A s \in Resets :
       /\ pc[s] \in {"idle", "change"} => account[s] = None
       /\ account[s] # None <=> stamp[s] # None
       /\ pc[s] = "commit" \/ resp[s] = 200 => account[s] # None

\* The accounts a reset works on have the email it was asked for.
Found ==
  \A s \in Resets : \A m \in {mailed[s], account[s]} \ {None} :
    m \in Stored /\ Lower[user[m].email] = req[s].email

\* What was answered before a request arrived: it took its time earlier, and a
\* reset among it was not of an account made later.
Order ==
  /\ \A r \in Issuers \union Resets : stamp[r] # None => stamp[r] <= now
  /\ \A r \in Requests : \A q \in past[r] : pc[q] = "done"
  /\ \A r, s \in Resets :
       s \in past[r] /\ stamp[s] # None /\ stamp[r] # None => stamp[s] <= stamp[r]
  /\ \A m \in Makers : \A s \in Resets \intersect past[m] : account[s] # m

\* The two columns come from one and the same reset, and it had not been
\* answered before any other that was answered 200 arrived.
LastReset ==
  \A m \in Stored :
    LET q == user[m].password IN
    \/ /\ q = m /\ user[m].changed = None
       /\ \A s \in Resets : ~(account[s] = m /\ resp[s] = 200)
    \/ /\ q \in Resets /\ account[q] = m /\ resp[q] \in {200, 500}
       /\ user[m].changed = stamp[q]
       /\ \A s \in Resets : account[s] = m /\ resp[s] = 200 => q \notin past[s]

AccountInvariant ==
  /\ TypeOK /\ Places /\ Progress /\ Found /\ Order /\ LastReset
  /\ RepliesAreTrue /\ RightPasswordLogsIn /\ AccessEndsWithReset /\ NewSessionsAreAccepted
=============================================================================
