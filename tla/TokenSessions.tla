---------------------------- MODULE TokenSessions ----------------------------
(***************************************************************************)
(* Login, refresh and the database half of a password reset: the handlers  *)
(* of app/api/v1/routes/auth.py with services/login.py, JwtTokenService    *)
(* and reset_password_step, running concurrently over the tables user and  *)
(* refresh_token in PostgreSQL at READ COMMITTED.                          *)
(*                                                                         *)
(* A statement sees what is committed when it starts.  An UPDATE locks the *)
(* rows it changes until its transaction ends, and waits for a row that    *)
(* another transaction has locked; it then looks at the row again, but not *)
(* for rows committed in the meantime.  A bulk UPDATE locks its rows one   *)
(* after the other, in an order that depends on the plan.                  *)
(*                                                                         *)
(* A token is named by the request that issues it, a family by its login,  *)
(* a password by the reset that sets it.                                   *)
(***************************************************************************)
EXTENDS Integers, FiniteSets, TLC

CONSTANTS
  Logins, Refreshes, Resets,   \* requests
  Users,
  Expiring,                    \* tokens that may expire
  Initial,                     \* the password every user starts with
  None

ASSUME TokenAssumption ==
  /\ Logins \intersect Refreshes = {} /\ Logins \intersect Resets = {}
  /\ Refreshes \intersect Resets = {}
  /\ None \notin Users \union Logins \union Refreshes
  /\ None \notin [user : Users, family : Logins, revoked : BOOLEAN]
  /\ None \notin {200, 401, 500} /\ Initial \notin Resets
  /\ Expiring \subseteq Logins \union Refreshes

VARIABLES
  password,   \* password[u]: committed; "user"."password_hash"
  token,      \* token[t]: committed row [user, family, revoked], or None
  expired,    \* tokens past their expires_at
  pc, req,    \* per request: where its handler is, and what was asked
  resp,       \* per request: HTTP status; 500 also for a dropped connection
  aimed,      \* per request: the rows its bulk UPDATE matched when it started
  left,       \* per request: those of them it has not reached yet
  locks,      \* per request: token rows it has updated and not committed
  past        \* history: the requests answered before this one arrived

tables == <<password, token>>
vars   == <<password, token, expired, pc, req, resp, aimed, left, locks, past>>

Tokens   == Logins \union Refreshes
Requests == Tokens \union Resets

Init ==
  /\ password = [u \in Users |-> Initial]
  /\ token = [t \in Tokens |-> None]
  /\ expired = {}
  /\ pc = [r \in Requests |-> "idle"]
  /\ req = [r \in Requests |-> None] /\ resp = [r \in Requests |-> None]
  /\ aimed = [r \in Requests |-> {}] /\ left = [r \in Requests |-> {}]
  /\ locks = [r \in Requests |-> {}]
  /\ past = [r \in Requests |-> {}]

Goto(r, label) == pc' = [pc EXCEPT ![r] = label] /\ UNCHANGED resp
Finish(r, status) ==
  pc' = [pc EXCEPT ![r] = "done"] /\ resp' = [resp EXCEPT ![r] = status]
Done == { r \in Requests : pc[r] = "done" }
Open(r) == pc[r] \notin {"idle", "done"}

Arrive(r, body) ==
  /\ pc[r] = "idle"
  /\ req' = [req EXCEPT ![r] = body]
  /\ past' = [past EXCEPT ![r] = Done]

Committed == { t \in Tokens : token[t] # None }
LockedByOther(r, t) == \E s \in Requests \ {r} : t \in locks[s]
Revoked(group) ==
  [t \in Tokens |-> IF t \in group THEN [token[t] EXCEPT !.revoked = TRUE] ELSE token[t]]

-----------------------------------------------------------------------------
(* POST /auth/login                                                         *)

ReceiveLogin(l) ==
  /\ \E u \in Users, p \in Resets \union {Initial} :
       Arrive(l, [user |-> u, password |-> p])
  /\ Goto(l, "credentials")
  /\ UNCHANGED <<tables, expired, aimed, left, locks>>

CheckCredentials(l) ==
  /\ pc[l] = "credentials"
  /\ \/ password[req[l].user] # req[l].password /\ Finish(l, 401)
     \/ password[req[l].user] = req[l].password /\ Goto(l, "insert")
  /\ UNCHANGED <<tables, expired, req, aimed, left, locks, past>>

-----------------------------------------------------------------------------
(* POST /auth/refresh: rotate.  Clients know the tokens they were sent.     *)

\* What the client presents, and whether it had expired when rotate took the
\* time; None stands for a token that was never issued.
ReceiveRefresh(f) ==
  /\ \E t \in { s \in Tokens : resp[s] = 200 } \union {None} :
       Arrive(f, [token |-> t, late |-> t \in expired])
  /\ Goto(f, "read")
  /\ UNCHANGED <<tables, expired, aimed, left, locks>>

\* Mutant: a revoked token that has expired as well is only refused.
ReadToken_ExpiryFirst(f) ==
  LET t == req[f].token IN
  /\ pc[f] = "read"
  /\ \/ (t = None \/ req[f].late) /\ Finish(f, 401)
     \/ t # None /\ token[t].revoked /\ ~req[f].late /\ Goto(f, "burn")
     \/ t # None /\ ~token[t].revoked /\ ~req[f].late /\ Goto(f, "mark")
  /\ UNCHANGED <<tables, expired, req, aimed, left, locks, past>>

\* Revocation is looked at before expiry.  The query for the user is part of
\* the step: it finds a row that never changes as far as rotate looks at it.
ReadToken(f) ==
  LET t == req[f].token IN
  /\ pc[f] = "read"
  /\ \/ t = None /\ Finish(f, 401)
     \/ t # None /\ token[t].revoked /\ Goto(f, "burn")
     \/ t # None /\ ~token[t].revoked /\ req[f].late /\ Finish(f, 401)
     \/ t # None /\ ~token[t].revoked /\ ~req[f].late /\ Goto(f, "mark")
  /\ UNCHANGED <<tables, expired, req, aimed, left, locks, past>>

\* Mutant: the row is inserted and the old token left alone.
MarkToken_Skip(f) ==
  /\ pc[f] = "mark"
  /\ Goto(f, "insert")
  /\ UNCHANGED <<tables, expired, req, aimed, left, locks, past>>

\* First half of the flush: UPDATE ... SET revoked = true WHERE id = ...
\* It waits for the row; whatever the row then says, the id still matches.
MarkToken(f) ==
  /\ pc[f] = "mark"
  /\ ~LockedByOther(f, req[f].token)
  /\ locks' = [locks EXCEPT ![f] = {req[f].token}]
  /\ Goto(f, "insert")
  /\ UNCHANGED <<tables, expired, req, aimed, left, past>>

\* _issue: the INSERT, seen by nobody before COMMIT.
InsertToken(r) ==
  /\ pc[r] = "insert"
  /\ Goto(r, "commit")
  /\ UNCHANGED <<tables, expired, req, aimed, left, locks, past>>

NewToken(r) ==
  IF r \in Logins
  THEN [user |-> req[r].user, family |-> r, revoked |-> FALSE]
  ELSE [user |-> token[req[r].token].user, family |-> token[req[r].token].family,
        revoked |-> FALSE]

CommitIssue(r) ==
  /\ pc[r] = "commit"
  /\ token' = [Revoked(locks[r]) EXCEPT ![r] = NewToken(r)]
  /\ locks' = [locks EXCEPT ![r] = {}]
  /\ \E status \in {200, 500} : Finish(r, status)
  /\ UNCHANGED <<password, expired, req, aimed, left, past>>

-----------------------------------------------------------------------------
(* The bulk UPDATEs.                                                        *)

\* Mutant: WHERE user_id = ...
Family_OfUser(f) == { t \in Committed : token[t].user = token[req[f].token].user }

\* Mutant: only what the spent token was exchanged for.
Family_Successor(f) == { t \in Refreshes \intersect Committed : req[t].token = req[f].token }

Family(f) == { t \in Committed : token[t].family = token[req[f].token].family }

\* _revoke_family: the statement starts.
BurnFamily(f) ==
  /\ pc[f] = "burn"
  /\ aimed' = [aimed EXCEPT ![f] = Family(f)]
  /\ left' = [left EXCEPT ![f] = Family(f)]
  /\ Goto(f, "burning")
  /\ UNCHANGED <<tables, expired, req, locks, past>>

\* One row of a bulk UPDATE.  A row that was waited for must still match:
\* revoke_all_for_user passes over rows revoked meanwhile.
UpdateRow(r) ==
  /\ pc[r] \in {"burning", "revoking"}
  /\ \E t \in left[r] :
       /\ ~LockedByOther(r, t)
       /\ left' = [left EXCEPT ![r] = @ \ {t}]
       /\ \/ pc[r] = "revoking" /\ token[t].revoked /\ UNCHANGED locks
          \/ /\ pc[r] = "burning" \/ ~token[t].revoked
             /\ locks' = [locks EXCEPT ![r] = @ \union {t}]
  /\ UNCHANGED <<tables, expired, pc, req, resp, aimed, past>>

\* Mutant: the route answers 401 without committing.
CommitBurn_Forgotten(f) ==
  /\ pc[f] = "burning" /\ left[f] = {}
  /\ locks' = [locks EXCEPT ![f] = {}]
  /\ \E status \in {401, 500} : Finish(f, status)
  /\ UNCHANGED <<tables, expired, req, aimed, left, past>>

\* RotationError; the route commits before it answers.
CommitBurn(f) ==
  /\ pc[f] = "burning" /\ left[f] = {}
  /\ token' = Revoked(locks[f])
  /\ locks' = [locks EXCEPT ![f] = {}]
  /\ \E status \in {401, 500} : Finish(f, status)
  /\ UNCHANGED <<password, expired, req, aimed, left, past>>

-----------------------------------------------------------------------------
(* POST /auth/reset-password, once Redis has resolved the reset token.      *)

\* None: the reset token or its owner is unknown.
ReceiveReset(r) ==
  /\ \E u \in Users \union {None} :
       /\ Arrive(r, [user |-> u])
       /\ IF u = None THEN Finish(r, 401) ELSE Goto(r, "user")
  /\ UNCHANGED <<tables, expired, aimed, left, locks>>

\* UPDATE "user", flushed by the statement that follows.
HoldsUser(r, u) ==
  r \in Resets /\ pc[r] \in {"revoke", "revoking"} /\ req[r].user = u
UpdateUser(r) ==
  /\ pc[r] = "user"
  /\ \A s \in Resets \ {r} : ~HoldsUser(s, req[r].user)
  /\ Goto(r, "revoke")
  /\ UNCHANGED <<tables, expired, req, aimed, left, locks, past>>

ActiveOf(u) == { t \in Committed : token[t].user = u /\ ~token[t].revoked }

\* revoke_all_for_user: the statement starts.
RevokeAll(r) ==
  /\ pc[r] = "revoke"
  /\ aimed' = [aimed EXCEPT ![r] = ActiveOf(req[r].user)]
  /\ left' = [left EXCEPT ![r] = ActiveOf(req[r].user)]
  /\ Goto(r, "revoking")
  /\ UNCHANGED <<tables, expired, req, locks, past>>

\* Mutant: the password is changed, the revocation not part of the commit.
CommitReset_PasswordOnly(r) ==
  /\ pc[r] = "revoking" /\ left[r] = {}
  /\ password' = [password EXCEPT ![req[r].user] = r]
  /\ locks' = [locks EXCEPT ![r] = {}]
  /\ \E status \in {200, 500} : Finish(r, status)
  /\ UNCHANGED <<token, expired, req, aimed, left, past>>

\* Mutant: the new hash is not part of the commit.
CommitReset_TokensOnly(r) ==
  /\ pc[r] = "revoking" /\ left[r] = {}
  /\ token' = Revoked(locks[r])
  /\ locks' = [locks EXCEPT ![r] = {}]
  /\ \E status \in {200, 500} : Finish(r, status)
  /\ UNCHANGED <<password, expired, req, aimed, left, past>>

CommitReset(r) ==
  /\ pc[r] = "revoking" /\ left[r] = {}
  /\ password' = [password EXCEPT ![req[r].user] = r]
  /\ token' = Revoked(locks[r])
  /\ locks' = [locks EXCEPT ![r] = {}]
  /\ \E status \in {200, 500} : Finish(r, status)
  /\ UNCHANGED <<expired, req, aimed, left, past>>

-----------------------------------------------------------------------------
(* Time and failures.                                                       *)

Expire(t) ==
  /\ t \in Expiring \ expired /\ token[t] # None
  /\ expired' = expired \union {t}
  /\ UNCHANGED <<tables, pc, req, resp, aimed, left, locks, past>>

\* PostgreSQL aborts one of the transactions that wait for each other.
Deadlocked(r) ==
  \E group \in SUBSET { s \in Requests : left[s] # {} } :
    /\ r \in group
    /\ \A s \in group : \A t \in left[s] : \E o \in group \ {s} : t \in locks[o]
AbortDeadlock(r) ==
  /\ Deadlocked(r)
  /\ Finish(r, 500)
  /\ left' = [left EXCEPT ![r] = {}]
  /\ locks' = [locks EXCEPT ![r] = {}]
  /\ UNCHANGED <<tables, expired, req, aimed, past>>

\* Mutant: the failed request's transaction stays open.
Fail_KeepsLocks(r) ==
  /\ Open(r)
  /\ Finish(r, 500)
  /\ left' = [left EXCEPT ![r] = {}]
  /\ UNCHANGED <<tables, expired, req, aimed, locks, past>>

\* A statement or the connection fails: the transaction is rolled back.
Fail(r) ==
  /\ Open(r)
  /\ Finish(r, 500)
  /\ left' = [left EXCEPT ![r] = {}]
  /\ locks' = [locks EXCEPT ![r] = {}]
  /\ UNCHANGED <<tables, expired, req, aimed, past>>

Crash ==
  /\ \E r \in Requests : Open(r)
  /\ pc' = [r \in Requests |-> IF Open(r) THEN "done" ELSE pc[r]]
  /\ resp' = [r \in Requests |-> IF Open(r) THEN 500 ELSE resp[r]]
  /\ left' = [r \in Requests |-> {}] /\ locks' = [r \in Requests |-> {}]
  /\ UNCHANGED <<tables, expired, req, aimed, past>>

-----------------------------------------------------------------------------
LoginStep(l) == CheckCredentials(l) \/ InsertToken(l) \/ CommitIssue(l)
RefreshStep(f) ==
  \/ ReadToken(f) \/ MarkToken(f) \/ InsertToken(f) \/ CommitIssue(f)
  \/ BurnFamily(f) \/ UpdateRow(f) \/ CommitBurn(f)
ResetStep(r) == UpdateUser(r) \/ RevokeAll(r) \/ UpdateRow(r) \/ CommitReset(r)

Next ==
  \/ \E l \in Logins : ReceiveLogin(l) \/ LoginStep(l)
  \/ \E f \in Refreshes : ReceiveRefresh(f) \/ RefreshStep(f)
  \/ \E r \in Resets : ReceiveReset(r) \/ ResetStep(r)
  \/ \E t \in Expiring : Expire(t)
  \/ \E r \in Requests : AbortDeadlock(r) \/ Fail(r)
  \/ Crash

Spec == Init /\ [][Next]_vars

\* The event loop and the database serve every request whose statement can
\* run, and the deadlock detector runs; clients and failures may stay away.
FairSpec ==
  /\ Spec
  /\ \A l \in Logins : WF_vars(LoginStep(l))
  /\ \A f \in Refreshes : WF_vars(RefreshStep(f))
  /\ \A r \in Resets : WF_vars(ResetStep(r))
  /\ \A r \in Requests : WF_vars(AbortDeadlock(r))
=============================================================================
