---------------------------- MODULE PasswordReset ----------------------------
(***************************************************************************)
(* The Redis half of a forgotten password: request_otp, verify_otp and     *)
(* resolve_reset_token of app/auth/otp_service.py, called by the handlers  *)
(* forgot-password, verify-otp and reset-password.  The database half of   *)
(* reset-password is in TokenSessions; here it is the last step.           *)
(*                                                                         *)
(* Every command, or MULTI/EXEC pipeline, is one step, and any other       *)
(* request may run between two of them; a request arrives with its first.  *)
(* A command of an unreliable request may fail without being executed      *)
(* (Fail), and the reply to a handler's last one may be lost (Answer): the *)
(* handler then ends in 500, which stands for 503 and for a dropped        *)
(* connection too, and what it wrote stays.                                *)
(*                                                                         *)
(* A code is named by the forgot-password request that draws it, a reset   *)
(* token by the verify-otp request that issues it.  Keys expire at any     *)
(* time after they were given an expiry, as far as the lifetimes allow.    *)
(***************************************************************************)
EXTENDS Integers, FiniteSets, TLC

CONSTANTS
  Emails, Registered,          \* addresses, and those with an account
  Forgots, Verifies, Resets,   \* requests
  Unreliable,                  \* requests whose commands may fail
  MaxSends, MaxAttempts,       \* MAX_HOURLY_SENDS, MAX_ATTEMPTS
  Dummy,                       \* the random hash that no code has
  Blank,                       \* no hash: a key that HINCRBY created
  None

ASSUME ResetAssumption ==
  /\ Registered \subseteq Emails
  /\ Forgots \intersect Verifies = {} /\ Forgots \intersect Resets = {}
  /\ Verifies \intersect Resets = {}
  /\ Unreliable \subseteq Forgots \union Verifies \union Resets
  /\ MaxSends \in Nat \ {0} /\ MaxAttempts \in Nat \ {0}
  /\ Dummy \notin Forgots /\ Blank \notin Forgots \union {Dummy}
  /\ None \notin Forgots \union Verifies \union Emails \union {Dummy, Blank}
  /\ None \notin {200, 401, 500}

VARIABLES
  otp,         \* otp:<email>: [code, attempts, ttl], or None
  cooldown,    \* whether otp_cooldown:<email> exists
  sends,       \* otp_sends:<email>: [n, ttl]; n = 0 if there is none
  resetToken,  \* reset_token:<token>: the email, or None
  owner,       \* reset_token_owner:<email>: the last token, or None
  pc, req,     \* per request: where its handler is, and what was asked
  resp,        \* per request: HTTP status
  count,       \* per request: what its INCR or HINCRBY returned, or 0
  found,       \* per verification: what it read under otp:<email>, or None
  prior,       \* per verification: the token of owner it read, or None
  past,        \* history: the requests answered before this one arrived, so
               \* far as they can matter to it
  lapsed       \* history: the codes that expired

keys  == <<otp, cooldown, sends, resetToken, owner>>
local == <<count, found, prior>>
vars  == <<keys, pc, req, resp, local, past, lapsed>>

Requests == Forgots \union Verifies \union Resets

Init ==
  /\ otp = [e \in Emails |-> None] /\ cooldown = [e \in Emails |-> FALSE]
  /\ sends = [e \in Emails |-> [n |-> 0, ttl |-> FALSE]]
  /\ resetToken = [v \in Verifies |-> None] /\ owner = [e \in Emails |-> None]
  /\ pc = [r \in Requests |-> "idle"]
  /\ req = [r \in Requests |-> None] /\ resp = [r \in Requests |-> None]
  /\ count = [r \in Requests |-> 0]
  /\ found = [v \in Verifies |-> None] /\ prior = [v \in Verifies |-> None]
  /\ past = [r \in Requests |-> {}] /\ lapsed = {}

Goto(r, label) == pc' = [pc EXCEPT ![r] = label] /\ UNCHANGED resp
Finish(r, status) ==
  pc' = [pc EXCEPT ![r] = "done"] /\ resp' = [resp EXCEPT ![r] = status]
Answer(r, status) ==
  Finish(r, status) \/ (r \in Unreliable /\ Finish(r, 500))
Done == { r \in Requests : pc[r] = "done" }
Open(r) == pc[r] \notin {"idle", "done"}

Arrive(r, body) ==
  /\ pc[r] = "idle"
  /\ req' = [req EXCEPT ![r] = body]
  /\ past' = [past EXCEPT ![r] = Done \ (IF r \in Resets THEN Forgots ELSE Resets)]
  /\ UNCHANGED <<keys, lapsed>>

-----------------------------------------------------------------------------
(* POST /auth/forgot-password                                               *)

\* Whether the address has an account was looked up before: accounts are
\* never deleted, and none is created here.
CheckCooldown(g) ==
  \E e \in Emails :
    /\ Arrive(g, [email |-> e])
    /\ \/ cooldown[e] /\ Finish(g, 200)
       \/ ~cooldown[e] /\ e \in Registered /\ Goto(g, "count")
       \/ ~cooldown[e] /\ e \notin Registered /\ Goto(g, "dummy")
    /\ UNCHANGED local

AfterCount(n) == IF n > MaxSends THEN "dummy" ELSE "store"

\* Mutant: the expiry is given to the second code of the hour.
CountSend_LateExpiry(g) ==
  LET e == req[g].email
      n == sends[e].n + 1 IN
  /\ pc[g] = "count"
  /\ sends' = [sends EXCEPT ![e].n = n]
  /\ count' = [count EXCEPT ![g] = n]
  /\ Goto(g, IF n = 2 THEN "expire" ELSE AfterCount(n))
  /\ UNCHANGED <<otp, cooldown, resetToken, owner, req, found, prior, past, lapsed>>

CountSend(g) ==
  LET e == req[g].email
      n == sends[e].n + 1 IN
  /\ pc[g] = "count"
  /\ sends' = [sends EXCEPT ![e].n = n]
  /\ count' = [count EXCEPT ![g] = n]
  /\ Goto(g, IF n = 1 THEN "expire" ELSE AfterCount(n))
  /\ UNCHANGED <<otp, cooldown, resetToken, owner, req, found, prior, past, lapsed>>

ExpireSends(g) ==
  /\ pc[g] = "expire"
  /\ sends' = [sends EXCEPT ![req[g].email].ttl = TRUE]
  /\ Goto(g, AfterCount(count[g]))
  /\ UNCHANGED <<otp, cooldown, resetToken, owner, req, local, past, lapsed>>

\* Mutant: the count of wrong guesses is kept for the new code.
Store_KeepsAttempts(g, code) ==
  LET e == req[g].email
      n == IF otp[e] = None THEN 0 ELSE otp[e].attempts IN
  /\ otp' = [otp EXCEPT ![e] = [code |-> code, attempts |-> n, ttl |-> TRUE]]
  /\ cooldown' = [cooldown EXCEPT ![e] = TRUE]
  /\ Answer(g, 200)
  /\ UNCHANGED <<sends, resetToken, owner, req, local, past, lapsed>>

\* Mutant: the code is written without its expiry.
Store_NoExpiry(g, code) ==
  LET e == req[g].email IN
  /\ otp' = [otp EXCEPT ![e] = [code |-> code, attempts |-> 0, ttl |-> FALSE]]
  /\ cooldown' = [cooldown EXCEPT ![e] = TRUE]
  /\ Answer(g, 200)
  /\ UNCHANGED <<sends, resetToken, owner, req, local, past, lapsed>>

\* HSET, EXPIRE and SET EX in one MULTI.
Store(g, code) ==
  LET e == req[g].email IN
  /\ otp' = [otp EXCEPT ![e] = [code |-> code, attempts |-> 0, ttl |-> TRUE]]
  /\ cooldown' = [cooldown EXCEPT ![e] = TRUE]
  /\ Answer(g, 200)
  /\ UNCHANGED <<sends, resetToken, owner, req, local, past, lapsed>>

StoreCode(g)  == pc[g] = "store" /\ Store(g, g)
StoreDummy(g) == pc[g] = "dummy" /\ Store(g, Dummy)

-----------------------------------------------------------------------------
(* POST /auth/verify-otp                                                    *)

\* The codes drawn for an account; the mail may have arrived or not, and a
\* guess may be lucky.
Codes == { g \in Forgots : pc[g] = "done" /\ count[g] \in 1 .. MaxSends }

\* None stands for a wrong guess.
ReadOtp(v) ==
  \E e \in Emails, c \in Codes \union {None} :
    LET o == otp[e] IN
    /\ Arrive(v, [email |-> e, code |-> c])
    /\ \/ o = None /\ Finish(v, 401)
       \/ o # None /\ o.attempts >= MaxAttempts /\ Finish(v, 401)
       \/ o # None /\ o.attempts < MaxAttempts /\ o.code = c /\ Goto(v, "consume")
       \/ o # None /\ o.attempts < MaxAttempts /\ o.code # c /\ Goto(v, "attempt")
    /\ found' = [found EXCEPT ![v] = o]
    /\ UNCHANGED <<count, prior>>

\* HINCRBY creates the key if it is gone: with no hash and no expiry.
Guessed(o) ==
  IF o = None THEN [code |-> Blank, attempts |-> 1, ttl |-> FALSE]
              ELSE [o EXCEPT !.attempts = @ + 1]

\* Mutant: the count read with the hash is written back, incremented.
CountAttempt_LostUpdate(v) ==
  LET e == req[v].email
      o == Guessed(found[v]) IN
  /\ pc[v] = "attempt"
  /\ otp' = [otp EXCEPT ![e] = IF @ = None THEN o ELSE [@ EXCEPT !.attempts = o.attempts]]
  /\ count' = [count EXCEPT ![v] = o.attempts]
  /\ \/ o.attempts >= MaxAttempts /\ Goto(v, "clear")
     \/ o.attempts < MaxAttempts /\ Answer(v, 401)
  /\ UNCHANGED <<cooldown, sends, resetToken, owner, req, found, prior, past, lapsed>>

CountAttempt(v) ==
  LET e == req[v].email
      o == Guessed(otp[e]) IN
  /\ pc[v] = "attempt"
  /\ otp' = [otp EXCEPT ![e] = o]
  /\ count' = [count EXCEPT ![v] = o.attempts]
  /\ \/ o.attempts >= MaxAttempts /\ Goto(v, "clear")
     \/ o.attempts < MaxAttempts /\ Answer(v, 401)
  /\ UNCHANGED <<cooldown, sends, resetToken, owner, req, found, prior, past, lapsed>>

\* Mutant: the cooldown is left in place.
ClearOtp_KeepsCooldown(v) ==
  /\ pc[v] = "clear"
  /\ otp' = [otp EXCEPT ![req[v].email] = None]
  /\ Answer(v, 401)
  /\ UNCHANGED <<cooldown, sends, resetToken, owner, req, local, past, lapsed>>

ClearOtp(v) ==
  /\ pc[v] = "clear"
  /\ otp' = [otp EXCEPT ![req[v].email] = None]
  /\ cooldown' = [cooldown EXCEPT ![req[v].email] = FALSE]
  /\ Answer(v, 401)
  /\ UNCHANGED <<sends, resetToken, owner, req, local, past, lapsed>>

\* Mutant: the code is left for the expiry to remove.
ConsumeOtp_Keeps(v) ==
  /\ pc[v] = "consume" /\ Goto(v, "owner")
  /\ UNCHANGED <<keys, req, local, past, lapsed>>

\* Whatever the key holds by now is deleted.
ConsumeOtp(v) ==
  /\ pc[v] = "consume" /\ Goto(v, "owner")
  /\ otp' = [otp EXCEPT ![req[v].email] = None]
  /\ UNCHANGED <<cooldown, sends, resetToken, owner, req, local, past, lapsed>>

ReadOwner(v) ==
  LET t == owner[req[v].email] IN
  /\ pc[v] = "owner"
  /\ prior' = [prior EXCEPT ![v] = t]
  /\ Goto(v, IF t = None THEN "token" ELSE "drop")
  /\ UNCHANGED <<keys, req, count, found, past, lapsed>>

DropPrior(v) ==
  /\ pc[v] = "drop" /\ Goto(v, "token")
  /\ resetToken' = [resetToken EXCEPT ![prior[v]] = None]
  /\ UNCHANGED <<otp, cooldown, sends, owner, req, local, past, lapsed>>

StoreToken(v) ==
  LET e == req[v].email IN
  /\ pc[v] = "token"
  /\ resetToken' = [resetToken EXCEPT ![v] = e]
  /\ owner' = [owner EXCEPT ![e] = v]
  /\ Answer(v, 200)
  /\ UNCHANGED <<otp, cooldown, sends, req, local, past, lapsed>>

-----------------------------------------------------------------------------
(* POST /auth/reset-password                                                *)

\* Clients know the tokens they were sent.
ResolveToken(s) ==
  \E t \in { v \in Verifies : resp[v] = 200 } :
    /\ Arrive(s, [token |-> t])
    /\ \/ resetToken[t] = None /\ Finish(s, 401)
       \/ resetToken[t] # None /\ Goto(s, "spend")
    /\ UNCHANGED local

\* Mutant: the token is left for the expiry to remove.
SpendToken_Keeps(s) ==
  /\ pc[s] = "spend" /\ Goto(s, "change")
  /\ UNCHANGED <<keys, req, local, past, lapsed>>

\* DEL, whose reply is not looked at.
SpendToken(s) ==
  /\ pc[s] = "spend" /\ Goto(s, "change")
  /\ resetToken' = [resetToken EXCEPT ![req[s].token] = None]
  /\ UNCHANGED <<otp, cooldown, sends, owner, req, local, past, lapsed>>

\* The transaction of TokenSessions.  The token's email has an account, so
\* the lookup that precedes it finds one.
ChangePassword(s) ==
  /\ pc[s] = "change" /\ Answer(s, 200)
  /\ UNCHANGED <<keys, req, local, past, lapsed>>

-----------------------------------------------------------------------------
(* Failures and time                                                        *)

Fail(r) ==
  /\ Open(r) /\ r \in Unreliable /\ Finish(r, 500)
  /\ UNCHANGED <<keys, req, local, past, lapsed>>

\* A code outlives the cooldown that was written with it.
ExpireOtp(e) ==
  /\ otp[e] # None /\ otp[e].ttl /\ ~cooldown[e]
  /\ otp' = [otp EXCEPT ![e] = None]
  /\ lapsed' = lapsed \union {otp[e].code}
  /\ UNCHANGED <<cooldown, sends, resetToken, owner, pc, req, resp, local, past>>

ExpireCooldown(e) ==
  /\ cooldown[e] /\ cooldown' = [cooldown EXCEPT ![e] = FALSE]
  /\ UNCHANGED <<otp, sends, resetToken, owner, pc, req, resp, local, past, lapsed>>

ExpireCounter(e) ==
  /\ sends[e].ttl /\ sends' = [sends EXCEPT ![e] = [n |-> 0, ttl |-> FALSE]]
  /\ UNCHANGED <<otp, cooldown, resetToken, owner, pc, req, resp, local, past, lapsed>>

\* The two keys of a token were written by one MULTI with one lifetime.
ExpireToken(t) ==
  /\ resetToken[t] # None \/ \E e \in Emails : owner[e] = t
  /\ resetToken' = [resetToken EXCEPT ![t] = None]
  /\ owner' = [e \in Emails |-> IF owner[e] = t THEN None ELSE owner[e]]
  /\ UNCHANGED <<otp, cooldown, sends, pc, req, resp, local, past, lapsed>>

-----------------------------------------------------------------------------

ForgotStep(g) ==
  \/ CheckCooldown(g) \/ CountSend(g) \/ ExpireSends(g) \/ StoreCode(g) \/ StoreDummy(g)
VerifyStep(v) ==
  \/ ReadOtp(v) \/ CountAttempt(v) \/ ClearOtp(v)
  \/ ConsumeOtp(v) \/ ReadOwner(v) \/ DropPrior(v) \/ StoreToken(v)
ResetStep(s) == ResolveToken(s) \/ SpendToken(s) \/ ChangePassword(s)
Expiry ==
  \/ \E e \in Emails : ExpireOtp(e) \/ ExpireCooldown(e) \/ ExpireCounter(e)
  \/ \E t \in Verifies : ExpireToken(t)

Next ==
  \/ \E g \in Forgots : ForgotStep(g)
  \/ \E v \in Verifies : VerifyStep(v)
  \/ \E s \in Resets : ResetStep(s)
  \/ \E r \in Requests : Fail(r)
  \/ Expiry

Spec == Init /\ [][Next]_vars
=============================================================================
