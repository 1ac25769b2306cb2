------------------------ MODULE PasswordResetProperties ------------------------
(***************************************************************************)
(* What the codes and reset tokens of a forgotten password promise.  The   *)
(* endpoints read, compare and write in separate Redis commands, so most   *)
(* promises hold up to requests that overlap; the properties say which.    *)
(***************************************************************************)
EXTENDS PasswordReset

Code == [code : Forgots \union {Dummy, Blank}, attempts : Nat, ttl : BOOLEAN]
Body == [email : Emails]
Verification == [email : Emails, code : Forgots \union {None}]
ForgotStages == {"count", "expire", "dummy", "store"}
VerifyStages == {"attempt", "clear", "consume", "owner", "drop", "token"}
ResetStages  == {"spend", "change"}

\* Keys, handler positions and answers have their types; only a key that
\* HINCRBY created has no expiry (otp_service.py:47, 58, 66 and 96).
TypeOK ==
  /\ otp \in [Emails -> Code \union {None}]
  /\ \A e \in Emails : otp[e] # None => (otp[e].ttl <=> otp[e].code # Blank)
  /\ cooldown \in [Emails -> BOOLEAN]
  /\ sends \in [Emails -> [n : Nat, ttl : BOOLEAN]]
  /\ resetToken \in [Verifies -> Emails \union {None}]
  /\ owner \in [Emails -> Verifies \union {None}]
  /\ pc \in [Requests -> {"idle", "done"} \union ForgotStages \union VerifyStages
                          \union ResetStages]
  /\ req \in [Requests -> {None} \union Body \union Verification \union [token : Verifies]]
  /\ resp \in [Requests -> {None, 200, 401, 500}]
  /\ \A g \in Forgots : pc[g] \in {"idle", "done"} \union ForgotStages
  /\ \A v \in Verifies : pc[v] \in {"idle", "done"} \union VerifyStages
  /\ \A s \in Resets : pc[s] \in {"idle", "done"} \union ResetStages
  /\ \A r \in Requests : pc[r] = "done" <=> resp[r] # None
  /\ count \in [Requests -> Nat]
  /\ found \in [Verifies -> Code \union {None}]
  /\ prior \in [Verifies -> Verifies \union {None}]
  /\ past \in [Requests -> SUBSET Requests]
  /\ lapsed \subseteq Forgots \union {Dummy}

Answered(r, status) == resp[r] = status
Overlap(r, s) == pc[r] # "idle" /\ pc[s] # "idle" /\ r \notin past[s] /\ s \notin past[r]
SameEmail(r, s) == pc[r] # "idle" /\ pc[s] # "idle" /\ req[r].email = req[s].email
Passed(g) == count[g] > 0   \* a forgot-password request the cooldown let through

\* After MaxAttempts wrong guesses at a code were answered, a verification
\* that arrives later is refused, the right code included: guesses that run
\* at the same time are all counted (otp_service.py:89-99;
\* tests/integration/test_otp_brute_force.py).
WrongGuessesKillCode ==
  \A v \in Verifies : Answered(v, 200) =>
    LET wrong == { w \in past[v] \intersect Verifies :
                     /\ Answered(w, 401) /\ SameEmail(v, w)
                     /\ found[w] # None /\ found[w].code = req[v].code
                     /\ req[w].code # req[v].code }
    IN  Cardinality(wrong) < MaxAttempts

\* A code is accepted for the address it was drawn for, if it was within the
\* hourly cap, and no longer once a request that accepted it, or one that
\* wrote another over it, has been answered (otp_service.py:44, 58, 103).
OldCodeIsRefused ==
  \A v \in Verifies : Answered(v, 200) =>
    LET c == req[v].code IN
    /\ c \in Forgots /\ SameEmail(c, v) /\ count[c] \in 1 .. MaxSends
    /\ \A w \in past[v] \intersect Verifies :
         Answered(w, 200) => req[w].code # c
    /\ \A g \in past[v] \intersect Forgots :
         Answered(g, 200) /\ SameEmail(g, v) /\ Passed(g) => c \notin past[g]

\* A code that was stored, and is then presented for its address, is refused
\* only for a cause: it expired; it was presented by another request too; a
\* further request for a code came through; MaxAttempts wrong guesses were
\* made since; or a verification overlapped its storing, whose late DEL takes
\* the new code along (otp_service.py:99, 103).
RightCodeWorks ==
  \A v \in Verifies :
    LET c == req[v].code
        others == { w \in Verifies \ {v} : SameEmail(v, w) /\ w \notin past[c] }
    IN  ( /\ Answered(v, 401) /\ c \in Forgots /\ SameEmail(v, c)
          /\ c \in past[v] /\ Answered(c, 200) )
        => \/ c \in lapsed
           \/ \E w \in others : req[w].code = c \/ Overlap(w, c)
           \/ \E g \in Forgots \ {c} : SameEmail(g, c) /\ Passed(g) /\ g \notin past[c]
           \/ Cardinality(others) >= MaxAttempts

\* The guess that uses up a code also lifts the cooldown: a request for a code
\* that arrives after it was answered comes through, unless another one has
\* set the cooldown again (otp_service.py:98, FAIL-2).
LockoutUnblocks ==
  \A v \in Verifies, g \in Forgots :
    ( /\ Answered(v, 401) /\ count[v] >= MaxAttempts /\ v \in past[g]
      /\ SameEmail(v, g) /\ req[g].email \in Registered /\ Answered(g, 200) )
    => \/ Passed(g)
       \/ \E h \in Forgots \ {g} : SameEmail(g, h) /\ h \notin past[v]

\* The hourly counter is without expiry only while the request that created
\* it is about to give it one, or after that request failed: from then on the
\* cap is for good (otp_service.py:40-42).
OnlyFailureFreezesCounter ==
  \A e \in Emails : sends[e].n > 0 /\ ~sends[e].ttl =>
    \E g \in Forgots :
      /\ pc[g] # "idle" /\ req[g].email = e /\ count[g] = 1
      /\ pc[g] = "expire" \/ Answered(g, 500)

\* A reset token that changed a password is refused to every reset that
\* arrives after the answer (otp_service.py:130-135).
SpentResetTokenIsRefused ==
  \A s \in Resets : \A r \in past[s] \intersect Resets :
    req[r].token = req[s].token /\ Answered(r, 200) => ~Answered(s, 200)

\* Once a later verification of the same address was answered with a new
\* token, a reset that arrives with the former one is refused, unless a third
\* verification overlapped the one that issued it and displaced its owner
\* entry (otp_service.py:109-117).
OnlyOverlapKeepsOldToken ==
  \A s \in Resets : Answered(s, 200) =>
    LET t == req[s].token IN
    \A u \in past[s] \intersect Verifies :
      t \in past[u] /\ Answered(u, 200) /\ SameEmail(t, u) =>
        \E w \in Verifies \ {t, u} : SameEmail(t, w) /\ Overlap(t, w)

\* A reset token that has been spent or replaced opens nothing afterwards.
OldResetTokenIsRefused == SpentResetTokenIsRefused /\ OnlyOverlapKeepsOldToken

\* A reset token changes a password once: "consuming it single-use"
\* (otp_service.py:123), "Single-use consumption (FR-5)" (line 134).
TokenUsedOnce ==
  \A r, s \in Resets :
    r # s /\ Answered(r, 200) /\ Answered(s, 200) => req[r].token # req[s].token

-----------------------------------------------------------------------------
(* Why the promises hold: an inductive invariant, part by part.             *)

ASSUME CodeAssumption == None \notin Code

Accepts(v)  == pc[v] \in {"consume", "owner", "drop", "token"} \/ Answered(v, 200)
Consumed(v) == pc[v] \in {"owner", "drop", "token"} \/ Answered(v, 200)
Refuses(v)  == pc[v] \in {"attempt", "clear"} \/ Answered(v, 401)
Opens(s)    == pc[s] \in {"spend", "change"} \/ Answered(s, 200)
Holds(e, c) == otp[e] # None /\ otp[e].code = c
Read(v, c)  == found[v] # None /\ found[v].code = c
Begun       == { v \in Verifies : pc[v] # "idle" }

\* What a request asked for, and which requests were answered before it.
Bodies ==
  /\ IsFiniteSet(Begun)
  /\ \A r \in Requests : \A q \in past[r] : pc[q] = "done"
  /\ \A v \in Verifies : pc[v] = "idle" => found[v] = None
  /\ \A r \in Forgots \union Verifies : pc[r] # "idle" => req[r].email \in Emails
  /\ \A v \in Verifies : pc[v] # "idle" => req[v].code \in Codes \union {None}
  /\ \A s \in Resets : pc[s] # "idle" =>
       req[s].token \in Verifies /\ Answered(req[s].token, 200)

\* How many codes the address was sent when a request got this far.
Sendings ==
  \A g \in Forgots :
    /\ pc[g] \in {"idle", "count"} => count[g] = 0
    /\ pc[g] = "expire" => count[g] = 1
    /\ pc[g] = "store" => count[g] \in 1 .. MaxSends
    /\ pc[g] = "dummy" =>
         count[g] > MaxSends \/ (count[g] = 0 /\ req[g].email \notin Registered)
    /\ pc[g] \in {"count", "expire", "store"} \/ Passed(g) => req[g].email \in Registered

\* What a verification has read and counted when it got this far.
Verifying(v) ==
  /\ pc[v] \in {"idle", "attempt", "consume", "owner", "drop", "token"} => count[v] = 0
  /\ pc[v] = "clear" => count[v] >= MaxAttempts
  /\ pc[v] \in {"attempt", "clear"} => ~Read(v, req[v].code)
  /\ Accepts(v) => Read(v, req[v].code) /\ req[v].code \in Forgots
  /\ Answered(v, 401) =>
       found[v] = None \/ found[v].attempts >= MaxAttempts \/ count[v] > 0
Verifications == \A v \in Verifies : Verifying(v)

\* A code is stored under, and read for, the address it was drawn for.
CodesAreDrawn ==
  \A c \in Forgots :
    /\ \A e \in Emails : Holds(e, c) => c \in Codes /\ req[c].email = e
    /\ \A v \in Verifies : Read(v, c) => c \in Codes /\ SameEmail(c, v)

\* A code that was consumed, or written over, is gone, and was so for whoever
\* came later.
CodesAreGone ==
  /\ \A v \in Verifies, e \in Emails : Consumed(v) => ~Holds(e, req[v].code)
  /\ \A g \in Forgots : Answered(g, 200) /\ Passed(g) =>
       \A c \in past[g] \intersect Forgots : ~Holds(req[g].email, c)
  /\ \A v \in Verifies : Accepts(v) =>
       /\ \A w \in past[v] \intersect Verifies :
            Answered(w, 200) => req[w].code # req[v].code
       /\ \A g \in past[v] \intersect Forgots :
            Answered(g, 200) /\ SameEmail(g, v) /\ Passed(g) => req[v].code \notin past[g]

\* The wrong guesses at the stored code are on its counter.
Guesses(c) == { w \in Verifies : Read(w, c) /\ count[w] > 0 }
Wrong(v) ==
  { w \in past[v] \intersect Verifies :
      /\ Answered(w, 401) /\ SameEmail(v, w)
      /\ Read(w, req[v].code) /\ req[w].code # req[v].code }
GuessesAreCounted ==
  /\ \A e \in Emails, c \in Forgots : Holds(e, c) =>
       /\ Cardinality(Guesses(c)) <= otp[e].attempts
       /\ \A w \in Verifies : Read(w, c) => found[w].attempts <= otp[e].attempts
  /\ \A v \in Verifies : Accepts(v) => Cardinality(Wrong(v)) < MaxAttempts

\* A code that was sent is stored, with no more guesses on its counter than
\* verifications that came later, or it is gone for a cause.
Sent(c)  == Answered(c, 200) /\ count[c] \in 1 .. MaxSends
Later(c) == { w \in Verifies : SameEmail(c, w) /\ w \notin past[c] }
Cause(c, ws) ==
  \/ c \in lapsed
  \/ \E w \in ws : req[w].code = c \/ Overlap(w, c)
  \/ \E g \in Forgots \ {c} : SameEmail(g, c) /\ Passed(g) /\ g \notin past[c]
  \/ Cardinality(ws) >= MaxAttempts
Lives(c) ==
  /\ Holds(req[c].email, c)
  /\ otp[req[c].email].attempts <= Cardinality({ w \in Later(c) : count[w] > 0 })
CodesEndForACause ==
  /\ \A c \in Forgots : Sent(c) => Lives(c) \/ Cause(c, Later(c))
  /\ \A v \in Verifies : \A c \in past[v] \intersect Forgots :
       Sent(c) /\ SameEmail(c, v) =>
         /\ pc[v] = "clear" \/ (pc[v] = "consume" /\ req[v].code # c) => Cause(c, Later(c))
         /\ Refuses(v) /\ req[v].code = c => Cause(c, Later(c) \ {v})

\* After a lockout the cooldown is due to a request that was answered since.
LockoutsEndCooldown ==
  \A v \in Verifies :
    Answered(v, 401) /\ count[v] >= MaxAttempts /\ cooldown[req[v].email] =>
      \E h \in Forgots : SameEmail(v, h) /\ h \notin past[v] /\ pc[h] = "done"

\* A token is in place while it is the address's last one or was displaced;
\* what is in place was neither spent nor dropped.
Displaced(t) == \E w \in Verifies \ {t} : SameEmail(t, w) /\ Overlap(t, w)
TokensAreOwned ==
  /\ \A t \in Verifies : resetToken[t] # None =>
       /\ pc[t] = "done" /\ resetToken[t] = req[t].email
       /\ owner[req[t].email] = t \/ Displaced(t)
  /\ \A w \in Verifies : \A t \in past[w] \intersect Verifies :
       SameEmail(t, w) /\ resetToken[t] # None =>
         /\ pc[w] = "drop" => prior[w] = t \/ Displaced(t)
         /\ pc[w] = "token" \/ Answered(w, 200) => Displaced(t)
Unspent(s, t) ==
  /\ \A r \in past[s] \intersect Resets : req[r].token = t => ~Answered(r, 200)
  /\ \A u \in past[s] \intersect Verifies :
       t \in past[u] /\ Answered(u, 200) /\ SameEmail(t, u) => Displaced(t)
TokensAreSpent ==
  /\ \A r \in Resets : pc[r] = "change" \/ Answered(r, 200) => resetToken[req[r].token] = None
  /\ \A s \in Resets, t \in Verifies : Opens(s) /\ req[s].token = t => Unspent(s, t)

ResetInvariant ==
  /\ TypeOK /\ Bodies /\ Sendings /\ Verifications
  /\ CodesAreDrawn /\ CodesAreGone /\ GuessesAreCounted /\ CodesEndForACause
  /\ OnlyFailureFreezesCounter /\ LockoutUnblocks /\ LockoutsEndCooldown
  /\ TokensAreOwned /\ TokensAreSpent
=============================================================================
