----------------------- MODULE TokenSessionsProperties -----------------------
(***************************************************************************)
(* What TokenSessions guarantees, and two statements of the code's own     *)
(* comments and tests that it does not keep when requests overlap.         *)
(***************************************************************************)
EXTENDS TokenSessions

LoginRequest   == [user : Users, password : Resets \union {Initial}]
RefreshRequest == [token : Tokens \union {None}, late : BOOLEAN]
ResetRequest   == [user : Users \union {None}]
TokenRow       == [user : Users, family : Logins, revoked : BOOLEAN]

\* Every variable stays in its domain, and a row that a bulk UPDATE waits for
\* or has locked exists.
TypeOK ==
  /\ password \in [Users -> Resets \union {Initial}]
  /\ token \in [Tokens -> TokenRow \union {None}]
  /\ expired \subseteq Expiring
  /\ pc \in [Requests -> {"idle", "credentials", "read", "mark", "insert", "commit",
                          "burn", "burning", "user", "revoke", "revoking", "done"}]
  /\ resp \in [Requests -> {None, 200, 401, 500}]
  /\ aimed \in [Requests -> SUBSET Committed]
  /\ left \in [Requests -> SUBSET Committed]
  /\ \A r \in Requests : left[r] \subseteq aimed[r]
  /\ locks \in [Requests -> SUBSET Committed]
  /\ past \in [Requests -> SUBSET Requests]
  /\ DOMAIN req = Requests
  /\ \A l \in Logins : pc[l] # "idle" => req[l] \in LoginRequest
  /\ \A f \in Refreshes : pc[f] # "idle" => req[f] \in RefreshRequest
  /\ \A r \in Resets : pc[r] # "idle" => req[r] \in ResetRequest

Overlap(r, s) == r \notin past[s] /\ s \notin past[r]
Live(t) == token[t] # None /\ ~token[t].revoked
SameFamily(t) == { s \in Committed : token[s].family = token[t].family }
Burned(f) == f \in Refreshes /\ resp[f] = 401 /\ aimed[f] # {}

\* g came with the token that f had exchanged before; f's reply may be lost.
Reuses(g, f) == f \in past[g] \intersect Committed /\ req[g].token = req[f].token

\* A token that was exchanged before a request arrived is not exchanged again
\* by it (jwt_service.py:55), even once it has expired.
SpentTokenIsRefused ==
  \A f, g \in Refreshes : Reuses(g, f) => resp[g] # 200

\* A request that comes with a spent token is answered with 401 only once its
\* family is revoked: every token of it that was issued before the request came,
\* however many exchanges after the spent one
\* (jwt_service.py:55-59, 111-120 and the commit in routes/auth.py:93).
ReuseIsPunished ==
  \A f, g \in Refreshes :
    Reuses(g, f) /\ resp[g] = 401 =>
      \A t \in SameFamily(f) \intersect past[g] : ~Live(t)

\* A token that is live in a family burned for reuse goes back to an exchange
\* that was under way at the same time as the request that burned it.
OnlyOverlapSurvivesBurn ==
  \A f \in Refreshes : Burned(f) =>
    \A t \in SameFamily(req[f].token) : Live(t) =>
      \E g \in SameFamily(t) : Overlap(f, g)

\* A token that is live after a password reset goes back to a login that came
\* after it, or to a login or exchange under way at the same time.
OnlyOverlapSurvivesReset ==
  \A r \in Resets : resp[r] = 200 =>
    \A t \in Committed : Live(t) /\ token[t].user = req[r].user =>
      \/ r \in past[token[t].family]
      \/ \E g \in SameFamily(t) : Overlap(r, g)

\* Once a reset is answered, a password older than it no longer logs in.
OldPasswordIsRefused ==
  \A r \in Resets, l \in Logins :
    (resp[r] = 200 /\ r \in past[l] /\ req[l].user = req[r].user
       /\ req[l].password \in past[r] \union {Initial}) => resp[l] # 200

\* Nobody is logged out without a reason: a revoked token was exchanged for one
\* that is committed (a failed exchange leaves it valid, jwt_service.py:72-97),
\* or a request revoked its own family for reuse (families are independent,
\* test_auth_rotation.py:163), or its own user reset the password.
RevocationHasACause ==
  \A t \in Committed : token[t].revoked =>
    \/ \E f \in Refreshes : token[f] # None /\ req[f].token = t
    \/ \E f \in Refreshes : aimed[f] # {} /\ req[f].token \in SameFamily(t)
    \/ \E r \in Resets : pc[r] = "done" /\ req[r].user = token[t].user

-----------------------------------------------------------------------------
(* The inductive invariant behind ImplementsTokenLedger.                    *)

\* A token is committed by its own request's last step, and known to clients
\* only then.
TokensComeFromCommits ==
  \A t \in Tokens :
    /\ token[t] # None => pc[t] = "done"
    /\ resp[t] = 200 => token[t] # None

\* A refresh works on a committed token, except when it is told None.
PresentedIsCommitted ==
  \A f \in Refreshes :
    /\ pc[f] # "idle" => req[f].token \in Committed \union {None}
    /\ pc[f] \in {"mark", "insert", "commit", "burn", "burning"} => req[f].token # None
    /\ token[f] # None => req[f].token # None

\* What a transaction has updated: a rotation its token, a bulk UPDATE some
\* rows, anyone else nothing; only a bulk UPDATE has rows left to update.
HeldRows ==
  \A r \in Requests :
    /\ pc[r] \in {"insert", "commit"} /\ r \in Refreshes => locks[r] = {req[r].token}
    /\ pc[r] \notin {"insert", "commit", "burning", "revoking"} \/ r \in Logins
         => locks[r] = {}
    /\ left[r] # {} => pc[r] \in {"burning", "revoking"}
    /\ pc[r] \in {"burning", "revoking"} => r \notin Logins

SessionInvariant ==
  TypeOK /\ TokensComeFromCommits /\ PresentedIsCommitted /\ HeldRows

-----------------------------------------------------------------------------
(* The inductive invariant behind the properties about earlier requests: it *)
(* says what a request under way knows of those answered before it arrived. *)

Exchanging(f) == pc[f] \in {"mark", "insert", "commit"}
Revoking(r)   == pc[r] \in {"burning", "revoking"}
IsRevoked(t)  == token[t] # None /\ token[t].revoked

\* A status is sent once, at the end, and only answered requests are past ones.
PastIsAnswered ==
  \A r \in Requests :
    /\ resp[r] # None <=> pc[r] = "done"
    /\ past[r] \subseteq Done
    /\ pc[r] = "idle" => past[r] = {}

\* A family starts with its login, and a rotated token stays in the family of
\* the token it was exchanged for, which is revoked.
FamiliesGrow ==
  \A t \in Committed :
    /\ token[t].family \in Committed
    /\ t \in Logins => token[t].family = t
    /\ t \in Refreshes => /\ token[t].family = token[req[t].token].family
                          /\ IsRevoked(req[t].token)

\* A bulk UPDATE is aimed at rows of one family or one user, and has reached
\* those it no longer waits for.
AimsAreReached ==
  \A r \in Requests :
    /\ pc[r] = "burning" => r \in Refreshes
    /\ pc[r] = "revoking" => r \in Resets
    /\ ~Revoking(r) /\ pc[r] # "done" => aimed[r] = {}
    /\ Revoking(r) => /\ locks[r] \subseteq aimed[r]
                      /\ \A t \in aimed[r] : t \in left[r] \union locks[r] \/ IsRevoked(t)
    /\ r \in Logins => aimed[r] = {}
    /\ r \in Refreshes /\ aimed[r] # {} =>
         req[r].token \in Committed /\ aimed[r] \subseteq SameFamily(req[r].token)
    /\ r \in Resets => \A t \in aimed[r] : token[t].user = req[r].user
    /\ Burned(r) \/ (r \in Resets /\ resp[r] = 200) => \A t \in aimed[r] : IsRevoked(t)

\* A refresh that arrived with a spent token does not exchange it, and revokes
\* what the token's family had when it arrived.
SpentTokenBurns ==
  \A f, g \in Refreshes : Reuses(g, f) =>
    /\ ~Exchanging(g) /\ resp[g] # 200
    /\ pc[g] = "burning" => SameFamily(f) \intersect past[g] \subseteq aimed[g]
    /\ resp[g] = 401 => \A t \in SameFamily(f) \intersect past[g] : IsRevoked(t)

\* The members of a burned family that the UPDATE did not see go back to an
\* exchange that overlapped it, and so do those still to come.
BurnsReachFamily ==
  /\ \A f \in Refreshes : pc[f] = "burning" \/ Burned(f) =>
       \A t \in SameFamily(req[f].token) \ aimed[f] : \E g \in SameFamily(t) : Overlap(f, g)
  /\ \A f, g \in Refreshes :
       Burned(f) /\ f \in past[g] /\ Exchanging(g) => req[g].token \notin aimed[f]

\* The same for the sessions of a user whose password was reset.
Excused(r, t) == r \in past[token[t].family] \/ \E g \in SameFamily(t) : Overlap(r, g)
ResetsReachUser ==
  /\ \A r \in Resets : pc[r] = "revoking" \/ resp[r] = 200 =>
       \A t \in Committed \ aimed[r] :
         Live(t) /\ token[t].user = req[r].user => Excused(r, t)
  /\ \A r \in Resets, g \in Refreshes :
       ( /\ resp[r] = 200 /\ r \in past[g] /\ Exchanging(g)
         /\ token[req[g].token].user = req[r].user ) => Excused(r, req[g].token)

\* A reset's password is replaced only by one that is set later, and a login
\* that comes after it with an older one is refused.
PasswordsAreRecent ==
  /\ \A r \in Resets : Open(r) \/ resp[r] = 200 => req[r].user \in Users
  /\ \A r \in Resets : resp[r] = 200 =>
       password[req[r].user] \notin past[r] \union {Initial}
  /\ \A r \in Resets, l \in Logins :
       ( /\ resp[r] = 200 /\ r \in past[l] /\ req[l].user = req[r].user
         /\ req[l].password \in past[r] \union {Initial} )
       => pc[l] \in {"credentials", "done"} /\ resp[l] # 200

HistoryInvariant ==
  /\ PastIsAnswered /\ FamiliesGrow /\ AimsAreReached /\ SpentTokenBurns
  /\ BurnsReachFamily /\ ResetsReachUser /\ PasswordsAreRecent

-----------------------------------------------------------------------------
StatusOf == [t \in Tokens |->
  IF token[t] = None THEN "absent" ELSE IF token[t].revoked THEN "revoked" ELSE "live"]
SourceOf == [t \in Tokens |->
  IF t \in Refreshes /\ token[t] # None THEN req[t].token ELSE None]
Ledger == INSTANCE TokenLedger WITH status <- StatusOf, source <- SourceOf

\* An exchange revokes the old token and creates the new one in one instant,
\* whatever fails, and a revoked token never becomes valid again, whichever
\* transactions overlap.
ImplementsTokenLedger == Ledger!Spec

\* A request whose handler started is answered, although it may wait for the
\* row locks of others or deadlock with them.
EveryRequestIsAnswered == \A r \in Requests : Open(r) ~> pc[r] = "done"

-----------------------------------------------------------------------------
(* Statements of the repository that overlapping requests break.            *)

\* token_service.py:22: RotationError is raised for "a token that has already
\* been rotated", so no token is exchanged twice.
ExchangedOnce ==
  \A f, g \in Refreshes :
    (resp[f] = 200 /\ resp[g] = 200 /\ req[f].token = req[g].token) => f = g
=============================================================================
