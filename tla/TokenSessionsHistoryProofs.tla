---------------------- MODULE TokenSessionsHistoryProofs ----------------------
(***************************************************************************)
(* Proofs about what TokenSessions owes to requests that arrive after      *)
(* others were answered: spent tokens and old passwords are refused, reuse *)
(* revokes the family, a reset the sessions of its user, except for what   *)
(* overlapped, and nothing else is revoked.  First what one step may do    *)
(* to a request and to a row, then each part of HistoryInvariant from      *)
(* these facts.                                                            *)
(***************************************************************************)
EXTENDS TokenSessionsProofs

\* A request only moves forward, and is answered once.
Moves(r) ==
  \/ pc'[r] = pc[r] /\ resp'[r] = resp[r]
  \/ pc[r] # "done" /\ pc'[r] = "done" /\ resp'[r] \in {200, 401, 500}
  \/ pc[r] # "done" /\ pc'[r] \notin {"idle", "done"} /\ resp'[r] = resp[r]

\* What it asks and which requests are past ones is fixed when it arrives.
Arrives(r) ==
  \/ past'[r] = past[r] /\ req'[r] = req[r] /\ (pc'[r] = "idle" <=> pc[r] = "idle")
  \/ /\ pc[r] = "idle" /\ past'[r] = Done /\ aimed'[r] = aimed[r] /\ tables' = tables
     /\ r \in Logins => pc'[r] = "credentials" /\ resp'[r] = resp[r]
     /\ r \in Refreshes => pc'[r] = "read" /\ resp'[r] = resp[r]
     /\ r \in Resets => \/ /\ pc'[r] = "user" /\ resp'[r] = resp[r]
                           /\ req'[r].user \in Users
                        \/ pc'[r] = "done" /\ resp'[r] = 401

\* A bulk UPDATE is aimed at the rows that match its condition when it starts.
Aims(r) ==
  \/ aimed'[r] = aimed[r] /\ (Revoking(r)' => Revoking(r) /\ pc'[r] = pc[r])
  \/ /\ locks'[r] = locks[r] /\ aimed'[r] = left'[r] /\ tables' = tables
     /\ resp'[r] = resp[r] /\ past'[r] = past[r] /\ req'[r] = req[r]
     /\ \/ /\ r \in Refreshes /\ pc[r] = "burn" /\ pc'[r] = "burning"
           /\ aimed'[r] = Family(r)
        \/ /\ r \in Resets /\ pc[r] = "revoke" /\ pc'[r] = "revoking"
           /\ aimed'[r] = ActiveOf(req[r].user)

\* It locks the rows it reaches, or passes over those that are revoked, and
\* unless it fails its commit revokes what it has locked.
Reaches(r) ==
  Revoking(r) =>
    \/ /\ pc'[r] = pc[r] /\ resp'[r] = resp[r]
       /\ locks[r] \subseteq locks'[r] /\ locks'[r] \subseteq locks[r] \union left[r]
       /\ \A t \in left[r] : t \in left'[r] \union locks'[r] \/ token[t].revoked
    \/ pc'[r] = "done" /\ resp'[r] = 500
    \/ /\ pc'[r] = "done" /\ left[r] = {} /\ token' = Revoked(locks[r])
       /\ resp'[r] = IF pc[r] = "burning" THEN 401 ELSE 200

\* A refresh exchanges the token it read as valid, and no other.
Exchanges(g) ==
  g \in Refreshes =>
    /\ Exchanging(g)' /\ ~Exchanging(g) =>
         pc[g] = "read" /\ tables' = tables
         /\ req[g].token # None /\ ~token[req[g].token].revoked
    /\ resp'[g] = 200 /\ resp[g] # 200 => pc[g] = "commit"
    /\ resp'[g] = 401 /\ resp[g] # 401 =>
         \/ pc[g] = "burning"
         \/ /\ pc[g] = "read" /\ tables' = tables
            /\ req[g].token = None \/ ~token[req[g].token].revoked

\* A login goes on if the password is the stored one.
LogsIn(l) ==
  l \in Logins =>
    /\ pc'[l] \notin {"idle", "credentials", "done"} /\ pc[l] \in {"idle", "credentials"} =>
         password[req[l].user] = req[l].password
    /\ resp'[l] = 200 /\ resp[l] # 200 => pc[l] = "commit"

\* A reset that is answered with 200 has set the password.
SetsPassword(r) ==
  r \in Resets /\ resp'[r] = 200 /\ resp[r] # 200 =>
    pc[r] = "revoking" /\ password' = [password EXCEPT ![req[r].user] = r]

\* A row keeps its user and family, and is revoked by a commit that has locked
\* it or not at all; a new one comes with the revocation of its source.
RowOf(t) ==
  \/ token'[t] = token[t]
  \/ /\ token[t] # None /\ token'[t] # None /\ token'[t].revoked
     /\ token'[t].user = token[t].user /\ token'[t].family = token[t].family
     /\ \E r \in Requests :
          /\ t \in locks[r] /\ req'[r] = req[r] /\ aimed'[r] = aimed[r]
          /\ \/ Revoking(r) /\ pc'[r] = "done"
             \/ r \in Refreshes /\ pc[r] = "commit" /\ token'[r] # None
  \/ /\ token[t] = None /\ token'[t] = NewToken(t) /\ token'[t] # None
     /\ pc[t] = "commit" /\ pc'[t] = "done" /\ past' = past /\ req' = req /\ aimed' = aimed
     /\ t \in Refreshes => req[t].token \in Committed /\ IsRevoked(req[t].token)'

StepOf(r) ==
  /\ Moves(r) /\ Arrives(r) /\ Aims(r) /\ Reaches(r)
  /\ Exchanges(r) /\ LogsIn(r) /\ SetsPassword(r)

\* What the steps need of the types: which requests the functions are about.
LEMMA Domains ==
  ASSUME SessionInvariant
  PROVE  /\ DOMAIN pc = Requests /\ DOMAIN resp = Requests /\ DOMAIN req = Requests
         /\ DOMAIN past = Requests /\ DOMAIN aimed = Requests /\ DOMAIN left = Requests
         /\ DOMAIN locks = Requests /\ DOMAIN password = Users /\ DOMAIN token = Tokens
BY DEF SessionInvariant, TypeOK

\* Only bulk UPDATEs wait for each other.
LEMMA DeadlocksAreRevocations ==
  ASSUME SessionInvariant, NEW r \in Requests, Deadlocked(r)
  PROVE  Revoking(r)
BY DEF SessionInvariant, HeldRows, Deadlocked, Revoking

\* What a step may do to a request.
LEMMA RequestSteps ==
  ASSUME SessionInvariant, [Next]_vars, NEW r \in Requests
  PROVE  StepOf(r)
<1> USE Domains, RequestSets
    DEF Goto, Finish, Revoking, Exchanging, StepOf, Moves, Arrives, Aims, Reaches, Exchanges,
        LogsIn, SetsPassword
<1>1. ASSUME NEW l \in Logins, ReceiveLogin(l) \/ LoginStep(l) PROVE StepOf(r)
  BY <1>1 DEF ReceiveLogin, Arrive, LoginStep, CheckCredentials, InsertToken, CommitIssue, tables
<1>2. ASSUME NEW f \in Refreshes, ReceiveRefresh(f) \/ RefreshStep(f) PROVE StepOf(r)
  BY <1>2 DEF ReceiveRefresh, Arrive, RefreshStep, ReadToken, MarkToken, InsertToken,
       CommitIssue, BurnFamily, UpdateRow, CommitBurn, tables
<1>3. ASSUME NEW s \in Resets, ReceiveReset(s) \/ ResetStep(s) PROVE StepOf(r)
  BY <1>3 DEF ReceiveReset, Arrive, ResetStep, UpdateUser, RevokeAll, UpdateRow, CommitReset, tables
<1>4. ASSUME NEW q \in Requests, AbortDeadlock(q) \/ Fail(q) PROVE StepOf(r)
  BY <1>4, DeadlocksAreRevocations DEF AbortDeadlock, Fail, Open, tables
<1>5. CASE (\E t \in Expiring : Expire(t)) \/ UNCHANGED vars
  BY <1>5 DEF Expire, vars, tables
<1>6. CASE Crash
  <2>1. CASE Open(r)
    <3>1. /\ pc'[r] = "done" /\ resp'[r] = 500 /\ aimed'[r] = aimed[r]
          /\ req'[r] = req[r] /\ past'[r] = past[r]
      BY <1>6, <2>1 DEF Crash
    <3>2. pc[r] # "idle" /\ pc[r] # "done"
      BY <2>1 DEF Open
    <3>3. QED
      BY <3>1, <3>2
  <2>2. CASE ~Open(r)
    <3>1. pc'[r] = pc[r] /\ resp'[r] = resp[r] /\ aimed' = aimed /\ req' = req /\ past' = past
      BY <1>6, <2>2 DEF Crash
    <3>2. pc[r] = "idle" \/ pc[r] = "done"
      BY <2>2 DEF Open
    <3>3. QED
      BY <3>1, <3>2
  <2>3. QED
    BY <2>1, <2>2
<1>7. QED
  BY <1>1, <1>2, <1>3, <1>4, <1>5, <1>6 DEF Next

\* Marking a group of rows revoked, row by row.
LEMMA RevokedRow ==
  ASSUME SessionInvariant, NEW group \in SUBSET Committed, NEW t \in Tokens
  PROVE  /\ DOMAIN Revoked(group) = Tokens
         /\ Revoked(group)[t] = None <=> token[t] = None
         /\ t \in group => /\ token[t] # None /\ Revoked(group)[t].revoked
                           /\ Revoked(group)[t].user = token[t].user
                           /\ Revoked(group)[t].family = token[t].family
         /\ t \notin group => Revoked(group)[t] = token[t]
<1>1. DOMAIN Revoked(group) = Tokens /\ (t \notin group => Revoked(group)[t] = token[t])
  BY DEF Revoked
<1>2. /\ Revoked(group)[t] = None <=> token[t] = None
      /\ token[t] # None => /\ Revoked(group)[t].user = token[t].user
                            /\ Revoked(group)[t].family = token[t].family
                            /\ Revoked(group)[t].revoked = (t \in group \/ token[t].revoked)
  BY RevokedRows DEF SessionInvariant
<1>3. t \in group => token[t] # None
  BY DEF Committed
<1>4. QED
  BY <1>1, <1>2, <1>3

\* What a step may do to a row.
LEMMA RowSteps ==
  ASSUME SessionInvariant, [Next]_vars, NEW t \in Tokens
  PROVE  RowOf(t)
<1> USE Domains, RequestSets
<1>1. ASSUME NEW r \in Tokens, CommitIssue(r) PROVE RowOf(t)
  <2>1. locks[r] \in SUBSET Committed /\ pc[r] = "commit"
    BY <1>1 DEF SessionInvariant, TypeOK, CommitIssue
  <2>2. /\ DOMAIN Revoked(locks[r]) = Tokens
        /\ token[t] = None => Revoked(locks[r])[t] = None
        /\ \A s \in locks[r] : Revoked(locks[r])[s] # None /\ Revoked(locks[r])[s].revoked
        /\ t \in locks[r] => /\ Revoked(locks[r])[t].user = token[t].user
                             /\ Revoked(locks[r])[t].family = token[t].family
        /\ t \notin locks[r] => Revoked(locks[r])[t] = token[t]
    BY <2>1, RevokedRow DEF Committed
  <2>3. /\ token' = [Revoked(locks[r]) EXCEPT ![r] = NewToken(r)] /\ pc'[r] = "done"
        /\ past' = past /\ req' = req /\ aimed' = aimed
    BY <1>1 DEF CommitIssue, Finish
  <2>4. /\ NewToken(r) # None /\ token[r] = None
        /\ r \in Refreshes => req[r].token \in Committed /\ req[r].token # r
    BY <2>1, NewTokenRow
  <2>5. r \in Refreshes => locks[r] = {req[r].token}
    BY <2>1 DEF SessionInvariant, HeldRows
  <2>6. r \notin Refreshes => locks[r] = {}
    BY DEF SessionInvariant, HeldRows, Tokens
  <2>7. r \in Refreshes => IsRevoked(req[r].token)'
    BY <2>1, <2>2, <2>3, <2>4, <2>5 DEF IsRevoked, Committed
  <2>8. CASE t = r
    BY <2>1, <2>2, <2>3, <2>4, <2>7, <2>8 DEF RowOf
  <2>9. CASE t # r
    <3>1. token'[t] = Revoked(locks[r])[t] /\ token'[r] # None
      BY <2>2, <2>3, <2>4, <2>9
    <3>2. t \in locks[r] => r \in Refreshes /\ token[t] # None
      BY <2>1, <2>6 DEF Committed
    <3>3. QED
      BY <2>1, <2>2, <2>3, <3>1, <3>2 DEF RowOf
  <2>10. QED
    BY <2>8, <2>9
<1>2. ASSUME NEW r \in Requests,
             (r \in Refreshes /\ CommitBurn(r)) \/ (r \in Resets /\ CommitReset(r))
      PROVE  RowOf(t)
  <2>1. locks[r] \in SUBSET Committed /\ token' = Revoked(locks[r]) /\ Revoking(r)
        /\ pc'[r] = "done" /\ req' = req /\ aimed' = aimed
    BY <1>2 DEF SessionInvariant, TypeOK, CommitBurn, CommitReset, Revoking, Finish
  <2>2. /\ t \in locks[r] => /\ token'[t] # None /\ token'[t].revoked /\ token[t] # None
                             /\ token'[t].user = token[t].user
                             /\ token'[t].family = token[t].family
        /\ t \notin locks[r] => token'[t] = token[t]
    BY <2>1, RevokedRow
  <2>3. QED
    BY <2>1, <2>2 DEF RowOf
<1>3. CASE token' = token
  BY <1>3 DEF RowOf
<1>4. QED
  BY <1>1, <1>2, <1>3
     DEF Next, vars, LoginStep, RefreshStep, ResetStep, ReceiveLogin, CheckCredentials,
         ReceiveRefresh, ReadToken, MarkToken, InsertToken, BurnFamily, UpdateRow, ReceiveReset,
         UpdateUser, RevokeAll, Expire, AbortDeadlock, Fail, Crash, tables

\* A reset under way is the only one that may set a password.
LEMMA PasswordSteps ==
  ASSUME SessionInvariant, [Next]_vars, NEW u \in Users
  PROVE  password'[u] = password[u] \/ \E s \in Resets : pc[s] = "revoking" /\ password'[u] = s
<1> USE Domains
<1>1. ASSUME NEW s \in Resets, CommitReset(s)
      PROVE  password'[u] = password[u] \/ (pc[s] = "revoking" /\ password'[u] = s)
  BY <1>1 DEF CommitReset
<1>2. CASE password' = password
  BY <1>2
<1>3. QED
  BY <1>1, <1>2
     DEF Next, vars, LoginStep, RefreshStep, ResetStep, ReceiveLogin, CheckCredentials,
         ReceiveRefresh, ReadToken, MarkToken, InsertToken, CommitIssue, BurnFamily, UpdateRow,
         CommitBurn, ReceiveReset, UpdateUser, RevokeAll, Expire, AbortDeadlock, Fail, Crash,
         tables

-----------------------------------------------------------------------------
\* Committed rows stay, with their user and family, and stay revoked.
LEMMA RowsKept ==
  ASSUME SessionInvariant, [Next]_vars, NEW t \in Committed
  PROVE  /\ t \in Committed' /\ token'[t].user = token[t].user
         /\ token'[t].family = token[t].family /\ (IsRevoked(t) => IsRevoked(t)')
BY RowSteps DEF RowOf, Committed, IsRevoked

\* What is known of a request that has arrived, or was answered, stays true.
LEMMA RequestsKept ==
  ASSUME SessionInvariant, PastIsAnswered, [Next]_vars, NEW r \in Requests
  PROVE  /\ pc[r] # "idle" => /\ pc'[r] # "idle" /\ past'[r] = past[r] /\ req'[r] = req[r]
         /\ pc[r] = "done" => /\ pc'[r] = "done" /\ resp'[r] = resp[r]
                              /\ aimed'[r] = aimed[r]
         /\ past[r] \subseteq past'[r] /\ \A q \in past'[r] : q \in Requests /\ pc[q] = "done"
BY RequestSteps DEF StepOf, Moves, Arrives, Aims, PastIsAnswered, Done

LEMMA PastIsAnsweredKept ==
  ASSUME SessionInvariant, PastIsAnswered, [Next]_vars
  PROVE  PastIsAnswered'
<1> SUFFICES ASSUME NEW r \in Requests
             PROVE  /\ resp'[r] # None <=> pc'[r] = "done"
                    /\ past'[r] \subseteq Done'
                    /\ pc'[r] = "idle" => past'[r] = {}
  BY DEF PastIsAnswered
<1>1. resp'[r] # None <=> pc'[r] = "done"
  BY RequestSteps, TokenAssumption DEF StepOf, Moves, PastIsAnswered
<1>2. Done \subseteq Done'
  BY RequestsKept DEF Done
<1>3. QED
  BY <1>1, <1>2, RequestSteps DEF StepOf, Arrives, PastIsAnswered, Requests, Tokens

LEMMA FamiliesGrowKept ==
  ASSUME SessionInvariant, PastIsAnswered, FamiliesGrow, [Next]_vars
  PROVE  FamiliesGrow'
<1> SUFFICES ASSUME NEW t \in Committed'
             PROVE  /\ token'[t].family \in Committed'
                    /\ t \in Logins => token'[t].family = t
                    /\ t \in Refreshes => /\ token'[t].family = token'[req'[t].token].family
                                          /\ IsRevoked(req[t].token)'
  BY DEF FamiliesGrow, IsRevoked
<1>0. t \in Tokens /\ token'[t] # None
  BY DEF Committed
<1>1. CASE t \in Committed
  <2>1. pc[t] = "done" /\ t \in Requests
    BY <1>1, RequestSets DEF SessionInvariant, TokensComeFromCommits, Committed
  <2>2. req'[t] = req[t]
    BY <2>1, RequestsKept
  <2>3. t \in Refreshes => req[t].token \in Committed
    BY <1>1, <2>1 DEF SessionInvariant, PresentedIsCommitted, Committed
  <2>4. QED
    BY <1>1, <2>2, <2>3, RowsKept DEF FamiliesGrow
<1>2. CASE t \notin Committed
  <2>1. /\ token'[t] = NewToken(t) /\ pc[t] = "commit" /\ req' = req
        /\ t \in Refreshes => req[t].token \in Committed /\ IsRevoked(req[t].token)'
    BY <1>0, <1>2, RowSteps DEF RowOf, Committed
  <2>2. CASE t \in Logins
    BY <1>0, <2>1, <2>2, RequestSets DEF NewToken
  <2>3. CASE t \in Refreshes
    <3>1. token'[t].family = token[req[t].token].family
      BY <2>1, <2>3, RequestSets DEF NewToken
    <3>2. token[req[t].token].family \in Committed
      BY <2>1, <2>3 DEF FamiliesGrow
    <3>3. QED
      BY <2>1, <2>3, <3>1, <3>2, RowsKept, RequestSets
  <2>4. QED
    BY <1>0, <2>2, <2>3 DEF Tokens
<1>3. QED
  BY <1>1, <1>2

LEMMA AimsAreReachedKept ==
  ASSUME SessionInvariant, PastIsAnswered, AimsAreReached, [Next]_vars
  PROVE  AimsAreReached'
<1> SUFFICES ASSUME NEW r \in Requests
             PROVE  /\ pc'[r] = "burning" => r \in Refreshes
                    /\ pc'[r] = "revoking" => r \in Resets
                    /\ ~Revoking(r)' /\ pc'[r] # "done" => aimed'[r] = {}
                    /\ Revoking(r)' => /\ locks'[r] \subseteq aimed'[r]
                                       /\ \A t \in aimed'[r] :
                                            t \in left'[r] \union locks'[r] \/ IsRevoked(t)'
                    /\ r \in Logins => aimed'[r] = {}
                    /\ r \in Refreshes /\ aimed'[r] # {} =>
                         req'[r].token \in Committed' /\ aimed'[r] \subseteq SameFamily(req[r].token)'
                    /\ r \in Resets => \A t \in aimed'[r] : token'[t].user = req'[r].user
                    /\ Burned(r)' \/ (r \in Resets /\ resp'[r] = 200)
                         => \A t \in aimed'[r] : IsRevoked(t)'
  BY DEF AimsAreReached
<1> USE DEF Revoking
<1>1. /\ Moves(r) /\ Aims(r) /\ Reaches(r)
      /\ pc[r] # "idle" => req'[r] = req[r]
      /\ pc[r] = "done" => resp'[r] = resp[r]
  BY RequestSteps, RequestsKept DEF StepOf
<1>2. /\ aimed[r] \subseteq Committed /\ left[r] \subseteq aimed[r]
      /\ \A t \in Committed : /\ t \in Committed' /\ token'[t].user = token[t].user
                              /\ token'[t].family = token[t].family
                              /\ IsRevoked(t) => IsRevoked(t)'
  BY RowsKept DEF SessionInvariant, TypeOK
<1>3. ASSUME aimed'[r] = aimed[r], Revoking(r)' => Revoking(r) /\ pc'[r] = pc[r]
      PROVE  /\ Revoking(r)' => /\ locks'[r] \subseteq aimed'[r]
                                /\ \A t \in aimed'[r] :
                                     t \in left'[r] \union locks'[r] \/ IsRevoked(t)'
             /\ ~Revoking(r)' /\ pc'[r] # "done" => aimed'[r] = {}
             /\ r \in Refreshes /\ aimed'[r] # {} =>
                  req'[r].token \in Committed' /\ aimed'[r] \subseteq SameFamily(req[r].token)'
             /\ r \in Resets => \A t \in aimed'[r] : token'[t].user = req'[r].user
  <2>1. ASSUME Revoking(r)'
        PROVE  /\ locks'[r] \subseteq aimed'[r]
               /\ \A t \in aimed'[r] : t \in left'[r] \union locks'[r] \/ IsRevoked(t)'
    BY <1>1, <1>2, <1>3, <2>1 DEF AimsAreReached, Reaches, IsRevoked, Committed
  <2>2. ~Revoking(r)' /\ pc'[r] # "done" => aimed'[r] = {}
    BY <1>1, <1>3 DEF AimsAreReached, Reaches, Moves
  <2>3. aimed[r] # {} => req'[r] = req[r]
    BY <1>1 DEF AimsAreReached
  <2>4. ASSUME r \in Refreshes, aimed'[r] # {}
        PROVE  req'[r].token \in Committed' /\ aimed'[r] \subseteq SameFamily(req[r].token)'
    BY <1>2, <1>3, <2>3, <2>4 DEF AimsAreReached, SameFamily
  <2>5. ASSUME r \in Resets, NEW t \in aimed'[r] PROVE token'[t].user = req'[r].user
    BY <1>2, <1>3, <2>3, <2>5 DEF AimsAreReached
  <2>6. QED
    BY <2>1, <2>2, <2>4, <2>5
<1>4. ASSUME resp'[r] # resp[r], resp'[r] \in {200, 401}, aimed'[r] # {}
      PROVE  \A t \in aimed'[r] : IsRevoked(t)'
  <2>1. Revoking(r) /\ pc'[r] = "done" /\ aimed'[r] = aimed[r]
    BY <1>1, <1>4 DEF Moves, Aims, AimsAreReached
  <2>2. token' = Revoked(locks[r]) /\ left[r] = {}
    BY <1>1, <1>4, <2>1 DEF Reaches
  <2>3. \A t \in locks[r] : IsRevoked(t)'
    BY <2>2, RevokedRow DEF IsRevoked, SessionInvariant, TypeOK, Committed
  <2>4. QED
    BY <1>2, <2>1, <2>2, <2>3 DEF AimsAreReached
<1>5. ASSUME resp'[r] = resp[r], Burned(r)' \/ (r \in Resets /\ resp'[r] = 200)
      PROVE  \A t \in aimed'[r] : IsRevoked(t)'
  <2>1. pc[r] = "done"
    BY <1>5, TokenAssumption DEF Burned, PastIsAnswered
  <2>2. aimed'[r] = aimed[r]
    BY <2>1, RequestsKept
  <2>3. QED
    BY <1>2, <1>5, <2>2 DEF AimsAreReached, Burned
<1>6. CASE aimed'[r] = aimed[r] /\ (Revoking(r)' => Revoking(r) /\ pc'[r] = pc[r])
  BY <1>3, <1>4, <1>5, <1>6 DEF AimsAreReached, Burned
<1>7. CASE /\ r \in Refreshes /\ pc[r] = "burn" /\ pc'[r] = "burning" /\ locks'[r] = locks[r]
           /\ aimed'[r] = left'[r] /\ aimed'[r] = Family(r) /\ tables' = tables
           /\ resp'[r] = resp[r] /\ req'[r] = req[r]
  <2>1. locks'[r] = {} /\ req[r].token \in Committed
    BY <1>7 DEF SessionInvariant, HeldRows, PresentedIsCommitted
  <2>2. aimed'[r] \subseteq SameFamily(req[r].token)'
    BY <1>2, <1>7, <2>1 DEF Family, SameFamily, Committed
  <2>3. QED
    BY <1>2, <1>5, <1>7, <2>1, <2>2, RequestSets DEF Burned
<1>8. CASE /\ r \in Resets /\ pc[r] = "revoke" /\ pc'[r] = "revoking" /\ locks'[r] = locks[r]
           /\ aimed'[r] = left'[r] /\ aimed'[r] = ActiveOf(req[r].user) /\ tables' = tables
           /\ resp'[r] = resp[r] /\ req'[r] = req[r]
  <2>1. locks'[r] = {}
    BY <1>8 DEF SessionInvariant, HeldRows
  <2>2. \A t \in aimed'[r] : token'[t].user = req'[r].user
    BY <1>8 DEF ActiveOf, tables
  <2>3. QED
    BY <1>5, <1>8, <2>1, <2>2, RequestSets DEF Burned
<1>9. QED
  BY <1>1, <1>6, <1>7, <1>8 DEF Aims

\* Requests that overlapped did, whatever comes later.
LEMMA OverlapKept ==
  ASSUME SessionInvariant, PastIsAnswered, [Next]_vars, NEW r \in Requests, NEW s \in Requests,
         pc[r] # "idle", pc[s] # "idle", Overlap(r, s)
  PROVE  Overlap(r, s)'
BY RequestsKept DEF Overlap

\* A witness of the overlap stays in the family.
LEMMA FamilyOverlapKept ==
  ASSUME SessionInvariant, PastIsAnswered, [Next]_vars, NEW r \in Requests, pc[r] # "idle",
         NEW s \in Committed, NEW g \in SameFamily(s), Overlap(r, g), NEW t \in Committed',
         token'[t].family = token[s].family
  PROVE  \E h \in SameFamily(t)' : Overlap(r, h)'
<1>1. g \in Committed /\ g \in Requests /\ pc[g] # "idle" /\ token[g].family = token[s].family
  BY RequestSets DEF SameFamily, SessionInvariant, TokensComeFromCommits, Committed
<1>2. g \in SameFamily(t)'
  BY <1>1, RowsKept DEF SameFamily
<1>3. QED
  BY <1>1, <1>2, OverlapKept

\* A new row of an old family comes from an exchange, of a row of the family.
LEMMA NewRows ==
  ASSUME SessionInvariant, FamiliesGrow, [Next]_vars, NEW t \in Committed', t \notin Committed
  PROVE  /\ t \in Tokens /\ pc[t] = "commit" /\ past' = past /\ req' = req /\ aimed' = aimed
         /\ t \notin Refreshes => t \in Logins /\ token'[t].family = t
                                  /\ token'[t].user = req[t].user
         /\ t \in Refreshes => /\ req[t].token \in Committed
                               /\ token'[t].family = token[req[t].token].family
                               /\ token'[t].user = token[req[t].token].user
<1>1. t \in Tokens /\ token[t] = None /\ token'[t] # None
  BY DEF Committed
<1>2. /\ token'[t] = NewToken(t) /\ pc[t] = "commit" /\ past' = past /\ req' = req
      /\ aimed' = aimed /\ (t \in Refreshes => req[t].token \in Committed)
  BY <1>1, RowSteps DEF RowOf
<1>3. /\ t \in Logins => token'[t].family = t /\ token'[t].user = req[t].user
      /\ t \notin Logins => /\ token'[t].family = token[req[t].token].family
                            /\ token'[t].user = token[req[t].token].user
  BY <1>2 DEF NewToken
<1>4. QED
  BY <1>1, <1>2, <1>3, RequestSets DEF Tokens

LEMMA SpentTokenBurnsKept ==
  ASSUME SessionInvariant, PastIsAnswered, FamiliesGrow, AimsAreReached, SpentTokenBurns,
         AimsAreReached', [Next]_vars
  PROVE  SpentTokenBurns'
<1> SUFFICES ASSUME NEW f \in Refreshes, NEW g \in Refreshes,
                    f \in past'[g], f \in Committed', req'[g].token = req'[f].token
             PROVE  /\ ~Exchanging(g)' /\ resp'[g] # 200
                    /\ pc'[g] = "burning" =>
                         \A t \in SameFamily(f)' : t \in past'[g] => t \in aimed'[g]
                    /\ resp'[g] = 401 =>
                         \A t \in SameFamily(f)' : t \in past'[g] => IsRevoked(t)'
  BY DEF SpentTokenBurns, Reuses
<1> USE RequestSets DEF Revoking, Exchanging
\* What was answered and is committed now was committed before the step.
<1>0. ASSUME NEW t \in Committed', t \in past'[g]
      PROVE  t \in Committed /\ pc[t] = "done" /\ req'[t] = req[t]
             /\ token'[t].family = token[t].family
  <2>1. pc[t] = "done" /\ t \in Requests
    BY <1>0, RequestsKept
  <2>2. t \in Committed
    BY <2>1, NewRows
  <2>3. QED
    BY <2>1, <2>2, RequestsKept, RowsKept
<1>1. pc[f] = "done" /\ f \in Committed /\ req'[f] = req[f] /\ token'[f].family = token[f].family
  BY <1>0
<1>2. IsRevoked(req[f].token) /\ req[f].token # None
      /\ token[f].family = token[req[f].token].family
  BY <1>1 DEF SessionInvariant, PresentedIsCommitted, FamiliesGrow, Committed
<1>3. Moves(g) /\ Arrives(g) /\ Aims(g) /\ Exchanges(g)
  BY RequestSteps DEF StepOf
<1>4. CASE pc[g] = "idle"
  BY <1>3, <1>4, TokenAssumption DEF Arrives, PastIsAnswered
<1>5. CASE pc[g] # "idle"
  <2>1. f \in past[g] /\ past'[g] = past[g] /\ req[g].token = req[f].token /\ req'[g] = req[g]
    BY <1>1, <1>5, RequestsKept
  <2>2. /\ ~Exchanging(g) /\ resp[g] # 200
        /\ pc[g] = "burning" => \A t \in SameFamily(f) : t \in past[g] => t \in aimed[g]
        /\ resp[g] = 401 => \A t \in SameFamily(f) : t \in past[g] => IsRevoked(t)
    BY <1>1, <2>1 DEF SpentTokenBurns, Reuses
  <2>3. ~Exchanging(g)' /\ resp'[g] # 200
    BY <1>2, <1>3, <2>1, <2>2 DEF Exchanges, IsRevoked
  <2>4. ASSUME NEW t \in SameFamily(f)', t \in past'[g]
        PROVE  t \in SameFamily(f) /\ t \in past[g] /\ t \in Committed
    BY <1>0, <1>1, <2>1, <2>4 DEF SameFamily
  <2>5. ASSUME pc'[g] = "burning", NEW t \in SameFamily(f)', t \in past'[g]
        PROVE  t \in aimed'[g]
    <3>1. CASE aimed'[g] = aimed[g] /\ pc[g] = "burning"
      BY <2>2, <2>4, <2>5, <3>1
    <3>2. CASE aimed'[g] = Family(g)
      BY <1>2, <2>1, <2>4, <2>5, <3>2 DEF Family, SameFamily
    <3>3. QED
      BY <1>3, <2>5, <3>1, <3>2 DEF Aims
  <2>6. ASSUME resp'[g] = 401, resp[g] # 401, NEW t \in SameFamily(f)', t \in past'[g]
        PROVE  IsRevoked(t)'
    <3>1. pc[g] = "burning" /\ aimed'[g] = aimed[g]
      BY <1>2, <1>3, <2>1, <2>6 DEF Exchanges, IsRevoked, Aims
    <3>2. t \in aimed'[g]
      BY <2>2, <2>4, <2>6, <3>1
    <3>3. QED
      BY <2>6, <3>2 DEF AimsAreReached, Burned
  <2>7. ASSUME resp[g] = 401, NEW t \in SameFamily(f)', t \in past'[g]
        PROVE  IsRevoked(t)'
    BY <2>2, <2>4, <2>7, RowsKept
  <2>8. QED
    BY <2>3, <2>5, <2>6, <2>7
<1>6. QED
  BY <1>4, <1>5

LEMMA BurnsReachFamilyKept ==
  ASSUME SessionInvariant, PastIsAnswered, FamiliesGrow, AimsAreReached, BurnsReachFamily,
         [Next]_vars
  PROVE  BurnsReachFamily'
<1> USE RequestSets DEF Revoking, Exchanging
<1>1. ASSUME NEW f \in Refreshes, pc'[f] = "burning" \/ Burned(f)',
             NEW t \in SameFamily(req[f].token)' \ aimed'[f]
      PROVE  \E g \in SameFamily(t)' : Overlap(f, g)'
  <2>0. /\ Moves(f) /\ Aims(f) /\ Exchanges(f)
        /\ t \in Committed' /\ t \in Tokens /\ token'[t].family = token'[req'[f].token].family
    BY <1>1, RequestSteps DEF StepOf, SameFamily, Committed
  <2>1. CASE aimed'[f] = Family(f) /\ tables' = tables /\ req'[f] = req[f]
    BY <1>1, <2>1 DEF Family, SameFamily, Committed, tables
  <2>2. CASE aimed'[f] = aimed[f] /\ (Revoking(f)' => Revoking(f) /\ pc'[f] = pc[f])
    <3>1. /\ pc[f] = "burning" \/ Burned(f)
          /\ req[f].token \in Committed /\ req'[f] = req[f] /\ pc[f] # "idle"
      <4>1. pc[f] = "burning" \/ Burned(f)
        BY <1>1, <2>0, <2>2 DEF Burned, Moves, AimsAreReached
      <4>2. pc[f] # "idle" /\ req[f].token \in Committed
        BY <4>1, TokenAssumption
           DEF AimsAreReached, Burned, SessionInvariant, PresentedIsCommitted, PastIsAnswered
      <4>3. QED
        BY <4>1, <4>2, RequestsKept
    <3>2. token'[t].family = token[req[f].token].family
      BY <2>0, <3>1, RowsKept
    <3>3. ASSUME NEW s \in Committed, s \notin aimed[f], token'[t].family = token[s].family
          PROVE  \E g \in SameFamily(t)' : Overlap(f, g)'
      <4>1. s \in SameFamily(req[f].token)
        BY <3>2, <3>3 DEF SameFamily
      <4>2. PICK g \in SameFamily(s) : Overlap(f, g)
        BY <3>1, <3>3, <4>1 DEF BurnsReachFamily
      <4>3. QED
        BY <2>0, <3>1, <3>3, <4>2, FamilyOverlapKept
    <3>4. CASE t \in Committed
      BY <1>1, <2>2, <3>3, <3>4, RowsKept
    <3>5. CASE t \notin Committed
      <4>1. t \in Refreshes /\ req[t].token \in Committed /\ pc[t] = "commit" /\ past' = past
            /\ token'[t].family = token[req[t].token].family
        BY <2>0, <3>1, <3>2, <3>5, NewRows DEF FamiliesGrow
      <4>2. t \notin past[f]
        BY <4>1 DEF PastIsAnswered, Done
      <4>3. CASE f \notin past[t]
        BY <2>0, <4>1, <4>2, <4>3 DEF Overlap, SameFamily
      <4>4. CASE f \in past[t]
        <5>1. Burned(f)
          BY <3>1, <4>1, <4>4 DEF PastIsAnswered, Done
        <5>2. req[t].token \notin aimed[f]
          BY <4>1, <4>4, <5>1 DEF BurnsReachFamily
        <5>3. QED
          BY <3>3, <4>1, <5>2
      <4>5. QED
        BY <4>3, <4>4
    <3>6. QED
      BY <3>4, <3>5
  <2>3. QED
    BY <2>0, <2>1, <2>2 DEF Aims
<1>2. ASSUME NEW f \in Refreshes, NEW g \in Refreshes,
             Burned(f)', f \in past'[g], Exchanging(g)'
      PROVE  req'[g].token \notin aimed'[f]
  <2>1. Burned(f) /\ aimed'[f] = aimed[f] /\ Arrives(g) /\ Exchanges(g)
    BY <1>2, RequestsKept, RequestSteps DEF StepOf, Burned
  <2>2. req'[g] = req[g] /\ past'[g] = past[g]
    BY <1>2, <2>1 DEF Arrives
  <2>3. CASE Exchanging(g)
    BY <1>2, <2>1, <2>2, <2>3 DEF BurnsReachFamily
  <2>4. CASE ~Exchanging(g)
    BY <1>2, <2>1, <2>2, <2>4 DEF Exchanges, AimsAreReached, IsRevoked
  <2>5. QED
    BY <2>3, <2>4
<1>3. QED
  BY <1>1, <1>2 DEF BurnsReachFamily

LEMMA ExcusedKept ==
  ASSUME SessionInvariant, PastIsAnswered, FamiliesGrow, [Next]_vars,
         NEW r \in Requests, pc[r] # "idle", NEW s \in Committed, Excused(r, s),
         NEW t \in Committed', token'[t].family = token[s].family
  PROVE  Excused(r, t)'
<1>1. token[s].family \in Requests
  BY RequestSets DEF FamiliesGrow, Committed
<1>2. CASE r \in past[token[s].family]
  BY <1>1, <1>2, RequestsKept DEF Excused
<1>3. CASE \E g \in SameFamily(s) : Overlap(r, g)
  BY <1>3, FamilyOverlapKept DEF Excused
<1>4. QED
  BY <1>2, <1>3 DEF Excused

LEMMA ResetsReachUserKept ==
  ASSUME SessionInvariant, PastIsAnswered, FamiliesGrow, AimsAreReached, ResetsReachUser,
         [Next]_vars
  PROVE  ResetsReachUser'
<1> USE RequestSets DEF Revoking, Exchanging
<1>1. ASSUME NEW r \in Resets, pc'[r] = "revoking" \/ resp'[r] = 200,
             NEW t \in Committed' \ aimed'[r], Live(t)', token'[t].user = req'[r].user
      PROVE  Excused(r, t)'
  <2>0. Moves(r) /\ Aims(r) /\ SetsPassword(r) /\ t \in Committed' /\ t \in Tokens
    BY <1>1, RequestSteps DEF StepOf, Committed
  <2>1. CASE aimed'[r] = ActiveOf(req[r].user) /\ tables' = tables /\ req'[r] = req[r]
    BY <1>1, <2>1 DEF ActiveOf, Committed, Live, tables
  <2>2. CASE aimed'[r] = aimed[r] /\ (Revoking(r)' => Revoking(r) /\ pc'[r] = pc[r])
    <3>1. /\ pc[r] = "revoking" \/ resp[r] = 200
          /\ req'[r] = req[r] /\ pc[r] # "idle"
      <4>1. pc[r] = "revoking" \/ resp[r] = 200
        BY <1>1, <2>0, <2>2 DEF SetsPassword
      <4>2. pc[r] # "idle"
        BY <4>1, TokenAssumption DEF PastIsAnswered
      <4>3. QED
        BY <4>1, <4>2, RequestsKept
    <3>2. CASE t \in Committed
      <4>1. Live(t) /\ token[t].user = req[r].user /\ token'[t].family = token[t].family
        BY <1>1, <3>1, <3>2, RowsKept DEF Live, IsRevoked, Committed
      <4>2. Excused(r, t)
        BY <1>1, <2>2, <3>1, <3>2, <4>1 DEF ResetsReachUser
      <4>3. QED
        BY <2>0, <3>1, <3>2, <4>1, <4>2, ExcusedKept
    <3>3. CASE t \notin Committed
      <4>1. /\ pc[t] = "commit" /\ past' = past
            /\ t \notin Refreshes => t \in Logins /\ token'[t].family = t
            /\ t \in Refreshes => /\ req[t].token \in Committed
                                  /\ token'[t].family = token[req[t].token].family
                                  /\ token'[t].user = token[req[t].token].user
        BY <2>0, <3>3, NewRows
      <4>2. t \notin past[r]
        BY <4>1 DEF PastIsAnswered, Done
      <4>3. CASE r \notin past[t]
        <5>1. Overlap(r, t)' /\ t \in SameFamily(t)'
          BY <2>0, <4>1, <4>2, <4>3 DEF Overlap, SameFamily
        <5>2. QED
          BY <5>1 DEF Excused
      <4>4. CASE r \in past[t] /\ t \notin Refreshes
        BY <4>1, <4>4 DEF Excused
      <4>5. CASE r \in past[t] /\ t \in Refreshes
        <5>1. resp[r] = 200
          BY <3>1, <4>5 DEF PastIsAnswered, Done
        <5>2. Excused(r, req[t].token)
          BY <1>1, <3>1, <4>1, <4>5, <5>1 DEF ResetsReachUser
        <5>3. QED
          BY <2>0, <3>1, <4>1, <4>5, <5>2, ExcusedKept
      <4>6. QED
        BY <4>3, <4>4, <4>5
    <3>4. QED
      BY <3>2, <3>3
  <2>3. QED
    BY <2>0, <2>1, <2>2 DEF Aims
<1>2. ASSUME NEW r \in Resets, NEW g \in Refreshes, resp'[r] = 200, r \in past'[g],
             Exchanging(g)', token'[req'[g].token].user = req'[r].user
      PROVE  Excused(r, req[g].token)'
  <2>1. /\ pc[r] = "done" /\ resp[r] = 200 /\ req'[r] = req[r] /\ Arrives(g) /\ Exchanges(g)
    BY <1>2, RequestsKept, RequestSteps DEF StepOf
  <2>2. req'[g] = req[g] /\ past'[g] = past[g] /\ pc[g] # "idle"
    BY <1>2, <2>1 DEF Arrives
  <2>3. req[g].token \in Committed
    BY <1>2, <2>1, <2>2 DEF Exchanges, SessionInvariant, PresentedIsCommitted
  <2>4. token[req[g].token].user = req[r].user
    BY <1>2, <2>1, <2>2, <2>3, RowsKept
  <2>5. Excused(r, req[g].token)
    <3>1. CASE Exchanging(g)
      BY <1>2, <2>1, <2>2, <2>4, <3>1 DEF ResetsReachUser
    <3>2. CASE ~Exchanging(g)
      <4>1. Live(req[g].token)
        BY <1>2, <2>1, <2>3, <3>2 DEF Exchanges, Live, Committed
      <4>2. req[g].token \notin aimed[r]
        BY <2>1, <4>1 DEF AimsAreReached, Live, IsRevoked
      <4>3. QED
        BY <2>1, <2>3, <2>4, <4>1, <4>2 DEF ResetsReachUser
    <3>3. QED
      BY <3>1, <3>2
  <2>6. QED
    BY <2>1, <2>2, <2>3, <2>5, ExcusedKept, RowsKept
<1>3. QED
  BY <1>1, <1>2 DEF ResetsReachUser

LEMMA PasswordsAreRecentKept ==
  ASSUME SessionInvariant, PastIsAnswered, PasswordsAreRecent, [Next]_vars
  PROVE  PasswordsAreRecent'
<1> USE RequestSets
<1>1. ASSUME NEW r \in Resets, Open(r)' \/ resp'[r] = 200 PROVE req'[r].user \in Users
  <2>1. Moves(r) /\ Arrives(r) /\ SetsPassword(r)
    BY RequestSteps DEF StepOf
  <2>2. CASE pc[r] = "idle"
    BY <1>1, <2>1, <2>2, TokenAssumption DEF Arrives, Open, PastIsAnswered, SetsPassword
  <2>3. CASE pc[r] # "idle"
    BY <1>1, <2>1, <2>3, RequestsKept DEF Open, PasswordsAreRecent, SetsPassword, Moves
  <2>4. QED
    BY <2>2, <2>3
<1>2. ASSUME NEW r \in Resets, resp'[r] = 200
      PROVE  password'[req'[r].user] \notin past'[r] \union {Initial}
  <2>1. CASE resp[r] = 200
    <3>1. pc[r] = "done" /\ req'[r] = req[r] /\ past'[r] = past[r]
      BY <2>1, TokenAssumption, RequestsKept DEF PastIsAnswered
    <3>2. /\ req[r].user \in Users
          /\ password[req[r].user] \notin past[r] \union {Initial}
      BY <2>1 DEF PasswordsAreRecent
    <3>3. CASE password'[req[r].user] = password[req[r].user]
      BY <3>1, <3>2, <3>3
    <3>4. CASE \E s \in Resets : pc[s] = "revoking" /\ password'[req[r].user] = s
      BY <3>1, <3>4, TokenAssumption DEF PastIsAnswered, Done
    <3>5. QED
      BY <3>2, <3>3, <3>4, PasswordSteps
  <2>2. CASE resp[r] # 200
    <3>1. pc[r] = "revoking" /\ password' = [password EXCEPT ![req[r].user] = r]
      BY <1>2, <2>2, RequestSteps DEF StepOf, SetsPassword
    <3>2. req'[r] = req[r] /\ past'[r] = past[r] /\ req[r].user \in Users
      BY <3>1, RequestsKept DEF PasswordsAreRecent, Open
    <3>3. r \notin past[r] /\ r # Initial
      BY <3>1, TokenAssumption DEF PastIsAnswered, Done
    <3>4. QED
      BY <3>1, <3>2, <3>3, Domains
  <2>3. QED
    BY <2>1, <2>2
<1>3. ASSUME NEW r \in Resets, NEW l \in Logins, resp'[r] = 200, r \in past'[l],
             req'[l].user = req'[r].user, req'[l].password \in past'[r] \union {Initial}
      PROVE  pc'[l] \in {"credentials", "done"} /\ resp'[l] # 200
  <2>1. /\ pc[r] = "done" /\ resp[r] = 200 /\ req'[r] = req[r] /\ past'[r] = past[r]
        /\ Moves(l) /\ Arrives(l) /\ LogsIn(l)
    BY <1>3, RequestsKept, RequestSteps DEF StepOf
  <2>2. CASE pc[l] = "idle"
    BY <1>3, <2>1, <2>2, TokenAssumption DEF Arrives, PastIsAnswered
  <2>3. CASE pc[l] # "idle"
    <3>1. req'[l] = req[l] /\ past'[l] = past[l] /\ pc'[l] # "idle"
      BY <2>3, RequestsKept
    <3>2. pc[l] \in {"credentials", "done"} /\ resp[l] # 200
          /\ password[req[r].user] \notin past[r] \union {Initial}
      BY <1>3, <2>1, <3>1 DEF PasswordsAreRecent
    <3>3. QED
      BY <1>3, <2>1, <3>1, <3>2 DEF LogsIn, Moves
  <2>4. QED
    BY <2>2, <2>3
<1>4. QED
  BY <1>1, <1>2, <1>3 DEF PasswordsAreRecent

LEMMA RevocationHasACauseKept ==
  ASSUME SessionInvariant, PastIsAnswered, FamiliesGrow, AimsAreReached, RevocationHasACause,
         [Next]_vars
  PROVE  RevocationHasACause'
<1> SUFFICES ASSUME NEW t \in Committed', token'[t].revoked
             PROVE  \/ \E f \in Refreshes : token'[f] # None /\ req'[f].token = t
                    \/ \E f \in Refreshes :
                         aimed'[f] # {} /\ req'[f].token \in SameFamily(t)'
                    \/ \E r \in Resets : pc'[r] = "done" /\ req'[r].user = token'[t].user
  BY DEF RevocationHasACause
<1> USE RequestSets
<1>1. CASE IsRevoked(t)
  <2>0. t \in Committed /\ token'[t].user = token[t].user /\ token'[t].family = token[t].family
    BY <1>1, RowsKept DEF IsRevoked, Committed
  <2>1. ASSUME NEW f \in Refreshes, token[f] # None, req[f].token = t
        PROVE  token'[f] # None /\ req'[f].token = t
    BY <2>1, RowsKept, RequestsKept DEF SessionInvariant, TokensComeFromCommits, Committed
  <2>2. ASSUME NEW f \in Refreshes, aimed[f] # {}, req[f].token \in SameFamily(t)
        PROVE  aimed'[f] # {} /\ req'[f].token \in SameFamily(t)'
    <3>1. req'[f] = req[f] /\ aimed'[f] = aimed[f]
      BY <2>2, RequestSteps, RequestsKept DEF StepOf, Aims, AimsAreReached, Revoking
    <3>2. QED
      BY <2>0, <2>2, <3>1, RowsKept DEF SameFamily
  <2>3. ASSUME NEW r \in Resets, pc[r] = "done", req[r].user = token[t].user
        PROVE  pc'[r] = "done" /\ req'[r].user = token'[t].user
    BY <2>0, <2>3, RequestsKept
  <2>4. QED
    BY <1>1, <2>0, <2>1, <2>2, <2>3 DEF RevocationHasACause, IsRevoked
<1>2. CASE ~IsRevoked(t)
  <2>1. t \in Tokens /\ token'[t] # None
    BY DEF Committed
  <2>2. token'[t] # token[t]
    BY <1>2, <2>1 DEF IsRevoked
  <2>3. token[t] # None
    <3>1. ~NewToken(t).revoked
      BY DEF NewToken
    <3>2. QED
      BY <2>1, <2>2, <3>1, RowSteps DEF RowOf
  <2>4. PICK r \in Requests :
          /\ t \in locks[r] /\ req'[r] = req[r] /\ aimed'[r] = aimed[r]
          /\ \/ Revoking(r) /\ pc'[r] = "done"
             \/ r \in Refreshes /\ pc[r] = "commit" /\ token'[r] # None
    BY <2>1, <2>2, <2>3, RowSteps DEF RowOf
  <2>5. CASE r \in Refreshes /\ pc[r] = "commit" /\ token'[r] # None
    BY <2>4, <2>5 DEF SessionInvariant, HeldRows
  <2>6. CASE Revoking(r) /\ pc'[r] = "done"
    <3>1. t \in aimed[r] /\ t \in Committed
      BY <2>1, <2>3, <2>4, <2>6 DEF AimsAreReached, Committed
    <3>2. CASE r \in Refreshes
      <4>1. req[r].token \in SameFamily(t)
        BY <3>1, <3>2 DEF AimsAreReached, SameFamily
      <4>2. req[r].token \in SameFamily(t)'
        BY <3>1, <4>1, RowsKept DEF SameFamily
      <4>3. QED
        BY <2>4, <3>1, <3>2, <4>2
    <3>3. CASE r \in Resets
      BY <2>4, <2>6, <3>1, <3>3, RowsKept DEF AimsAreReached
    <3>4. QED
      BY <2>6, <3>2, <3>3 DEF AimsAreReached, Revoking
  <2>7. QED
    BY <2>4, <2>5, <2>6
<1>3. QED
  BY <1>1, <1>2

-----------------------------------------------------------------------------
\* Whatever requests come and however they overlap, a request knows of those
\* answered before it arrived what HistoryInvariant says, and every revoked
\* token has a cause.
LEMMA HistoryInit == Init => HistoryInvariant /\ RevocationHasACause
<1> SUFFICES ASSUME Init PROVE HistoryInvariant /\ RevocationHasACause
  OBVIOUS
<1> USE RequestSets
<1>1. /\ Committed = {} /\ \A t \in Tokens : token[t] = None
      /\ \A r \in Requests : /\ pc[r] = "idle" /\ resp[r] = None /\ past[r] = {}
                             /\ aimed[r] = {}
  BY DEF Init, Committed
<1>2. PastIsAnswered /\ FamiliesGrow /\ SpentTokenBurns /\ PasswordsAreRecent
  BY <1>1, TokenAssumption DEF PastIsAnswered, FamiliesGrow, SpentTokenBurns, Reuses,
     PasswordsAreRecent, Open
<1>3. AimsAreReached /\ BurnsReachFamily /\ ResetsReachUser
  BY <1>1, TokenAssumption DEF AimsAreReached, BurnsReachFamily, ResetsReachUser, Revoking, Burned
<1>4. RevocationHasACause
  BY <1>1 DEF RevocationHasACause
<1>5. QED
  BY <1>2, <1>3, <1>4 DEF HistoryInvariant

THEOREM HistoryInvariantHolds == Spec => [](HistoryInvariant /\ RevocationHasACause)
<1>1. Init => HistoryInvariant /\ RevocationHasACause
  BY HistoryInit
<1>2. SessionInvariant /\ HistoryInvariant /\ RevocationHasACause /\ [Next]_vars
        => (HistoryInvariant /\ RevocationHasACause)'
  BY PastIsAnsweredKept, FamiliesGrowKept, AimsAreReachedKept, SpentTokenBurnsKept,
     BurnsReachFamilyKept, ResetsReachUserKept, PasswordsAreRecentKept, RevocationHasACauseKept
     DEF HistoryInvariant
<1>3. QED
  BY <1>1, <1>2, SessionInvariantHolds, PTL DEF Spec

\* A token exchanged before a request arrived is not exchanged again by it.
THEOREM SpentTokenIsRefusedHolds == Spec => []SpentTokenIsRefused
<1>1. HistoryInvariant => SpentTokenIsRefused
  BY DEF HistoryInvariant, SpentTokenBurns, SpentTokenIsRefused
<1>2. QED
  BY <1>1, HistoryInvariantHolds, PTL

\* A request with a spent token is refused only once every token that its
\* family had when the request came is revoked.
THEOREM ReuseIsPunishedHolds == Spec => []ReuseIsPunished
<1>1. HistoryInvariant => ReuseIsPunished
  BY DEF HistoryInvariant, SpentTokenBurns, ReuseIsPunished, IsRevoked, Live
<1>2. QED
  BY <1>1, HistoryInvariantHolds, PTL

\* Only an exchange that overlapped the revocation of its family keeps a token
\* of it alive.
THEOREM OnlyOverlapSurvivesBurnHolds == Spec => []OnlyOverlapSurvivesBurn
<1>1. ASSUME HistoryInvariant, NEW f \in Refreshes, Burned(f),
             NEW t \in SameFamily(req[f].token), Live(t)
      PROVE  \E g \in SameFamily(t) : Overlap(f, g)
  <2>1. t \notin aimed[f]
    BY <1>1, RequestSets DEF HistoryInvariant, AimsAreReached, IsRevoked, Live
  <2>2. QED
    BY <1>1, <2>1 DEF HistoryInvariant, BurnsReachFamily
<1>2. HistoryInvariant => OnlyOverlapSurvivesBurn
  BY <1>1 DEF OnlyOverlapSurvivesBurn
<1>3. QED
  BY <1>2, HistoryInvariantHolds, PTL

\* Only a later login, or what overlapped it, keeps a session alive after a
\* password reset.
THEOREM OnlyOverlapSurvivesResetHolds == Spec => []OnlyOverlapSurvivesReset
<1>1. ASSUME HistoryInvariant, NEW r \in Resets, resp[r] = 200,
             NEW t \in Committed, Live(t), token[t].user = req[r].user
      PROVE  Excused(r, t)
  <2>1. t \notin aimed[r]
    BY <1>1, RequestSets DEF HistoryInvariant, AimsAreReached, IsRevoked, Live
  <2>2. QED
    BY <1>1, <2>1 DEF HistoryInvariant, ResetsReachUser
<1>2. HistoryInvariant => OnlyOverlapSurvivesReset
  BY <1>1 DEF OnlyOverlapSurvivesReset, Excused
<1>3. QED
  BY <1>2, HistoryInvariantHolds, PTL

\* A password older than an answered reset does not log in.
THEOREM OldPasswordIsRefusedHolds == Spec => []OldPasswordIsRefused
<1>1. HistoryInvariant => OldPasswordIsRefused
  BY DEF HistoryInvariant, PasswordsAreRecent, OldPasswordIsRefused
<1>2. QED
  BY <1>1, HistoryInvariantHolds, PTL

\* Nobody is logged out without a reason.
THEOREM RevocationHasACauseHolds == Spec => []RevocationHasACause
BY HistoryInvariantHolds, PTL
=============================================================================
