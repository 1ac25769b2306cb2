------------------------- MODULE TokenSessionsProofs -------------------------
(***************************************************************************)
(* Proofs about TokenSessions for every set of requests, users and         *)
(* expiring tokens: SessionInvariant is inductive, and with it every step  *)
(* is a step of TokenLedger or leaves the ledger alone.                    *)
(***************************************************************************)
EXTENDS TokenSessionsProperties, TLAPS

\* Marking a group of rows revoked keeps the table's type, the rows and whose
\* they are; only the group changes.
LEMMA RevokedRows ==
  ASSUME TypeOK, NEW group \in SUBSET Committed
  PROVE  /\ Revoked(group) \in [Tokens -> TokenRow \union {None}]
         /\ \A t \in Tokens :
              /\ Revoked(group)[t] = None <=> token[t] = None
              /\ token[t] # None =>
                   /\ Revoked(group)[t].user = token[t].user
                   /\ Revoked(group)[t].family = token[t].family
                   /\ Revoked(group)[t].revoked = (t \in group \/ token[t].revoked)
<1>1. \A t \in Committed : token[t] \in TokenRow
  BY DEF TypeOK, Committed
<1>2. \A t \in group : [token[t] EXCEPT !.revoked = TRUE] \in TokenRow
  BY <1>1 DEF TokenRow
<1>3. \A t \in group : [token[t] EXCEPT !.revoked = TRUE] # None
  BY <1>2, TokenAssumption DEF TokenRow
<1>4. \A t \in group :
        LET row == [token[t] EXCEPT !.revoked = TRUE] IN
        row.user = token[t].user /\ row.family = token[t].family /\ row.revoked = TRUE
  BY <1>1 DEF TokenRow
<1>5. \A t \in Tokens :
        Revoked(group)[t] = IF t \in group THEN [token[t] EXCEPT !.revoked = TRUE]
                            ELSE token[t]
  BY DEF Revoked
<1>6. Revoked(group) \in [Tokens -> TokenRow \union {None}]
  BY <1>2, <1>5 DEF Revoked, TypeOK
<1>7. \A t \in Tokens : Revoked(group)[t] = None <=> token[t] = None
  BY <1>3, <1>5 DEF Committed
<1>8. ASSUME NEW t \in Tokens, token[t] # None
      PROVE  /\ Revoked(group)[t].user = token[t].user
             /\ Revoked(group)[t].family = token[t].family
             /\ Revoked(group)[t].revoked = (t \in group \/ token[t].revoked)
  <2>1. CASE t \in group
    BY <2>1, <1>4, <1>5
  <2>2. CASE t \notin group
    <3>1. Revoked(group)[t] = token[t]
      BY <2>2, <1>5
    <3>2. token[t].revoked \in BOOLEAN
      BY <1>8, <1>1 DEF Committed, TokenRow
    <3>3. QED
      BY <3>1, <3>2, <2>2
  <2>3. QED
    BY <2>1, <2>2
<1>9. QED
  BY <1>6, <1>7, <1>8

-----------------------------------------------------------------------------
\* A step of one request that commits nothing keeps the invariant when what
\* that request presents and holds is as the invariant says.
LEMMA QuietStep ==
  ASSUME SessionInvariant, TypeOK', token' = token, NEW r \in Requests,
         \A q \in Requests \ {r} :
           pc'[q] = pc[q] /\ req'[q] = req[q] /\ resp'[q] = resp[q] /\ locks'[q] = locks[q],
         pc[r] # "done",
         r \in Tokens => resp'[r] # 200,
         r \in Refreshes =>
           /\ pc'[r] # "idle" => req'[r].token \in Committed \union {None}
           /\ pc'[r] \in {"mark", "insert", "commit", "burn", "burning"}
                => req'[r].token # None
           /\ pc'[r] \in {"insert", "commit"} => locks'[r] = {req'[r].token},
         pc'[r] \notin {"insert", "commit", "burning", "revoking"} \/ r \in Logins
           => locks'[r] = {},
         \A q \in Requests \ {r} : left'[q] = left[q],
         left'[r] # {} => pc'[r] \in {"burning", "revoking"},
         pc'[r] \in {"burning", "revoking"} => r \notin Logins
  PROVE  SessionInvariant'
<1> USE DEF SessionInvariant
<1>1. Committed' = Committed
  BY DEF Committed
<1>2. TokensComeFromCommits'
  BY DEF TokensComeFromCommits, Requests
<1>3. PresentedIsCommitted'
  <2> SUFFICES ASSUME NEW f \in Refreshes
               PROVE  /\ pc'[f] # "idle" => req'[f].token \in Committed \union {None}
                      /\ pc'[f] \in {"mark", "insert", "commit", "burn", "burning"}
                           => req'[f].token # None
                      /\ token[f] # None => req'[f].token # None
    BY <1>1 DEF PresentedIsCommitted
  <2>1. CASE f = r
    BY <2>1 DEF TokensComeFromCommits, Tokens
  <2>2. CASE f # r
    BY <2>2 DEF PresentedIsCommitted, Requests, Tokens
  <2>3. QED
    BY <2>1, <2>2
<1>4. HeldRows'
  BY DEF HeldRows
<1>5. QED
  BY <1>2, <1>3, <1>4

\* The facts about request sets that every step uses.
LEMMA RequestSets ==
  /\ Logins \subseteq Tokens /\ Refreshes \subseteq Tokens /\ Tokens \subseteq Requests
  /\ Resets \subseteq Requests
  /\ \A l \in Logins : l \notin Refreshes /\ l \notin Resets
  /\ \A f \in Refreshes : f \notin Logins /\ f \notin Resets
  /\ \A r \in Resets : r \notin Logins /\ r \notin Refreshes /\ r \notin Tokens
BY TokenAssumption DEF Tokens, Requests

\* A login request arrives.
LEMMA ReceiveLoginStep ==
  ASSUME SessionInvariant, NEW l \in Logins, ReceiveLogin(l)
  PROVE  SessionInvariant'
<1> USE RequestSets DEF ReceiveLogin, Arrive, Goto, tables
<1>1. TypeOK'
  BY DEF SessionInvariant, TypeOK, Done, Committed, LoginRequest
<1>2. QED
  BY <1>1, QuietStep DEF SessionInvariant, TypeOK, HeldRows, TokensComeFromCommits

\* Its password is compared with the stored one.
LEMMA CheckCredentialsStep ==
  ASSUME SessionInvariant, NEW l \in Logins, CheckCredentials(l)
  PROVE  SessionInvariant'
<1> USE RequestSets DEF CheckCredentials, Goto, Finish, tables
<1>1. TypeOK'
  BY DEF SessionInvariant, TypeOK, Committed
<1>2. QED
  BY <1>1, QuietStep DEF SessionInvariant, TypeOK, HeldRows, TokensComeFromCommits

\* A refresh request arrives with a token its client was sent, or an unknown one.
LEMMA ReceiveRefreshStep ==
  ASSUME SessionInvariant, NEW f \in Refreshes, ReceiveRefresh(f)
  PROVE  SessionInvariant'
<1> USE RequestSets DEF ReceiveRefresh, Arrive, Goto, tables
<1>0. PICK t \in { s \in Tokens : resp[s] = 200 } \union {None} :
        req' = [req EXCEPT ![f] = [token |-> t, late |-> t \in expired]]
  OBVIOUS
<1>1. t \in Committed \union {None}
  BY <1>0 DEF SessionInvariant, TokensComeFromCommits, Committed
<1>2. req'[f] = [token |-> t, late |-> t \in expired] /\ req'[f].token = t
      /\ req'[f] \in RefreshRequest
  BY <1>0 DEF SessionInvariant, TypeOK, RefreshRequest
<1>3. TypeOK'
  BY <1>0, <1>2 DEF SessionInvariant, TypeOK, Done, Committed
<1>4. QED
  BY <1>0, <1>1, <1>2, <1>3, QuietStep
  DEF SessionInvariant, TypeOK, HeldRows, TokensComeFromCommits

\* Its row is read and judged.
LEMMA ReadTokenStep ==
  ASSUME SessionInvariant, NEW f \in Refreshes, ReadToken(f)
  PROVE  SessionInvariant'
<1> USE RequestSets DEF ReadToken, Goto, Finish, tables
<1>1. TypeOK'
  BY DEF SessionInvariant, TypeOK, Committed
<1>2. QED
  BY <1>1, QuietStep
  DEF SessionInvariant, TypeOK, HeldRows, TokensComeFromCommits, PresentedIsCommitted

\* The old row is updated and locked.
LEMMA MarkTokenStep ==
  ASSUME SessionInvariant, NEW f \in Refreshes, MarkToken(f)
  PROVE  SessionInvariant'
<1> USE RequestSets DEF MarkToken, Goto, tables
<1>1. req[f].token \in Committed /\ req[f].token # None
  BY DEF SessionInvariant, PresentedIsCommitted
<1>2. locks' \in [Requests -> SUBSET Committed] /\ locks'[f] = {req[f].token}
  BY <1>1 DEF SessionInvariant, TypeOK
<1>3. TypeOK'
  BY <1>2 DEF SessionInvariant, TypeOK, Committed
<1>4. QED
  BY <1>1, <1>2, <1>3, QuietStep
  DEF SessionInvariant, TypeOK, HeldRows, TokensComeFromCommits, PresentedIsCommitted

\* The new row is inserted, not yet committed.
LEMMA InsertTokenStep ==
  ASSUME SessionInvariant, NEW r \in Tokens, InsertToken(r)
  PROVE  SessionInvariant'
<1> USE RequestSets DEF InsertToken, Goto, tables
<1>1. TypeOK'
  BY DEF SessionInvariant, TypeOK, Committed
<1>2. QED
  BY <1>1, QuietStep
  DEF SessionInvariant, TypeOK, HeldRows, TokensComeFromCommits, PresentedIsCommitted
\* The revocation of a family starts: its rows are matched, none is locked.
LEMMA BurnFamilyStep ==
  ASSUME SessionInvariant, NEW f \in Refreshes, BurnFamily(f)
  PROVE  SessionInvariant'
<1> USE RequestSets DEF BurnFamily, Goto, tables
<1>0. /\ aimed' \in [Requests -> SUBSET Committed] /\ left' \in [Requests -> SUBSET Committed]
      /\ aimed'[f] = left'[f]
      /\ \A q \in Requests \ {f} : aimed'[q] = aimed[q] /\ left'[q] = left[q]
  <2>1. Family(f) \in SUBSET Committed
    BY DEF Family
  <2>2. QED
    BY <2>1 DEF SessionInvariant, TypeOK
<1>1. TypeOK'
  BY <1>0 DEF SessionInvariant, TypeOK, Committed
<1>2. QED
  BY <1>1, QuietStep
  DEF SessionInvariant, TypeOK, HeldRows, TokensComeFromCommits, PresentedIsCommitted

\* One row of a bulk UPDATE is locked or passed over.
LEMMA UpdateRowStep ==
  ASSUME SessionInvariant, NEW r \in Requests, UpdateRow(r)
  PROVE  SessionInvariant'
<1> USE RequestSets DEF UpdateRow, tables
<1>1. PICK t \in left[r] :
        /\ left' = [left EXCEPT ![r] = @ \ {t}]
        /\ locks' \in {locks, [locks EXCEPT ![r] = @ \union {t}]}
  OBVIOUS
<1>2. t \in Committed
  BY DEF SessionInvariant, TypeOK
<1>3. locks' \in [Requests -> SUBSET Committed]
  BY <1>1, <1>2 DEF SessionInvariant, TypeOK
<1>4. /\ left' \in [Requests -> SUBSET Committed]
      /\ \A q \in Requests : left'[q] \subseteq left[q]
  BY <1>1 DEF SessionInvariant, TypeOK
<1>5. TypeOK'
  BY <1>3, <1>4 DEF SessionInvariant, TypeOK, Committed
<1>6. r \notin Logins
  BY DEF SessionInvariant, HeldRows
<1>7. \A q \in Requests \ {r} : locks'[q] = locks[q]
  BY <1>1 DEF SessionInvariant, TypeOK
<1>8. QED
  BY <1>5, <1>6, <1>7, QuietStep
  DEF SessionInvariant, TypeOK, HeldRows, TokensComeFromCommits, PresentedIsCommitted

\* A reset request arrives, or is refused.
LEMMA ReceiveResetStep ==
  ASSUME SessionInvariant, NEW r \in Resets, ReceiveReset(r)
  PROVE  SessionInvariant'
<1> USE RequestSets DEF ReceiveReset, Arrive, Goto, Finish, tables
<1>1. PICK u \in Users \union {None} : req' = [req EXCEPT ![r] = [user |-> u]]
  OBVIOUS
<1>2. TypeOK'
  BY <1>1, SMTT(20) DEF SessionInvariant, TypeOK, Done, Committed, ResetRequest
<1>3. QED
  BY <1>1, <1>2, QuietStep DEF SessionInvariant, TypeOK, HeldRows, TokensComeFromCommits

\* The user's row is updated and locked.
LEMMA UpdateUserStep ==
  ASSUME SessionInvariant, NEW r \in Resets, UpdateUser(r)
  PROVE  SessionInvariant'
<1> USE RequestSets DEF UpdateUser, Goto, tables
<1>1. TypeOK'
  BY DEF SessionInvariant, TypeOK, Committed
<1>2. QED
  BY <1>1, QuietStep DEF SessionInvariant, TypeOK, HeldRows, TokensComeFromCommits

\* The revocation of the user's tokens starts.
LEMMA RevokeAllStep ==
  ASSUME SessionInvariant, NEW r \in Resets, RevokeAll(r)
  PROVE  SessionInvariant'
<1> USE RequestSets DEF RevokeAll, Goto, tables
<1>0. /\ aimed' \in [Requests -> SUBSET Committed] /\ left' \in [Requests -> SUBSET Committed]
      /\ aimed'[r] = left'[r]
      /\ \A q \in Requests \ {r} : aimed'[q] = aimed[q] /\ left'[q] = left[q]
  <2>1. ActiveOf(req[r].user) \in SUBSET Committed
    BY DEF ActiveOf
  <2>2. QED
    BY <2>1 DEF SessionInvariant, TypeOK
<1>1. TypeOK'
  BY <1>0 DEF SessionInvariant, TypeOK, Committed
<1>2. QED
  BY <1>1, QuietStep DEF SessionInvariant, TypeOK, HeldRows, TokensComeFromCommits

\* A token expires.
LEMMA ExpireStep ==
  ASSUME SessionInvariant, NEW t \in Expiring, Expire(t)
  PROVE  SessionInvariant'
<1> USE RequestSets DEF Expire, tables
<1>1. TypeOK'
  BY DEF SessionInvariant, TypeOK, Committed
<1>2. QED
  BY <1>1 DEF SessionInvariant, HeldRows, TokensComeFromCommits, PresentedIsCommitted,
              Committed

\* A request fails, by itself or to resolve a deadlock.
LEMMA FailStep ==
  ASSUME SessionInvariant, NEW r \in Requests, Fail(r) \/ AbortDeadlock(r)
  PROVE  SessionInvariant'
<1> USE RequestSets DEF Fail, AbortDeadlock, Finish, tables
<1>1. pc[r] # "done" /\ pc[r] # "idle"
  <2>1. CASE Fail(r)
    BY <2>1 DEF Open
  <2>2. CASE AbortDeadlock(r)
    BY <2>2 DEF Deadlocked, SessionInvariant, HeldRows
  <2>3. QED
    BY <2>1, <2>2
<1>2. /\ pc' = [pc EXCEPT ![r] = "done"] /\ resp' = [resp EXCEPT ![r] = 500]
      /\ left' = [left EXCEPT ![r] = {}] /\ locks' = [locks EXCEPT ![r] = {}]
      /\ UNCHANGED <<password, token, expired, req, aimed, past>>
  OBVIOUS
<1> HIDE DEF Fail, AbortDeadlock, Finish
<1>3. /\ left' \in [Requests -> SUBSET Committed] /\ locks' \in [Requests -> SUBSET Committed]
      /\ \A q \in Requests : left'[q] \subseteq left[q]
  BY <1>2 DEF SessionInvariant, TypeOK
<1>4. TypeOK'
  BY <1>1, <1>2, <1>3 DEF SessionInvariant, TypeOK, Committed
<1>5. /\ pc'[r] = "done" /\ resp'[r] = 500 /\ left'[r] = {} /\ locks'[r] = {}
      /\ \A q \in Requests \ {r} :
           /\ pc'[q] = pc[q] /\ resp'[q] = resp[q]
           /\ left'[q] = left[q] /\ locks'[q] = locks[q]
  BY <1>2 DEF SessionInvariant, TypeOK
<1>6. r \in Refreshes => req[r].token \in Committed \union {None}
  BY <1>1 DEF SessionInvariant, PresentedIsCommitted, HeldRows
<1>7. QED
  BY <1>1, <1>2, <1>4, <1>5, <1>6, QuietStep

\* The process stops: every open request is lost and its locks are freed.
LEMMA CrashStep ==
  ASSUME SessionInvariant, Crash
  PROVE  SessionInvariant'
<1> USE RequestSets DEF Crash, tables, Open
<1>1. TypeOK'
  BY DEF SessionInvariant, TypeOK, Committed
<1>2. TokensComeFromCommits'
  BY DEF SessionInvariant, TypeOK, TokensComeFromCommits
<1>3. PresentedIsCommitted'
  BY DEF SessionInvariant, TypeOK, PresentedIsCommitted, Committed
<1>4. HeldRows'
  BY DEF SessionInvariant, TypeOK, HeldRows
<1>5. QED
  BY <1>1, <1>2, <1>3, <1>4 DEF SessionInvariant

-----------------------------------------------------------------------------
\* A commit adds at most the request's own token and ends the request.
LEMMA CommitKeepsInvariant ==
  ASSUME SessionInvariant, TypeOK', NEW r \in Requests,
         \A t \in Tokens \ {r} : token'[t] = None <=> token[t] = None,
         r \in Tokens => (token[r] # None => token'[r] # None),
         r \in Tokens => (resp'[r] = 200 => token'[r] # None),
         r \in Refreshes => (token'[r] # None => req[r].token # None),
         pc[r] # "done", pc'[r] = "done", req' = req, locks'[r] = {},
         pc[r] # "idle",
         \A q \in Requests \ {r} :
           /\ pc'[q] = pc[q] /\ resp'[q] = resp[q]
           /\ locks'[q] = locks[q] /\ left'[q] = left[q],
         left'[r] = {}
  PROVE  SessionInvariant'
<1> USE RequestSets DEF SessionInvariant
<1>1. \A t \in Tokens : token[t] # None => token'[t] # None
  OBVIOUS
<1>2. Committed \subseteq Committed'
  BY <1>1 DEF Committed
<1>3. TokensComeFromCommits'
  BY DEF TokensComeFromCommits
<1>4. PresentedIsCommitted'
  <2> SUFFICES ASSUME NEW f \in Refreshes
               PROVE  /\ pc'[f] # "idle" => req[f].token \in Committed' \union {None}
                      /\ pc'[f] \in {"mark", "insert", "commit", "burn", "burning"}
                           => req[f].token # None
                      /\ token'[f] # None => req[f].token # None
    BY DEF PresentedIsCommitted
  <2>1. CASE f = r
    BY <2>1, <1>2 DEF PresentedIsCommitted
  <2>2. CASE f # r
    BY <2>2, <1>2 DEF PresentedIsCommitted
  <2>3. QED
    BY <2>1, <2>2
<1>5. HeldRows'
  BY DEF HeldRows
<1>6. QED
  BY <1>3, <1>4, <1>5

\* What a committing request inserts is a row for a token that was absent.
LEMMA NewTokenRow ==
  ASSUME SessionInvariant, NEW r \in Tokens, pc[r] = "commit"
  PROVE  /\ NewToken(r) \in TokenRow /\ NewToken(r) # None /\ token[r] = None
         /\ ~NewToken(r).revoked
         /\ r \in Refreshes => req[r].token \in Committed /\ req[r].token # r
<1>0. \A row \in TokenRow : row # None
  BY TokenAssumption DEF TokenRow
<1>1. token[r] = None
  BY DEF SessionInvariant, TokensComeFromCommits
<1>2. CASE r \in Logins
  <2>1. NewToken(r) = [user |-> req[r].user, family |-> r, revoked |-> FALSE]
    BY <1>2 DEF NewToken
  <2>2. req[r].user \in Users
    BY <1>2 DEF SessionInvariant, TypeOK, LoginRequest
  <2>3. NewToken(r) \in TokenRow
    BY <2>1, <2>2, <1>2 DEF TokenRow
  <2>4. NewToken(r) # None
    BY <1>0, <2>3
  <2>5. ~NewToken(r).revoked
    BY <2>1
  <2>6. QED
    BY <1>1, <1>2, <2>3, <2>4, <2>5, RequestSets
<1>3. CASE r \in Refreshes
  <2>1. req[r].token \in Committed
    BY <1>3 DEF SessionInvariant, PresentedIsCommitted
  <2>2. token[req[r].token] \in TokenRow
    BY <2>1 DEF SessionInvariant, TypeOK, Committed
  <2>3. NewToken(r) = [user |-> token[req[r].token].user,
                       family |-> token[req[r].token].family, revoked |-> FALSE]
    BY <1>3, RequestSets DEF NewToken
  <2>4. NewToken(r) \in TokenRow
    BY <2>2, <2>3 DEF TokenRow
  <2>5. req[r].token # r
    BY <2>1, <1>1 DEF Committed
  <2>6. NewToken(r) # None
    BY <1>0, <2>4
  <2>7. ~NewToken(r).revoked
    BY <2>3
  <2>8. QED
    BY <1>1, <2>1, <2>4, <2>5, <2>6, <2>7
<1>4. QED
  BY <1>2, <1>3 DEF Tokens

\* A login or an exchange commits.
LEMMA CommitIssueStep ==
  ASSUME SessionInvariant, NEW r \in Tokens, CommitIssue(r)
  PROVE  SessionInvariant'
<1> USE RequestSets DEF CommitIssue, Finish
<1>1. locks[r] \in SUBSET Committed
  BY DEF SessionInvariant, TypeOK
<1>2. /\ Revoked(locks[r]) \in [Tokens -> TokenRow \union {None}]
      /\ \A t \in Tokens : Revoked(locks[r])[t] = None <=> token[t] = None
  BY <1>1, RevokedRows DEF SessionInvariant
<1>3. /\ token' \in [Tokens -> TokenRow \union {None}]
      /\ token'[r] = NewToken(r)
      /\ \A t \in Tokens \ {r} : token'[t] = Revoked(locks[r])[t]
  BY <1>2, NewTokenRow
<1>4. Committed \subseteq Committed'
  BY <1>2, <1>3, NewTokenRow DEF Committed
<1>5. TypeOK'
  BY <1>3, <1>4 DEF SessionInvariant, TypeOK
<1>6. r \in Refreshes => req[r].token # None
  BY DEF SessionInvariant, PresentedIsCommitted
<1>7. /\ pc'[r] = "done" /\ locks'[r] = {} /\ req' = req /\ left' = left
      /\ pc[r] = "commit" /\ left[r] = {}
      /\ \A q \in Requests \ {r} :
           pc'[q] = pc[q] /\ resp'[q] = resp[q] /\ locks'[q] = locks[q]
  BY DEF SessionInvariant, TypeOK, HeldRows
<1>8. /\ token'[r] # None
      /\ \A t \in Tokens \ {r} : token'[t] = None <=> token[t] = None
  BY <1>2, <1>3, NewTokenRow
<1> HIDE DEF CommitIssue, Finish
<1>9. QED
  BY <1>5, <1>6, <1>7, <1>8, CommitKeepsInvariant

\* A family revocation or a reset commits.
LEMMA CommitRevocationStep ==
  ASSUME SessionInvariant, NEW r \in Requests,
         (r \in Refreshes /\ CommitBurn(r)) \/ (r \in Resets /\ CommitReset(r))
  PROVE  SessionInvariant'
<1> USE RequestSets DEF CommitBurn, CommitReset, Finish
<1>1. locks[r] \in SUBSET Committed
  BY DEF SessionInvariant, TypeOK
<1>2. /\ token' \in [Tokens -> TokenRow \union {None}]
      /\ \A t \in Tokens : token'[t] = None <=> token[t] = None
  BY <1>1, RevokedRows DEF SessionInvariant
<1>3. Committed' = Committed
  BY <1>2 DEF Committed
<1>4. password' \in [Users -> Resets \union {Initial}]
  BY DEF SessionInvariant, TypeOK
<1>5. TypeOK'
  BY <1>2, <1>3, <1>4 DEF SessionInvariant, TypeOK
<1>6. r \in Tokens => resp'[r] # 200
  BY DEF SessionInvariant, TypeOK
<1>7. r \in Refreshes => token[r] = None
  BY DEF SessionInvariant, TokensComeFromCommits
<1>8. /\ pc[r] \notin {"idle", "done"} /\ pc'[r] = "done"
      /\ locks'[r] = {} /\ left'[r] = {} /\ req' = req
      /\ \A q \in Requests \ {r} :
           /\ pc'[q] = pc[q] /\ resp'[q] = resp[q]
           /\ locks'[q] = locks[q] /\ left'[q] = left[q]
  BY DEF SessionInvariant, TypeOK
<1> HIDE DEF CommitBurn, CommitReset, Finish
<1>9. QED
  BY <1>2, <1>5, <1>6, <1>7, <1>8, CommitKeepsInvariant

-----------------------------------------------------------------------------
LEMMA InitialInvariant == Init => SessionInvariant
BY TokenAssumption, RequestSets
DEF Init, SessionInvariant, TypeOK, Committed, TokensComeFromCommits,
    PresentedIsCommitted, HeldRows

LEMMA InvariantIsInductive == SessionInvariant /\ [Next]_vars => SessionInvariant'
<1> SUFFICES ASSUME SessionInvariant, [Next]_vars
             PROVE  SessionInvariant'
  OBVIOUS
<1>1. ASSUME NEW l \in Logins, ReceiveLogin(l) \/ LoginStep(l)
      PROVE  SessionInvariant'
  BY <1>1, RequestSets, ReceiveLoginStep, CheckCredentialsStep, InsertTokenStep,
     CommitIssueStep
  DEF LoginStep
<1>2. ASSUME NEW f \in Refreshes, ReceiveRefresh(f) \/ RefreshStep(f)
      PROVE  SessionInvariant'
  BY <1>2, RequestSets, ReceiveRefreshStep, ReadTokenStep, MarkTokenStep, InsertTokenStep,
     CommitIssueStep, BurnFamilyStep, UpdateRowStep, CommitRevocationStep
  DEF RefreshStep
<1>3. ASSUME NEW r \in Resets, ReceiveReset(r) \/ ResetStep(r)
      PROVE  SessionInvariant'
  BY <1>3, RequestSets, ReceiveResetStep, UpdateUserStep, RevokeAllStep, UpdateRowStep,
     CommitRevocationStep
  DEF ResetStep
<1>4. CASE UNCHANGED vars
  BY <1>4 DEF vars, tables, SessionInvariant, TypeOK, Committed, TokensComeFromCommits,
              PresentedIsCommitted, HeldRows
<1>5. QED
  BY <1>1, <1>2, <1>3, <1>4, ExpireStep, FailStep, CrashStep DEF Next

\* Whatever overlaps or fails, tokens come from their own request's commit, and
\* a transaction has locked the rows its handler has updated and no others.
THEOREM SessionInvariantHolds == Spec => []SessionInvariant
<1>1. QED
  BY InitialInvariant, InvariantIsInductive, PTL DEF Spec

-----------------------------------------------------------------------------
(* The refinement of TokenLedger.                                          *)

\* A step that commits nothing leaves the ledger alone: requests that have
\* issued a token are not asked anything again.
LEMMA QuietLedger ==
  ASSUME token' = token, \A t \in Tokens : token[t] # None => req'[t] = req[t]
  PROVE  UNCHANGED <<StatusOf, SourceOf>>
<1>1. StatusOf' = StatusOf
  BY DEF StatusOf
<1>2. SourceOf' = SourceOf
  BY DEF SourceOf, Tokens
<1>3. QED
  BY <1>1, <1>2

\* A committed token is never asked anything again.
LEMMA ArrivalIsQuiet ==
  ASSUME SessionInvariant, NEW r \in Requests, pc[r] = "idle", token' = token,
         \A q \in Requests \ {r} : req'[q] = req[q]
  PROVE  UNCHANGED <<StatusOf, SourceOf>>
<1>1. \A t \in Tokens : token[t] # None => req'[t] = req[t]
  BY RequestSets DEF SessionInvariant, TokensComeFromCommits
<1>2. QED
  BY <1>1, QuietLedger

\* A login's commit is a Grant.
LEMMA LoginGrants ==
  ASSUME SessionInvariant, NEW l \in Logins, CommitIssue(l)
  PROVE  Ledger!Grant(l)
<1>1. l \in Tokens /\ l \in Requests /\ l \notin Refreshes
  BY RequestSets
<1>2. locks[l] = {} /\ pc[l] = "commit"
  BY <1>1 DEF SessionInvariant, HeldRows, CommitIssue
<1>3. Revoked({}) = token
  BY DEF Revoked, SessionInvariant, TypeOK
<1>4. token' = [token EXCEPT ![l] = NewToken(l)] /\ req' = req
  BY <1>2, <1>3 DEF CommitIssue
<1>5. /\ token[l] = None /\ token'[l] # None /\ ~token'[l].revoked
      /\ \A t \in Tokens \ {l} : token'[t] = token[t]
  BY <1>1, <1>2, <1>4, NewTokenRow DEF SessionInvariant, TypeOK
<1>6. StatusOf[l] = "absent"
  BY <1>1, <1>5 DEF StatusOf
<1>7. StatusOf' = [StatusOf EXCEPT ![l] = "live"]
  <2>1. StatusOf'[l] = "live"
    BY <1>1, <1>5 DEF StatusOf
  <2>2. \A t \in Tokens \ {l} : StatusOf'[t] = StatusOf[t]
    BY <1>5 DEF StatusOf
  <2>3. QED
    BY <1>1, <2>1, <2>2 DEF StatusOf
<1>8. SourceOf' = SourceOf
  BY <1>1, <1>4, <1>5 DEF SourceOf
<1>9. QED
  BY <1>6, <1>7, <1>8 DEF Ledger!Grant

\* A refresh's commit is an Exchange.
LEMMA RefreshExchanges ==
  ASSUME SessionInvariant, NEW f \in Refreshes, CommitIssue(f)
  PROVE  Ledger!Exchange(req[f].token, f)
<1> DEFINE old == req[f].token
<1>1. f \in Tokens /\ f \in Requests /\ pc[f] = "commit" /\ req' = req
  BY RequestSets DEF CommitIssue
<1>2. old \in Committed /\ old \in Tokens /\ old # f /\ old # None
  BY <1>1, NewTokenRow, RequestSets
  DEF Committed, SessionInvariant, PresentedIsCommitted
<1>3. locks[f] = {old}
  BY <1>1 DEF SessionInvariant, HeldRows
<1>4. token' = [Revoked({old}) EXCEPT ![f] = NewToken(f)]
  BY <1>3 DEF CommitIssue
<1> HIDE DEF old
<1>5. /\ Revoked({old}) \in [Tokens -> TokenRow \union {None}]
      /\ \A t \in Tokens :
           /\ Revoked({old})[t] = None <=> token[t] = None
           /\ token[t] # None => Revoked({old})[t].revoked = (t \in {old} \/ token[t].revoked)
  BY <1>2, RevokedRows DEF SessionInvariant
<1>6. /\ token[f] = None /\ token'[f] # None /\ ~token'[f].revoked
      /\ \A t \in Tokens \ {f} :
           /\ token'[t] = None <=> token[t] = None
           /\ token[t] # None => token'[t].revoked = (t = old \/ token[t].revoked)
  BY <1>1, <1>4, <1>5, NewTokenRow
<1>7. token[old] # None
  BY <1>2 DEF Committed
<1>8. StatusOf[old] # "absent" /\ StatusOf[f] = "absent"
  BY <1>1, <1>2, <1>6, <1>7 DEF StatusOf
<1>9. StatusOf' = [StatusOf EXCEPT ![old] = "revoked", ![f] = "live"]
  <2>1. \A t \in Tokens : StatusOf'[t] =
          [StatusOf EXCEPT ![old] = "revoked", ![f] = "live"][t]
    BY <1>1, <1>2, <1>6, <1>7 DEF StatusOf
  <2>2. QED
    BY <2>1 DEF StatusOf
<1>10. SourceOf' = [SourceOf EXCEPT ![f] = old]
  <2>1. \A t \in Tokens : SourceOf'[t] = [SourceOf EXCEPT ![f] = old][t]
    BY <1>1, <1>6 DEF SourceOf, old
  <2>2. QED
    BY <2>1 DEF SourceOf
<1>11. Ledger!Exchange(old, f)
  BY <1>8, <1>9, <1>10 DEF Ledger!Exchange
<1>12. QED
  BY <1>11 DEF old

\* The commit of a family revocation or a reset revokes what it has locked.
LEMMA CommitRevokes ==
  ASSUME SessionInvariant, NEW r \in Requests,
         (r \in Refreshes /\ CommitBurn(r)) \/ (r \in Resets /\ CommitReset(r))
  PROVE  Ledger!Revoke(locks[r])
<1>1. token' = Revoked(locks[r]) /\ req' = req
  BY DEF CommitBurn, CommitReset
<1>2. locks[r] \in SUBSET Committed
  BY DEF SessionInvariant, TypeOK
<1>3. \A t \in Tokens :
        /\ token'[t] = None <=> token[t] = None
        /\ token[t] # None => token'[t].revoked = (t \in locks[r] \/ token[t].revoked)
  BY <1>1, <1>2, RevokedRows DEF SessionInvariant
<1>4. \A t \in locks[r] : t \in Tokens /\ token[t] # None /\ StatusOf[t] # "absent"
  BY <1>2 DEF Committed, StatusOf
<1>5. StatusOf' = [t \in Tokens |-> IF t \in locks[r] THEN "revoked" ELSE StatusOf[t]]
  BY <1>3, <1>4 DEF StatusOf
<1>6. SourceOf' = SourceOf
  BY <1>1, <1>3 DEF SourceOf
<1>7. QED
  BY <1>4, <1>5, <1>6 DEF Ledger!Revoke

LEMMA InitialLedger == Init => Ledger!Init
BY DEF Init, Ledger!Init, StatusOf, SourceOf

LEMMA StepIsLedgerStep ==
  ASSUME SessionInvariant, [Next]_vars
  PROVE  [Ledger!Next]_Ledger!vars
<1> USE RequestSets
<1>1. ASSUME NEW l \in Logins, ReceiveLogin(l) \/ LoginStep(l)
      PROVE  [Ledger!Next]_Ledger!vars
  <2>1. CASE ReceiveLogin(l)
    BY <2>1, ArrivalIsQuiet
    DEF ReceiveLogin, Arrive, tables, Ledger!vars, SessionInvariant, TypeOK
  <2>2. CASE CheckCredentials(l) \/ InsertToken(l)
    BY <2>2, QuietLedger DEF CheckCredentials, InsertToken, tables, Ledger!vars
  <2>3. CASE CommitIssue(l)
    BY <2>3, LoginGrants DEF Ledger!Next
  <2>4. QED
    BY <1>1, <2>1, <2>2, <2>3 DEF LoginStep
<1>2. ASSUME NEW f \in Refreshes, ReceiveRefresh(f) \/ RefreshStep(f)
      PROVE  [Ledger!Next]_Ledger!vars
  <2>1. CASE ReceiveRefresh(f)
    <3>1. pc[f] = "idle" /\ token' = token /\ \A q \in Requests \ {f} : req'[q] = req[q]
      BY <2>1 DEF ReceiveRefresh, Arrive, tables, SessionInvariant, TypeOK
    <3>2. QED
      BY <3>1, ArrivalIsQuiet DEF Ledger!vars
  <2>2. CASE \/ ReadToken(f) \/ MarkToken(f) \/ InsertToken(f) \/ BurnFamily(f)
             \/ UpdateRow(f)
    <3>1. token' = token /\ req' = req
      BY <2>2 DEF ReadToken, MarkToken, InsertToken, BurnFamily, UpdateRow, tables
    <3>2. QED
      BY <3>1, QuietLedger DEF Ledger!vars
  <2>3. CASE CommitIssue(f)
    <3>1. req[f].token \in Tokens
      BY <2>3, NewTokenRow DEF CommitIssue, Committed
    <3>2. QED
      BY <2>3, <3>1, RefreshExchanges DEF Ledger!Next
  <2>4. CASE CommitBurn(f)
    <3>1. locks[f] \in SUBSET Tokens
      BY DEF SessionInvariant, TypeOK, Committed
    <3>2. QED
      BY <2>4, <3>1, CommitRevokes DEF Ledger!Next
  <2>5. QED
    BY <1>2, <2>1, <2>2, <2>3, <2>4 DEF RefreshStep
<1>3. ASSUME NEW r \in Resets, ReceiveReset(r) \/ ResetStep(r)
      PROVE  [Ledger!Next]_Ledger!vars
  <2>1. CASE ReceiveReset(r)
    <3>1. pc[r] = "idle" /\ token' = token /\ \A q \in Requests \ {r} : req'[q] = req[q]
      BY <2>1 DEF ReceiveReset, Arrive, tables, SessionInvariant, TypeOK
    <3>2. QED
      BY <3>1, ArrivalIsQuiet DEF Ledger!vars
  <2>2. CASE UpdateUser(r) \/ RevokeAll(r) \/ UpdateRow(r)
    <3>1. token' = token /\ req' = req
      BY <2>2 DEF UpdateUser, RevokeAll, UpdateRow, tables
    <3>2. QED
      BY <3>1, QuietLedger DEF Ledger!vars
  <2>3. CASE CommitReset(r)
    <3>1. locks[r] \in SUBSET Tokens
      BY DEF SessionInvariant, TypeOK, Committed
    <3>2. QED
      BY <2>3, <3>1, CommitRevokes DEF Ledger!Next
  <2>4. QED
    BY <1>3, <2>1, <2>2, <2>3 DEF ResetStep
<1>4. CASE (\E t \in Expiring : Expire(t)) \/ Crash \/ UNCHANGED vars
           \/ (\E r \in Requests : AbortDeadlock(r) \/ Fail(r))
  <2>1. token' = token /\ req' = req
    BY <1>4 DEF Expire, AbortDeadlock, Fail, Crash, tables, vars
  <2>2. QED
    BY <2>1, QuietLedger DEF Ledger!vars
<1>5. QED
  BY <1>1, <1>2, <1>3, <1>4 DEF Next

\* Every exchange is atomic and every revocation final, for any requests that
\* overlap, fail or deadlock (jwt_service.py:40-75, 111-132).
THEOREM SessionsImplementTokenLedger == Spec => ImplementsTokenLedger
<1>1. Init => Ledger!Init
  BY InitialLedger
<1>2. SessionInvariant /\ [Next]_vars => [Ledger!Next]_Ledger!vars
  BY StepIsLedgerStep
<1>3. QED
  BY <1>1, <1>2, SessionInvariantHolds, PTL DEF Spec, ImplementsTokenLedger, Ledger!Spec
=============================================================================
