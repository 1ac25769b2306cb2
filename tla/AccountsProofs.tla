---------------------------- MODULE AccountsProofs ----------------------------
(***************************************************************************)
(* Proofs about Accounts, for any number of requests, emails and resets:   *)
(* its types with the uniqueness of emails, the truth of its replies, and  *)
(* what a password reset does to access tokens and to logins.  First what  *)
(* a step may do to one request, then the invariant part by part.          *)
(***************************************************************************)
EXTENDS AccountsProperties, TLAPS

LowerEmails == { Lower[e] : e \in Emails }

-----------------------------------------------------------------------------
(* Types.                                                                   *)

\* A request is of one kind only.
LEMMA RequestSets ==
  /\ Makers \subseteq Requests /\ Logins \subseteq Requests /\ Resets \subseteq Requests
  /\ Uses \subseteq Requests /\ Registers \subseteq Makers /\ Issuers \subseteq Requests
  /\ Makers \intersect Logins = {} /\ Makers \intersect Resets = {}
  /\ Logins \intersect Resets = {} /\ Uses \intersect Makers = {}
  /\ Uses \intersect Logins = {} /\ Uses \intersect Resets = {}
  /\ Issuers \intersect Resets = {} /\ Uses \intersect Issuers = {}
  /\ Issuers = Registers \union Logins
BY AccountAssumption DEF Requests, Makers, Issuers

LEMMA NoneIsNone ==
  /\ None \notin Requests /\ None \notin Nat /\ None \notin 0 .. LastTick
  /\ None \notin {200, 201, 401, 403, 409, 500} /\ LastTick \in Nat
BY AccountAssumption

LEMMA Domains ==
  ASSUME TypeOK
  PROVE  /\ DOMAIN user = Makers /\ DOMAIN pc = Requests /\ DOMAIN req = Requests
         /\ DOMAIN resp = Requests /\ DOMAIN account = Requests /\ DOMAIN past = Requests
         /\ DOMAIN stamp = Issuers \union Resets /\ DOMAIN mailed = Resets
BY DEF TypeOK

LEMMA StoredRows ==
  ASSUME TypeOK
  PROVE  \A m \in Makers : m \in Stored <=> user[m] \in UserRow
BY RowAssumption DEF TypeOK, Stored

-----------------------------------------------------------------------------
(* What a step does to the request that takes it.                           *)

OthersStay(r) ==
  \A q \in Requests \ {r} :
    /\ pc'[q] = pc[q] /\ req'[q] = req[q] /\ resp'[q] = resp[q]
    /\ account'[q] = account[q] /\ past'[q] = past[q]
    /\ q \in Issuers \union Resets => stamp'[q] = stamp[q]
    /\ q \in Resets => mailed'[q] = mailed[q]

Asks(r) ==
  /\ pc[r] = "idle"
  /\ past'[r] = { q \in IF r \in Logins THEN {req'[r].password} ELSE Resets : pc[q] = "done" }
Goes(r, label) == pc'[r] = label /\ resp'[r] = resp[r]
Ends(r, statuses) == pc'[r] = "done" /\ resp'[r] \in statuses
KeepsBody(r) == req'[r] = req[r] /\ past'[r] = past[r]
KeepsRow(r) == /\ account'[r] = account[r]
               /\ r \in Issuers \union Resets => stamp'[r] = stamp[r]
KeepsMail(r) == r \in Resets => mailed'[r] = mailed[r]
SameTables == user' = user /\ now' = now
Stamps(r) == now' \in now .. LastTick /\ stamp'[r] = now'

LooksUp(m) ==
  /\ m \in Makers /\ Asks(m) /\ req'[m] \in [email : Emails]
  /\ KeepsRow(m) /\ KeepsMail(m) /\ SameTables
  /\ \/ Ends(m, {409}) /\ ByEmail(req'[m].email) # {}
     \/ Goes(m, "insert")
Inserts(m) ==
  /\ m \in Makers /\ pc[m] = "insert" /\ KeepsBody(m) /\ KeepsRow(m) /\ KeepsMail(m)
  /\ now' = now
  /\ \/ user' = user /\ Ends(m, {500})
     \/ /\ ByEmail(req[m].email) = {} /\ user' = [user EXCEPT ![m] = Row(m)]
        /\ \/ m \in Registers /\ Goes(m, "verify")
           \/ m \notin Registers /\ Ends(m, {201})
           \/ Ends(m, {500})
Verifies(r, status) ==
  /\ KeepsMail(r) /\ SameTables /\ stamp'[r] = stamp[r]
  /\ \/ Ends(r, {status}) /\ account'[r] = account[r]
     \/ Goes(r, "issue") /\ account'[r] \in Stored
LogsIn(l) ==
  /\ l \in Logins /\ Asks(l) /\ req'[l] \in LoginBody /\ Verifies(l, 401)
  /\ \/ pc'[l] = "issue"
     \/ \A m \in Stored : user[m].email = req'[l].email => user[m].password # req'[l].password
LogsInNew(g) == g \in Registers /\ pc[g] = "verify" /\ KeepsBody(g) /\ Verifies(g, 500)
Issues(r) ==
  /\ r \in Issuers /\ pc[r] = "issue" /\ KeepsBody(r) /\ KeepsMail(r)
  /\ user' = user /\ Stamps(r) /\ account'[r] = account[r] /\ Ends(r, {200, 201, 500})
MailsCode(s) ==
  /\ s \in Resets /\ Asks(s) /\ req'[s] \in [email : LowerEmails]
  /\ KeepsRow(s) /\ SameTables /\ mailed'[s] \in ByLower(req'[s].email) /\ Goes(s, "change")
Changes(s) ==
  /\ s \in Resets /\ pc[s] = "change" /\ KeepsBody(s) /\ KeepsMail(s)
  /\ user' = user /\ Stamps(s) /\ account'[s] \in ByLower(req[s].email) /\ Goes(s, "commit")
CommitsReset(s) ==
  /\ s \in Resets /\ pc[s] = "commit" /\ KeepsBody(s) /\ KeepsRow(s) /\ KeepsMail(s)
  /\ now' = now /\ Ends(s, {200, 500})
  /\ user' = [user EXCEPT ![account[s]].password = s, ![account[s]].changed = stamp[s]]
UsesToken(u) ==
  /\ u \in Uses /\ Asks(u) /\ KeepsRow(u) /\ SameTables
  /\ req'[u] \in [token : Issuers] /\ resp[req'[u].token] \in {200, 201}
  /\ \/ Ends(u, {401}) /\ Outdated(req'[u].token)
     \/ Ends(u, {200, 403}) /\ ~Outdated(req'[u].token)
Fails(r) ==
  /\ r \in Requests /\ Open(r) /\ KeepsBody(r) /\ KeepsRow(r) /\ KeepsMail(r) /\ SameTables
  /\ Ends(r, {500})

Moves(r) ==
  /\ OthersStay(r)
  /\ \/ LooksUp(r) \/ Inserts(r) \/ LogsIn(r) \/ LogsInNew(r) \/ Issues(r) \/ MailsCode(r)
     \/ Changes(r) \/ CommitsReset(r) \/ UsesToken(r) \/ Fails(r)

LEMMA MakerMoves ==
  ASSUME TypeOK, NEW m \in Makers, LookUp(m) \/ Insert(m)
  PROVE  Moves(m)
<1> USE RequestSets, Domains
<1>1. ASSUME LookUp(m) PROVE OthersStay(m) /\ LooksUp(m)
  <2>1. PICK e \in Emails :
          /\ Arrive(m, [email |-> e])
          /\ IF ByEmail(e) # {} THEN Finish(m, 409) ELSE Goto(m, "insert")
          /\ UNCHANGED <<user, now, account, stamp, mailed>>
    BY <1>1 DEF LookUp
  <2>2. OthersStay(m)
    BY <1>1, <2>1 DEF OthersStay, Arrive, Finish, Goto
  <2>3. req'[m] = [email |-> e] /\ Asks(m)
    BY <1>1, <2>1 DEF Asks, Arrive
  <2>4. KeepsRow(m) /\ KeepsMail(m) /\ SameTables
    BY <2>1 DEF KeepsRow, KeepsMail, SameTables
  <2>5. (Ends(m, {409}) /\ ByEmail(e) # {}) \/ Goes(m, "insert")
    BY <1>1, <2>1 DEF Ends, Goes, Finish, Goto
  <2>6. QED
    BY <2>2, <2>3, <2>4, <2>5 DEF LooksUp
<1>2. ASSUME Insert(m) PROVE OthersStay(m) /\ Inserts(m)
  <2>1. OthersStay(m)
    BY <1>2 DEF Insert, OthersStay, Finish, Goto
  <2>2. /\ pc[m] = "insert" /\ KeepsBody(m) /\ KeepsRow(m) /\ KeepsMail(m) /\ now' = now
    BY <1>2 DEF Insert, KeepsBody, KeepsRow, KeepsMail
  <2>3. \/ user' = user /\ Ends(m, {500})
        \/ /\ ByEmail(req[m].email) = {} /\ user' = [user EXCEPT ![m] = Row(m)]
           /\ \/ m \in Registers /\ Goes(m, "verify")
              \/ m \notin Registers /\ Ends(m, {201})
              \/ Ends(m, {500})
    BY <1>2 DEF Insert, Ends, Goes, Finish, Goto
  <2>4. QED
    BY <2>1, <2>2, <2>3 DEF Inserts
<1>3. QED
  BY <1>1, <1>2 DEF Moves

\* An email names at most one account, so a refusal is about that one.
LEMMA VerifyMoves ==
  ASSUME TypeOK, NEW r \in Issuers, NEW e, NEW p, NEW status, Verify(r, e, p, status)
  PROVE  /\ Verifies(r, status)
         /\ \A q \in Requests \ {r} : /\ pc'[q] = pc[q] /\ resp'[q] = resp[q]
                                      /\ account'[q] = account[q]
         /\ stamp' = stamp /\ mailed' = mailed
         /\ pc'[r] = "issue" \/ \A m \in Stored : user[m].email = e => user[m].password # p
<1> USE RequestSets, Domains
<1>1. stamp' = stamp /\ mailed' = mailed /\ SameTables
  BY DEF Verify, SameTables
<1>2. ByEmail(e) \subseteq Stored /\ \A m, n \in ByEmail(e) : m = n
  BY DEF ByEmail, TypeOK
<1>3. CASE Finish(r, status) /\ UNCHANGED account
  <2>1. Ends(r, {status}) /\ account'[r] = account[r]
    BY <1>3 DEF Finish, Ends
  <2>2. \A q \in Requests \ {r} : /\ pc'[q] = pc[q] /\ resp'[q] = resp[q]
                                  /\ account'[q] = account[q]
    BY <1>3 DEF Finish
  <2>3. pc'[r] # "issue"
    BY <2>1 DEF Ends
  <2>4. ByEmail(e) = {} \/ \E m \in ByEmail(e) : user[m].password # p
    <3>1. ASSUME NEW m \in ByEmail(e), Goto(r, "issue") PROVE FALSE
      BY <2>3, <3>1 DEF Goto
    <3>2. QED
      BY <3>1 DEF Verify, Matching
  <2>5. \A m \in Stored : user[m].email = e => user[m].password # p
    BY <1>2, <2>4 DEF ByEmail
  <2>6. QED
    BY <1>1, <2>1, <2>2, <2>5 DEF Verifies, KeepsMail
<1>4. ASSUME NEW m \in ByEmail(e), account' = [account EXCEPT ![r] = m], Goto(r, "issue")
      PROVE  /\ Verifies(r, status) /\ pc'[r] = "issue"
             /\ \A q \in Requests \ {r} : /\ pc'[q] = pc[q] /\ resp'[q] = resp[q]
                                          /\ account'[q] = account[q]
  <2>1. Goes(r, "issue") /\ account'[r] \in Stored
    BY <1>2, <1>4 DEF Goto, Goes
  <2>2. \A q \in Requests \ {r} : /\ pc'[q] = pc[q] /\ resp'[q] = resp[q]
                                  /\ account'[q] = account[q]
    BY <1>4 DEF Goto
  <2>3. pc'[r] = "issue"
    BY <2>1 DEF Goes
  <2>4. QED
    BY <1>1, <2>1, <2>2, <2>3 DEF Verifies, KeepsMail
<1>5. (Finish(r, status) /\ UNCHANGED account)
      \/ \E m \in ByEmail(e) : account' = [account EXCEPT ![r] = m] /\ Goto(r, "issue")
  BY DEF Verify, Matching
<1>6. QED
  BY <1>1, <1>3, <1>4, <1>5

LEMMA IssuerMoves ==
  ASSUME TypeOK,
         NEW r, \/ r \in Logins /\ ReceiveLogin(r)
                \/ r \in Registers /\ VerifyNew(r)
                \/ r \in Issuers /\ Issue(r)
  PROVE  Moves(r)
<1> USE RequestSets, Domains
<1>1. CASE r \in Logins /\ ReceiveLogin(r)
  <2>1. PICK e \in Emails, p \in { q \in Makers \union Resets : pc[q] # "idle" } :
          Arrive(r, [email |-> e, password |-> p]) /\ Verify(r, e, p, 401)
    BY <1>1 DEF ReceiveLogin
  <2>2. /\ Verifies(r, 401)
        /\ \A q \in Requests \ {r} : /\ pc'[q] = pc[q] /\ resp'[q] = resp[q]
                                     /\ account'[q] = account[q]
        /\ stamp' = stamp /\ mailed' = mailed
        /\ pc'[r] = "issue" \/ \A m \in Stored : user[m].email = e => user[m].password # p
    BY <1>1, <2>1, VerifyMoves
  <2>3. req'[r] = [email |-> e, password |-> p] /\ Asks(r)
    BY <1>1, <2>1 DEF Asks, Arrive
  <2>4. \A q \in Requests \ {r} : req'[q] = req[q] /\ past'[q] = past[q]
    BY <1>1, <2>1 DEF Arrive
  <2>5. OthersStay(r)
    BY <2>2, <2>4 DEF OthersStay
  <2>6. req'[r] \in LoginBody /\ req'[r].email = e /\ req'[r].password = p
    BY <2>1, <2>3 DEF LoginBody
  <2>7. QED
    BY <1>1, <2>2, <2>3, <2>5, <2>6 DEF LogsIn, Moves
<1>2. CASE r \in Registers /\ VerifyNew(r)
  <2>1. /\ Verifies(r, 500)
        /\ \A q \in Requests \ {r} : /\ pc'[q] = pc[q] /\ resp'[q] = resp[q]
                                     /\ account'[q] = account[q]
        /\ stamp' = stamp /\ mailed' = mailed
    BY <1>2, VerifyMoves DEF VerifyNew
  <2>2. pc[r] = "verify" /\ req' = req /\ past' = past
    BY <1>2 DEF VerifyNew
  <2>3. QED
    BY <1>2, <2>1, <2>2 DEF LogsInNew, Moves, OthersStay, KeepsBody
<1>3. CASE r \in Issuers /\ Issue(r)
  <2>1. OthersStay(r)
    BY <1>3 DEF Issue, OthersStay, Answer, Finish
  <2>2. /\ pc[r] = "issue" /\ KeepsBody(r) /\ KeepsMail(r) /\ user' = user
        /\ Stamps(r) /\ account'[r] = account[r]
    BY <1>3 DEF Issue, KeepsBody, KeepsMail, Stamps, Look
  <2>3. Ends(r, {200, 201, 500})
    BY <1>3 DEF Issue, Answer, Finish, Ends
  <2>4. QED
    BY <1>3, <2>1, <2>2, <2>3 DEF Issues, Moves
<1>4. QED
  BY <1>1, <1>2, <1>3

LEMMA ResetMoves ==
  ASSUME TypeOK, NEW s \in Resets, MailCode(s) \/ ChangePassword(s) \/ CommitReset(s)
  PROVE  Moves(s)
<1> USE RequestSets, Domains
<1>1. CASE MailCode(s)
  <2>0. PICK e \in LowerEmails : \E m \in ByLower(e) :
          /\ Arrive(s, [email |-> e])
          /\ mailed' = [mailed EXCEPT ![s] = m]
          /\ Goto(s, "change")
          /\ UNCHANGED <<user, now, account, stamp>>
    BY <1>1 DEF MailCode, LowerEmails
  <2>1. PICK m \in ByLower(e) :
          /\ Arrive(s, [email |-> e])
          /\ mailed' = [mailed EXCEPT ![s] = m]
          /\ Goto(s, "change")
          /\ UNCHANGED <<user, now, account, stamp>>
    BY <2>0
  <2>2. OthersStay(s)
    BY <2>1 DEF OthersStay, Arrive, Goto
  <2>3. req'[s] = [email |-> e] /\ Asks(s)
    BY <2>1 DEF Asks, Arrive
  <2>4. KeepsRow(s) /\ SameTables /\ mailed'[s] = m /\ Goes(s, "change")
    BY <2>1 DEF KeepsRow, SameTables, Goto, Goes
  <2>5. QED
    BY <2>2, <2>3, <2>4 DEF MailsCode, Moves
<1>2. CASE ChangePassword(s)
  <2>1. PICK m \in ByLower(req[s].email) : account' = [account EXCEPT ![s] = m]
    BY <1>2 DEF ChangePassword
  <2>2. OthersStay(s)
    BY <1>2, <2>1 DEF ChangePassword, OthersStay, Goto
  <2>3. /\ pc[s] = "change" /\ KeepsBody(s) /\ KeepsMail(s) /\ user' = user /\ Stamps(s)
        /\ Goes(s, "commit")
    BY <1>2 DEF ChangePassword, KeepsBody, KeepsMail, Stamps, Look, Goto, Goes
  <2>4. account'[s] = m
    BY <2>1
  <2>5. QED
    BY <2>2, <2>3, <2>4 DEF Changes, Moves
<1>3. CASE CommitReset(s)
  <2>1. OthersStay(s)
    BY <1>3 DEF CommitReset, OthersStay, Answer, Finish
  <2>2. /\ pc[s] = "commit" /\ KeepsBody(s) /\ KeepsRow(s) /\ KeepsMail(s) /\ now' = now
        /\ Ends(s, {200, 500})
    BY <1>3 DEF CommitReset, KeepsBody, KeepsRow, KeepsMail, Answer, Finish, Ends
  <2>3. user' = [user EXCEPT ![account[s]].password = s, ![account[s]].changed = stamp[s]]
    BY <1>3 DEF CommitReset
  <2>4. QED
    BY <2>1, <2>2, <2>3 DEF CommitsReset, Moves
<1>4. QED
  BY <1>1, <1>2, <1>3

LEMMA UseMoves ==
  ASSUME TypeOK, NEW u \in Uses, Use(u)
  PROVE  Moves(u)
<1> USE RequestSets, Domains
<1>1. PICK t \in Issuers :
        /\ resp[t] \in {200, 201}
        /\ Arrive(u, [token |-> t])
        /\ \/ Outdated(t) /\ Finish(u, 401)
           \/ ~Outdated(t) /\ Finish(u, IF user[account[t]].role = "admin" THEN 200 ELSE 403)
        /\ UNCHANGED <<user, now, account, stamp, mailed>>
  BY DEF Use
<1>2. OthersStay(u)
  BY <1>1 DEF OthersStay, Arrive, Finish
<1>3. req'[u] = [token |-> t] /\ Asks(u)
  BY <1>1 DEF Asks, Arrive
<1>4. KeepsRow(u) /\ SameTables
  BY <1>1 DEF KeepsRow, SameTables
<1>5. (Ends(u, {401}) /\ Outdated(t)) \/ (Ends(u, {200, 403}) /\ ~Outdated(t))
  BY <1>1 DEF Ends, Finish
<1>6. QED
  BY <1>1, <1>2, <1>3, <1>4, <1>5 DEF UsesToken, Moves

LEMMA FailMoves ==
  ASSUME TypeOK, NEW r \in Requests, Fail(r)
  PROVE  Moves(r)
<1> USE RequestSets, Domains
<1>1. OthersStay(r)
  BY DEF Fail, OthersStay, Finish
<1>2. Fails(r)
  BY DEF Fail, Fails, Finish, Ends, KeepsBody, KeepsRow, KeepsMail, SameTables
<1>3. QED
  BY <1>1, <1>2 DEF Moves

\* A step is one request's, which moves as described above.
LEMMA StepsOfOne ==
  ASSUME TypeOK, [Next]_vars
  PROVE  vars' = vars \/ \E r \in Requests : Moves(r)
<1>1. ASSUME NEW m \in Makers, LookUp(m) \/ Insert(m) PROVE \E r \in Requests : Moves(r)
  BY <1>1, MakerMoves, RequestSets
<1>2. ASSUME NEW l \in Logins, ReceiveLogin(l) PROVE \E r \in Requests : Moves(r)
  BY <1>2, IssuerMoves, RequestSets
<1>3. ASSUME NEW g \in Registers, VerifyNew(g) PROVE \E r \in Requests : Moves(r)
  BY <1>3, IssuerMoves, RequestSets
<1>4. ASSUME NEW t \in Issuers, Issue(t) PROVE \E r \in Requests : Moves(r)
  BY <1>4, IssuerMoves, RequestSets
<1>5. ASSUME NEW s \in Resets, MailCode(s) \/ ChangePassword(s) \/ CommitReset(s)
      PROVE  \E r \in Requests : Moves(r)
  BY <1>5, ResetMoves, RequestSets
<1>6. ASSUME NEW u \in Uses, Use(u) PROVE \E r \in Requests : Moves(r)
  BY <1>6, UseMoves, RequestSets
<1>7. ASSUME NEW r \in Requests, Fail(r) PROVE Moves(r)
  BY <1>7, FailMoves
<1>8. QED
  BY <1>1, <1>2, <1>3, <1>4, <1>5, <1>6, <1>7 DEF Next

\* Every variable stays a function on its set.
Shape(f, S) == f = [x \in S |-> f[x]]
Shapes ==
  /\ Shape(user, Makers) /\ Shape(pc, Requests) /\ Shape(req, Requests)
  /\ Shape(resp, Requests) /\ Shape(account, Requests) /\ Shape(past, Requests)
  /\ Shape(stamp, Issuers \union Resets) /\ Shape(mailed, Resets)

LEMMA ShapesKept ==
  ASSUME TypeOK, [Next]_vars
  PROVE  Shapes'
<1>1. Shapes
  BY DEF TypeOK, Shapes, Shape
<1> USE DEF Shapes, Shape, Finish, Goto, Arrive, Answer
<1>2. ASSUME NEW m \in Makers, LookUp(m) \/ Insert(m) PROVE Shapes'
  <2>1. CASE LookUp(m)
    <3>1. PICK e \in Emails :
            /\ Arrive(m, [email |-> e])
            /\ IF ByEmail(e) # {} THEN Finish(m, 409) ELSE Goto(m, "insert")
            /\ UNCHANGED <<user, now, account, stamp, mailed>>
      BY <2>1 DEF LookUp
    <3>2. Shape(pc, Requests)' /\ Shape(resp, Requests)'
      BY <1>1, <3>1
    <3>3. Shape(req, Requests)' /\ Shape(past, Requests)'
      BY <1>1, <3>1
    <3>4. QED
      BY <1>1, <3>1, <3>2, <3>3
  <2>2. CASE Insert(m)
    <3>1. Shape(pc, Requests)' /\ Shape(resp, Requests)'
      BY <1>1, <2>2 DEF Insert
    <3>2. Shape(user, Makers)'
      BY <1>1, <2>2 DEF Insert
    <3>3. QED
      BY <1>1, <2>2, <3>1, <3>2 DEF Insert
  <2>3. QED
    BY <1>2, <2>1, <2>2
<1>3. ASSUME NEW r \in Requests, NEW e, NEW p, NEW status, Verify(r, e, p, status)
      PROVE  /\ Shape(user, Makers)' /\ Shape(pc, Requests)' /\ Shape(resp, Requests)'
             /\ Shape(account, Requests)' /\ Shape(stamp, Issuers \union Resets)'
             /\ Shape(mailed, Resets)'
  BY <1>1, <1>3 DEF Verify
<1>4. ASSUME NEW l \in Logins, ReceiveLogin(l) PROVE Shapes'
  <2>1. PICK e \in Emails, p \in { q \in Makers \union Resets : pc[q] # "idle" } :
          Arrive(l, [email |-> e, password |-> p]) /\ Verify(l, e, p, 401)
    BY <1>4 DEF ReceiveLogin
  <2>2. Shape(req, Requests)' /\ Shape(past, Requests)'
    BY <1>1, <2>1
  <2>3. l \in Requests /\ Verify(l, e, p, 401)
    BY <2>1, RequestSets
  <2> HIDE DEF Shape, Finish, Goto, Arrive, Answer
  <2>4. /\ Shape(user, Makers)' /\ Shape(pc, Requests)' /\ Shape(resp, Requests)'
        /\ Shape(account, Requests)' /\ Shape(stamp, Issuers \union Resets)'
        /\ Shape(mailed, Resets)'
    BY <1>3, <2>3
  <2>5. QED
    BY <2>2, <2>4
<1>5. ASSUME NEW g \in Registers, VerifyNew(g) PROVE Shapes'
  BY SMTT(20), <1>1, <1>3, <1>5, RequestSets DEF VerifyNew
<1>6. ASSUME NEW t \in Issuers, Issue(t) PROVE Shapes'
  BY ZenonT(40), <1>1, <1>6 DEF Issue
<1>7. ASSUME NEW s \in Resets, MailCode(s) PROVE Shapes'
  BY ZenonT(40), <1>1, <1>7 DEF MailCode
<1>8. ASSUME NEW s \in Resets, ChangePassword(s) \/ CommitReset(s) PROVE Shapes'
  BY SMTT(20), <1>1, <1>8 DEF ChangePassword, CommitReset
<1>9. ASSUME NEW u \in Uses, Use(u) PROVE Shapes'
  <2> HIDE DEF Finish
  <2>1. PICK t \in Issuers :
          /\ Arrive(u, [token |-> t])
          /\ \E status \in {200, 401, 403} : Finish(u, status)
          /\ UNCHANGED <<user, now, account, stamp, mailed>>
    BY ZenonT(40), <1>9 DEF Use
  <2>2. Shape(req, Requests)' /\ Shape(past, Requests)'
    BY <1>1, <2>1
  <2> USE DEF Finish
  <2>3. Shape(pc, Requests)' /\ Shape(resp, Requests)'
    BY <1>1, <2>1
  <2>4. QED
    BY <1>1, <2>1, <2>2, <2>3
<1>10. ASSUME NEW r \in Requests, Fail(r) PROVE Shapes'
  BY <1>1, <1>10 DEF Fail
<1>11. CASE vars' = vars
  BY <1>1, <1>11 DEF vars
<1>12. QED
  BY <1>2, <1>4, <1>5, <1>6, <1>7, <1>8, <1>9, <1>10, <1>11 DEF Next

\* Only an INSERT and the COMMIT of a reset change the rows.
RowSet(a, s) ==
  [email |-> user[a].email, role |-> user[a].role, password |-> s, changed |-> stamp[s]]
AddsRow(m) ==
  /\ Moves(m) /\ Inserts(m) /\ m \notin Stored /\ ByEmail(req[m].email) = {}
  /\ user' = [user EXCEPT ![m] = Row(m)] /\ Row(m) \in UserRow
SetsRow(s, a) ==
  /\ Moves(s) /\ CommitsReset(s) /\ a = account[s] /\ a \in Stored
  /\ stamp[s] \in 0 .. LastTick
  /\ user' = [user EXCEPT ![a] = RowSet(a, s)] /\ RowSet(a, s) \in UserRow

LEMMA RowSteps ==
  ASSUME TypeOK, Places, Progress, [Next]_vars
  PROVE  \/ user' = user
         \/ \E m \in Makers : AddsRow(m)
         \/ \E s \in Resets, a \in Makers : SetsRow(s, a)
<1>1. ASSUME NEW m \in Makers, Moves(m), Inserts(m), user' # user PROVE AddsRow(m)
  <2>1. /\ pc[m] = "insert" /\ ByEmail(req[m].email) = {}
        /\ user' = [user EXCEPT ![m] = Row(m)]
    BY <1>1 DEF Inserts
  <2>2. req[m] \in [email : Emails] /\ m \notin Stored
    BY <2>1 DEF Places, Progress
  <2>3. Row(m) \in UserRow
    BY <2>2 DEF Row, UserRow
  <2>4. QED
    BY <1>1, <2>1, <2>2, <2>3 DEF AddsRow
<1>2. ASSUME NEW s \in Resets, Moves(s), CommitsReset(s)
      PROVE  \E a \in Makers : SetsRow(s, a)
  <2> DEFINE a == account[s]
  <2>1. pc[s] = "commit"
        /\ user' = [user EXCEPT ![a].password = s, ![a].changed = stamp[s]]
    BY <1>2 DEF CommitsReset
  <2>2. account[s] # None /\ stamp[s] # None
    BY <2>1 DEF Progress
  <2>3. a \in Stored /\ a \in Makers /\ stamp[s] \in 0 .. LastTick
    BY <2>2, RequestSets DEF TypeOK, Stored
  <2>4. user[a] \in UserRow /\ DOMAIN user = Makers
    BY <2>3, StoredRows, Domains DEF Stored
  <2>5. RowSet(a, s) \in UserRow
    BY <2>3, <2>4 DEF RowSet, UserRow
  <2>6. user' = [user EXCEPT ![a] = RowSet(a, s)]
    <3> HIDE DEF a
    <3>1. [user[a] EXCEPT !.password = s, !.changed = stamp[s]] = RowSet(a, s)
      <4> DEFINE new == [user[a] EXCEPT !.password = s, !.changed = stamp[s]]
      <4>1. /\ new \in UserRow
            /\ new.email = user[a].email /\ new.role = user[a].role
            /\ new.password = s /\ new.changed = stamp[s]
        BY <2>3, <2>4 DEF UserRow
      <4> HIDE DEF new
      <4>2. new = RowSet(a, s)
        BY <2>5, <4>1 DEF UserRow, RowSet
      <4>3. QED
        BY <4>2 DEF new
    <3>2. [user EXCEPT ![a].password = s, ![a].changed = stamp[s]]
            = [user EXCEPT ![a] = [user[a] EXCEPT !.password = s, !.changed = stamp[s]]]
      BY <2>3, <2>4
    <3>3. QED
      BY <2>1, <3>1, <3>2
  <2>7. QED
    BY <1>2, <2>3, <2>5, <2>6 DEF SetsRow
<1>3. ASSUME NEW r \in Requests, Moves(r), user' # user
      PROVE  (r \in Makers /\ Inserts(r)) \/ (r \in Resets /\ CommitsReset(r))
  BY <1>3 DEF Moves, LooksUp, LogsIn, LogsInNew, Verifies, Issues, MailsCode, Changes,
     UsesToken, Fails, SameTables, Inserts, CommitsReset
<1>4. QED
  BY <1>1, <1>2, <1>3, StepsOfOne DEF vars

\* An account stays, with its email and its role.
LEMMA RowsStay ==
  ASSUME TypeOK, Places, Progress, [Next]_vars
  PROVE  /\ Stored \subseteq Stored'
         /\ \A m \in Stored : user'[m].email = user[m].email /\ user'[m].role = user[m].role
         /\ \A m \in Stored' \ Stored : AddsRow(m) /\ user'[m] = Row(m)
         /\ \A m \in Stored : user'[m] # user[m] =>
              \E s \in Resets : SetsRow(s, m) /\ user'[m] = RowSet(m, s)
<1> USE Domains
<1>1. CASE user' = user
  BY <1>1 DEF Stored
<1>2. ASSUME NEW m \in Makers, AddsRow(m)
      PROVE  /\ Stored' = Stored \union {m} /\ user'[m] = Row(m)
             /\ \A n \in Stored : user'[n] = user[n]
  <2>1. m \notin Stored /\ user' = [user EXCEPT ![m] = Row(m)] /\ Row(m) # None
    BY <1>2, RowAssumption DEF AddsRow
  <2>2. QED
    BY <2>1 DEF Stored
<1>3. ASSUME NEW s \in Resets, NEW a \in Makers, SetsRow(s, a)
      PROVE  /\ Stored' = Stored /\ user'[a] = RowSet(a, s)
             /\ \A n \in Stored \ {a} : user'[n] = user[n]
             /\ user'[a].email = user[a].email /\ user'[a].role = user[a].role
  <2>1. /\ a \in Stored /\ user' = [user EXCEPT ![a] = RowSet(a, s)] /\ RowSet(a, s) # None
    BY <1>3, RowAssumption DEF SetsRow
  <2>2. user'[a] = RowSet(a, s) /\ \A n \in Makers \ {a} : user'[n] = user[n]
    BY <2>1
  <2>3. Stored' = Stored
    BY <2>1, <2>2 DEF Stored
  <2>4. QED
    BY <2>2, <2>3 DEF RowSet, Stored
<1>4. CASE \E m \in Makers : AddsRow(m)
  BY <1>2, <1>4
<1>5. CASE \E s \in Resets, a \in Makers : SetsRow(s, a)
  BY <1>3, <1>5
<1>6. QED
  BY <1>1, <1>4, <1>5, RowSteps

\* A request that has been answered stays as it is.
Frozen(q) ==
  /\ pc'[q] = pc[q] /\ req'[q] = req[q] /\ resp'[q] = resp[q] /\ account'[q] = account[q]
  /\ past'[q] = past[q]
  /\ q \in Issuers \union Resets => stamp'[q] = stamp[q]
  /\ q \in Resets => mailed'[q] = mailed[q]

LEMMA AnsweredStay ==
  ASSUME TypeOK, [Next]_vars, NEW q \in Requests, pc[q] = "done"
  PROVE  Frozen(q)
<1>1. CASE vars' = vars
  BY <1>1 DEF vars, Frozen
<1>2. ASSUME NEW r \in Requests, Moves(r) PROVE Frozen(q)
  <2>1. r # q
    BY <1>2 DEF Moves, LooksUp, Inserts, LogsIn, LogsInNew, Issues, MailsCode, Changes,
       CommitsReset, UsesToken, Fails, Asks, Open
  <2>2. QED
    BY <1>2, <2>1 DEF Moves, OthersStay, Frozen
<1>3. QED
  BY <1>1, <1>2, StepsOfOne

LEMMA ClockMoves ==
  ASSUME TypeOK, [Next]_vars
  PROVE  now \in Nat /\ now' \in 0 .. LastTick /\ now <= now'
<1>1. now \in 0 .. LastTick /\ LastTick \in Nat
  BY AccountAssumption DEF TypeOK
<1>2. CASE vars' = vars
  BY <1>1, <1>2 DEF vars
<1>3. ASSUME NEW r \in Requests, Moves(r) PROVE now' = now \/ now' \in now .. LastTick
  BY <1>3 DEF Moves, LooksUp, Inserts, LogsIn, LogsInNew, Verifies, Issues, MailsCode,
     Changes, CommitsReset, UsesToken, Fails, SameTables, Stamps
<1>4. QED
  BY <1>1, <1>2, <1>3, StepsOfOne

\* What may become of one request's fields.
LEMMA FieldSteps ==
  ASSUME TypeOK, [Next]_vars, NEW q \in Requests
  PROVE  /\ pc'[q] = pc[q] \/ pc'[q] \in {"insert", "verify", "issue", "change", "commit", "done"}
         /\ resp'[q] = resp[q] \/ resp'[q] \in {200, 201, 401, 403, 409, 500}
         /\ \/ req'[q] = req[q]
            \/ req'[q] \in Body \union LoginBody \union [token : Issuers]
         /\ account'[q] = account[q] \/ account'[q] \in Stored
         /\ past'[q] = past[q] \/ past'[q] \subseteq { p \in Requests : pc[p] = "done" }
         /\ q \in Issuers \union Resets => stamp'[q] = stamp[q] \/ stamp'[q] = now'
         /\ q \in Resets => mailed'[q] = mailed[q] \/ mailed'[q] \in Stored
<1>1. CASE vars' = vars
  BY <1>1 DEF vars
<1>2. ASSUME NEW r \in Requests, Moves(r), r # q
      PROVE  Frozen(q)
  BY <1>2 DEF Moves, OthersStay, Frozen
<1>3. ASSUME Moves(q)
      PROVE  /\ pc'[q] = pc[q] \/ pc'[q] \in {"insert", "verify", "issue", "change", "commit", "done"}
             /\ resp'[q] = resp[q] \/ resp'[q] \in {200, 201, 401, 403, 409, 500}
  BY <1>3 DEF Moves, LooksUp, Inserts, LogsIn, LogsInNew, Verifies, Issues, MailsCode,
     Changes, CommitsReset, UsesToken, Fails, Goes, Ends
<1>4. ASSUME Moves(q)
      PROVE  \/ req'[q] = req[q]
             \/ req'[q] \in Body \union LoginBody \union [token : Issuers]
  <2>1. /\ [email : Emails] \subseteq Body /\ [email : LowerEmails] \subseteq Body
    BY DEF Body, LowerEmails
  <2>2. QED
    BY <1>4, <2>1 DEF Moves, LooksUp, Inserts, LogsIn, LogsInNew, Issues, MailsCode,
       Changes, CommitsReset, UsesToken, Fails, KeepsBody
<1>5. ASSUME Moves(q) PROVE past'[q] = past[q] \/ past'[q] \subseteq { p \in Requests : pc[p] = "done" }
  <2>1. Asks(q) \/ KeepsBody(q)
    BY <1>5 DEF Moves, LooksUp, Inserts, LogsIn, LogsInNew, Issues, MailsCode,
       Changes, CommitsReset, UsesToken, Fails
  <2>2. ASSUME Asks(q), q \in Logins PROVE req'[q].password \in Requests
    <3>1. req'[q] \in LoginBody
      BY <1>5, <2>2, RequestSets DEF Moves, LooksUp, Inserts, LogsIn, LogsInNew, Issues,
         MailsCode, Changes, CommitsReset, UsesToken, Fails, Asks, Open
    <3>2. QED
      BY <3>1, RequestSets DEF LoginBody
  <2>3. QED
    BY <2>1, <2>2, RequestSets DEF Asks, KeepsBody
<1>6. ASSUME Moves(q)
      PROVE  /\ account'[q] = account[q] \/ account'[q] \in Stored
             /\ q \in Issuers \union Resets => stamp'[q] = stamp[q] \/ stamp'[q] = now'
             /\ q \in Resets => mailed'[q] = mailed[q] \/ mailed'[q] \in Stored
  <2>1. \A e : ByLower(e) \subseteq Stored
    BY DEF ByLower
  <2>2. account'[q] = account[q] \/ account'[q] \in Stored
    BY <1>6, <2>1 DEF Moves, LooksUp, Inserts, LogsIn, LogsInNew, Verifies, Issues, MailsCode,
       Changes, CommitsReset, UsesToken, Fails, KeepsRow
  <2>3. q \in Issuers \union Resets => stamp'[q] = stamp[q] \/ stamp'[q] = now'
    BY <1>6, RequestSets DEF Moves, LooksUp, Inserts, LogsIn, LogsInNew, Verifies, Issues,
       MailsCode, Changes, CommitsReset, UsesToken, Fails, KeepsRow, Stamps
  <2>4. q \in Resets => mailed'[q] = mailed[q] \/ mailed'[q] \in Stored
    BY <1>6, <2>1, RequestSets DEF Moves, LooksUp, Inserts, LogsIn, LogsInNew, Verifies, Issues,
       MailsCode, Changes, CommitsReset, UsesToken, Fails, KeepsMail
  <2>5. QED
    BY <2>2, <2>3, <2>4
<1>7. QED
  BY <1>1, <1>2, <1>3, <1>4, <1>5, <1>6, StepsOfOne DEF Frozen

LEMMA TypesKept ==
  ASSUME TypeOK, Places, Progress, [Next]_vars
  PROVE  TypeOK'
<1>1. Shapes' /\ Stored \subseteq Stored'
  BY ShapesKept, RowsStay
<1>2. ASSUME NEW m \in Makers PROVE user'[m] \in UserRow \union {None}
  <2>1. CASE m \in Stored
    BY <1>2, <2>1, RowsStay, StoredRows DEF SetsRow
  <2>2. CASE m \in Stored' \ Stored
    BY <2>2, RowsStay DEF AddsRow
  <2>3. CASE m \notin Stored'
    BY <1>2, <2>3 DEF Stored
  <2>4. QED
    BY <1>1, <2>1, <2>2, <2>3
<1>3. ASSUME NEW m \in Stored', NEW n \in Stored', user'[m].email = user'[n].email
      PROVE  m = n
  <2>1. ASSUME NEW a \in Stored', a \notin Stored
        PROVE  /\ \A b \in Stored : user'[b].email # user'[a].email
               /\ \A b \in Makers \ {a} : user'[b] = user[b]
    <3>1. AddsRow(a) /\ user'[a] = Row(a) /\ a \in Makers
      BY <2>1, RowsStay DEF Stored
    <3>2. user' = [user EXCEPT ![a] = Row(a)] /\ ByEmail(req[a].email) = {}
      BY <3>1 DEF AddsRow
    <3>3. user'[a].email = req[a].email
      BY <3>1 DEF Row
    <3>4. \A b \in Stored : user[b].email # req[a].email
      BY <3>2 DEF ByEmail
    <3>5. QED
      BY <3>2, <3>3, <3>4, Domains, RowsStay
  <2>2. CASE m \in Stored /\ n \in Stored
    <3>1. user[m].email = user[n].email
      BY <1>3, <2>2, RowsStay
    <3>2. QED
      BY <2>2, <3>1 DEF TypeOK
  <2>3. CASE m \notin Stored /\ n \notin Stored
    BY <2>1, <2>3 DEF Stored
  <2>4. QED
    BY <1>3, <2>1, <2>2, <2>3
<1>4. now' \in 0 .. LastTick
  BY ClockMoves
<1>5. ASSUME NEW q \in Requests
      PROVE  /\ pc'[q] \in {"idle", "insert", "verify", "issue", "change", "commit", "done"}
             /\ resp'[q] \in {None, 200, 201, 401, 403, 409, 500}
             /\ req'[q] \in {None} \union Body \union LoginBody \union [token : Issuers]
  <2>1. /\ pc[q] \in {"idle", "insert", "verify", "issue", "change", "commit", "done"}
        /\ resp[q] \in {None, 200, 201, 401, 403, 409, 500}
        /\ req[q] \in {None} \union Body \union LoginBody \union [token : Issuers]
    BY DEF TypeOK
  <2>2. QED
    BY <2>1, FieldSteps
<1>6. ASSUME NEW q \in Requests
      PROVE  /\ account'[q] \in Makers \union {None}
             /\ account'[q] # None => account'[q] \in Stored'
             /\ past'[q] \in SUBSET Requests
             /\ q \in Issuers \union Resets => stamp'[q] \in 0 .. LastTick \union {None}
             /\ q \in Resets => mailed'[q] \in Makers \union {None}
  <2>1. /\ account[q] \in Makers \union {None} /\ past[q] \in SUBSET Requests
        /\ account[q] # None => account[q] \in Stored
        /\ q \in Issuers \union Resets => stamp[q] \in 0 .. LastTick \union {None}
        /\ q \in Resets => mailed[q] \in Makers \union {None}
    BY DEF TypeOK
  <2>2. Stored \subseteq Makers
    BY DEF Stored
  <2>3. QED
    BY <1>1, <1>4, <2>1, <2>2, FieldSteps
<1>7. /\ user' \in [Makers -> UserRow \union {None}]
      /\ pc' \in [Requests -> {"idle", "insert", "verify", "issue", "change", "commit", "done"}]
      /\ req' \in [Requests -> {None} \union Body \union LoginBody \union [token : Issuers]]
      /\ resp' \in [Requests -> {None, 200, 201, 401, 403, 409, 500}]
  BY <1>1, <1>2, <1>5 DEF Shapes, Shape
<1>8. /\ account' \in [Requests -> Makers \union {None}]
      /\ stamp' \in [Issuers \union Resets -> 0 .. LastTick \union {None}]
      /\ mailed' \in [Resets -> Makers \union {None}]
      /\ past' \in [Requests -> SUBSET Requests]
  BY <1>1, <1>6, RequestSets DEF Shapes, Shape
<1>9. QED
  BY <1>3, <1>4, <1>6, <1>7, <1>8 DEF TypeOK

\* What a request was asked, what it found answered and whom it mailed stay.
LEMMA BegunStay ==
  ASSUME TypeOK, [Next]_vars, NEW q \in Requests, pc[q] # "idle"
  PROVE  /\ pc'[q] # "idle" /\ req'[q] = req[q] /\ past'[q] = past[q]
         /\ q \in Resets => mailed'[q] = mailed[q]
<1>1. CASE vars' = vars
  BY <1>1 DEF vars
<1>2. ASSUME NEW r \in Requests, Moves(r), r # q
      PROVE  Frozen(q)
  BY <1>2 DEF Moves, OthersStay, Frozen
<1>3. ASSUME Moves(q)
      PROVE  KeepsBody(q) /\ KeepsMail(q) /\ pc'[q] # "idle"
  <2>1. ~Asks(q)
    BY DEF Asks
  <2>2. KeepsBody(q) /\ KeepsMail(q)
    BY <1>3, <2>1 DEF Moves, LooksUp, Inserts, LogsIn, LogsInNew, Verifies, Issues, MailsCode,
       Changes, CommitsReset, UsesToken, Fails
  <2>3. pc'[q] # "idle"
    BY FieldSteps
  <2>4. QED
    BY <2>2, <2>3
<1>4. QED
  BY <1>1, <1>2, <1>3, StepsOfOne DEF Frozen, KeepsBody, KeepsMail

\* What a request of each kind does in a step, if anything.
LEMMA MovesOfKind ==
  ASSUME TypeOK, [Next]_vars, NEW q \in Requests
  PROVE  \/ Frozen(q)
         \/ q \in Makers /\ (LooksUp(q) \/ Inserts(q))
         \/ q \in Registers /\ LogsInNew(q)
         \/ q \in Logins /\ LogsIn(q)
         \/ q \in Issuers /\ Issues(q)
         \/ q \in Resets /\ (MailsCode(q) \/ Changes(q) \/ CommitsReset(q))
         \/ q \in Uses /\ UsesToken(q)
         \/ Fails(q)
<1>1. CASE vars' = vars
  BY <1>1 DEF vars, Frozen
<1>2. ASSUME NEW r \in Requests, Moves(r), r # q PROVE Frozen(q)
  BY <1>2 DEF Moves, OthersStay, Frozen
<1>3. CASE Moves(q)
  BY <1>3 DEF Moves, LooksUp, Inserts, LogsIn, LogsInNew, Issues, MailsCode, Changes,
     CommitsReset, UsesToken
<1>4. QED
  BY <1>1, <1>2, <1>3, StepsOfOne

-----------------------------------------------------------------------------
(* The invariant, part by part.                                             *)

LEMMA PlacesKept ==
  ASSUME TypeOK, Places, [Next]_vars
  PROVE  Places'
<1> USE RequestSets
<1>1. ASSUME NEW m \in Makers
      PROVE  /\ \/ pc'[m] \in {"idle", "insert", "done"}
                \/ m \in Registers /\ pc'[m] \in {"verify", "issue"}
             /\ pc'[m] # "idle" => req'[m] \in [email : Emails]
  <2>1. /\ \/ pc[m] \in {"idle", "insert", "done"}
           \/ m \in Registers /\ pc[m] \in {"verify", "issue"}
        /\ pc[m] # "idle" => req[m] \in [email : Emails]
    BY DEF Places
  <2>2. Frozen(m) \/ LooksUp(m) \/ Inserts(m) \/ (m \in Registers /\ LogsInNew(m))
        \/ (m \in Registers /\ Issues(m)) \/ Fails(m)
    BY MovesOfKind
  <2>3. \/ pc'[m] \in {"idle", "insert", "done"}
        \/ m \in Registers /\ pc'[m] \in {"verify", "issue"}
    BY <2>1, <2>2 DEF Frozen, LooksUp, Inserts, LogsInNew, Verifies, Issues, Fails, Goes, Ends
  <2>4. CASE pc[m] = "idle"
    <3>1. Frozen(m) \/ LooksUp(m)
      BY <2>2, <2>4 DEF Inserts, LogsInNew, Issues, Fails, Open
    <3>2. QED
      BY <2>1, <2>3, <2>4, <3>1 DEF Frozen, LooksUp
  <2>5. CASE pc[m] # "idle"
    BY <2>1, <2>3, <2>5, BegunStay
  <2>6. QED
    BY <2>4, <2>5
<1>2. ASSUME NEW l \in Logins
      PROVE  /\ pc'[l] \in {"idle", "issue", "done"}
             /\ pc'[l] # "idle" => req'[l] \in LoginBody
  <2>1. pc[l] \in {"idle", "issue", "done"} /\ (pc[l] # "idle" => req[l] \in LoginBody)
    BY DEF Places
  <2>2. Frozen(l) \/ LogsIn(l) \/ Issues(l) \/ Fails(l)
    BY MovesOfKind
  <2>3. QED
    BY <2>1, <2>2 DEF Frozen, LogsIn, Verifies, Issues, Fails, Goes, Ends, KeepsBody, Open
<1>3. ASSUME NEW s \in Resets
      PROVE  /\ pc'[s] \in {"idle", "change", "commit", "done"}
             /\ pc'[s] # "idle" => req'[s] \in [email : LowerEmails]
  <2>1. /\ pc[s] \in {"idle", "change", "commit", "done"}
        /\ pc[s] # "idle" => req[s] \in [email : LowerEmails]
    BY DEF Places, LowerEmails
  <2>2. Frozen(s) \/ MailsCode(s) \/ Changes(s) \/ CommitsReset(s) \/ Fails(s)
    BY MovesOfKind
  <2>3. pc'[s] \in {"idle", "change", "commit", "done"}
    BY <2>1, <2>2 DEF Frozen, MailsCode, Changes, CommitsReset, Fails, Goes, Ends
  <2>4. CASE pc[s] = "idle"
    <3>1. Frozen(s) \/ MailsCode(s)
      BY <2>2, <2>4 DEF Changes, CommitsReset, Fails, Open
    <3>2. QED
      BY <2>1, <2>3, <2>4, <3>1 DEF Frozen, MailsCode
  <2>5. CASE pc[s] # "idle"
    BY <2>1, <2>3, <2>5, BegunStay
  <2>6. QED
    BY <2>4, <2>5
<1>4. ASSUME NEW u \in Uses
      PROVE  /\ pc'[u] \in {"idle", "done"}
             /\ pc'[u] # "idle" => req'[u] \in [token : Issuers] /\ pc'[req'[u].token] = "done"
  <2>1. /\ pc[u] \in {"idle", "done"}
        /\ pc[u] # "idle" => req[u] \in [token : Issuers] /\ pc[req[u].token] = "done"
    BY DEF Places
  <2>2. Frozen(u) \/ UsesToken(u)
    <3>1. ~Fails(u)
      BY <2>1 DEF Fails, Open
    <3>2. QED
      BY <3>1, MovesOfKind
  <2>3. ASSUME NEW t \in Issuers, pc[t] = "done" PROVE pc'[t] = "done"
    BY <2>3, AnsweredStay DEF Frozen
  <2>4. CASE Frozen(u)
    <3>1. pc'[u] # "idle" => req[u] \in [token : Issuers] /\ req[u].token \in Issuers
      BY <2>1, <2>4 DEF Frozen
    <3>2. QED
      BY <2>1, <2>3, <2>4, <3>1 DEF Frozen
  <2>5. CASE UsesToken(u)
    <3>1. req'[u] \in [token : Issuers] /\ resp[req'[u].token] \in {200, 201} /\ pc'[u] = "done"
      BY <2>5 DEF UsesToken, Ends
    <3>2. req'[u].token \in Issuers /\ resp[req'[u].token] # None
      BY <3>1, NoneIsNone
    <3>3. pc[req'[u].token] = "done"
      BY <3>2 DEF Places
    <3>4. QED
      BY <2>3, <3>1, <3>2, <3>3
  <2>6. QED
    BY <2>2, <2>4, <2>5
<1>5. ASSUME NEW r \in Requests PROVE pc'[r] = "done" <=> resp'[r] # None
  <2>1. pc[r] = "done" <=> resp[r] # None
    BY DEF Places
  <2>2. CASE Frozen(r)
    BY <2>1, <2>2 DEF Frozen
  <2>3. CASE ~Frozen(r)
    <3>1. pc[r] # "done"
      BY <2>3, AnsweredStay
    <3>2. \/ pc'[r] = "done" /\ resp'[r] # None
          \/ pc'[r] # "done" /\ resp'[r] = resp[r]
      <4>1. ASSUME NEW status \in {200, 201, 401, 403, 409, 500} PROVE status # None
        BY NoneIsNone
      <4>2. CASE LooksUp(r) \/ Inserts(r) \/ Issues(r) \/ MailsCode(r)
        BY <4>1, <4>2 DEF LooksUp, Inserts, Issues, MailsCode, Ends, Goes
      <4>3. CASE LogsIn(r) \/ LogsInNew(r)
        BY <4>1, <4>3 DEF LogsIn, LogsInNew, Verifies, Ends, Goes
      <4>4. CASE Changes(r) \/ CommitsReset(r) \/ UsesToken(r) \/ Fails(r)
        BY <4>1, <4>4 DEF Changes, CommitsReset, UsesToken, Fails, Ends, Goes
      <4>5. QED
        BY <2>3, <4>2, <4>3, <4>4, MovesOfKind
    <3>3. QED
      BY <2>1, <3>1, <3>2
  <2>4. QED
    BY <2>2, <2>3
<1>6. QED
  BY <1>1, <1>2, <1>3, <1>4, <1>5 DEF Places, LowerEmails

LEMMA ProgressKept ==
  ASSUME TypeOK, Places, Progress, [Next]_vars
  PROVE  Progress'
<1> USE RequestSets
<1>1. ASSUME NEW m \in Makers
      PROVE  /\ m \in Stored' =>
                  /\ pc'[m] \in {"verify", "issue", "done"}
                  /\ user'[m].email = req'[m].email
                  /\ user'[m].role = "admin" <=> m \in Seeds
             /\ pc'[m] \in {"verify", "issue"} => m \in Stored'
  <2>1. /\ m \in Stored => /\ pc[m] \in {"verify", "issue", "done"}
                           /\ user[m].email = req[m].email
                           /\ user[m].role = "admin" <=> m \in Seeds
        /\ pc[m] \in {"verify", "issue"} => m \in Stored
    BY DEF Progress
  <2>2. Frozen(m) \/ LooksUp(m) \/ Inserts(m) \/ (m \in Registers /\ LogsInNew(m))
        \/ (m \in Registers /\ Issues(m)) \/ Fails(m)
    BY MovesOfKind
  <2>3. CASE m \in Stored
    <3>1. /\ m \in Stored' /\ user'[m].email = user[m].email /\ user'[m].role = user[m].role
          /\ req'[m] = req[m]
      BY <2>1, <2>3, RowsStay, BegunStay
    <3>2. pc'[m] \in {"verify", "issue", "done"}
      BY <2>1, <2>2, <2>3 DEF Frozen, LooksUp, Asks, Inserts, LogsInNew, Verifies, Issues,
         Fails, Goes, Ends
    <3>3. QED
      BY <2>1, <2>3, <3>1, <3>2
  <2>4. CASE m \in Stored' \ Stored
    <3>1. AddsRow(m) /\ user'[m] = Row(m)
      BY <2>4, RowsStay
    <3>2. Inserts(m) /\ user'[m].email = req[m].email /\ user' # user
          /\ (user'[m].role = "admin" <=> m \in Seeds)
      BY <2>4, <3>1 DEF AddsRow, Row, Stored
    <3>3. pc'[m] \in {"verify", "done"} /\ req'[m] = req[m]
      BY <3>2 DEF Inserts, KeepsBody, Goes, Ends
    <3>4. QED
      BY <2>4, <3>2, <3>3
  <2>5. CASE m \notin Stored' /\ m \notin Stored
    <3>1. pc[m] \notin {"verify", "issue"} /\ ~LogsInNew(m) /\ ~Issues(m)
      BY <2>1, <2>5 DEF LogsInNew, Issues
    <3>2. ASSUME Inserts(m) PROVE pc'[m] = "done"
      <4>1. CASE user' = [user EXCEPT ![m] = Row(m)]
        <5>1. req[m] \in [email : Emails] /\ Row(m) \in UserRow
          BY <3>2 DEF Inserts, Places, Row, UserRow
        <5>2. m \in Stored'
          BY <4>1, <5>1, Domains, RowAssumption DEF Stored
        <5>3. QED
          BY <2>5, <5>2
      <4>2. QED
        BY <3>2, <4>1 DEF Inserts, Ends
    <3>3. QED
      BY <2>2, <2>5, <3>1, <3>2 DEF Frozen, LooksUp, Fails, Goes, Ends
  <2>6. QED
    BY <2>3, <2>4, <2>5, RowsStay
<1>2. ASSUME NEW t \in Issuers
      PROVE  /\ pc'[t] = "issue" => account'[t] # None
             /\ resp'[t] \in {200, 201} => account'[t] # None /\ stamp'[t] # None
  <2>1. /\ pc[t] = "issue" => account[t] # None
        /\ resp[t] \in {200, 201} => account[t] # None /\ stamp[t] # None
        /\ resp[t] # None => pc[t] = "done"
    BY DEF Progress, Places
  <2>2. Frozen(t) \/ LooksUp(t) \/ Inserts(t) \/ LogsInNew(t) \/ LogsIn(t) \/ Issues(t) \/ Fails(t)
    BY MovesOfKind
  <2>3. None \notin Stored /\ now' # None
    BY ClockMoves, NoneIsNone DEF Stored
  <2>4. CASE Frozen(t) \/ Issues(t) \/ Fails(t) \/ LooksUp(t)
    BY <2>1, <2>3, <2>4, NoneIsNone DEF Frozen, Issues, Fails, LooksUp, Asks, Ends, Goes,
       Stamps
  <2>5. CASE Inserts(t)
    <3>1. resp[t] = None /\ t \in Makers
      BY <2>5 DEF Inserts, Places
    <3>2. t \in Registers
      BY <3>1
    <3>3. QED
      BY <2>5, <3>1, <3>2, NoneIsNone DEF Inserts, Ends, Goes
  <2>6. CASE LogsIn(t) \/ LogsInNew(t)
    <3>1. resp[t] = None
      BY <2>1, <2>6 DEF LogsIn, LogsInNew, Asks
    <3>2. QED
      BY <2>3, <2>6, <3>1, NoneIsNone DEF LogsIn, LogsInNew, Verifies, Ends, Goes
  <2>7. QED
    BY <2>2, <2>4, <2>5, <2>6
<1>3. ASSUME NEW s \in Resets
      PROVE  /\ pc'[s] \in {"idle", "change"} => account'[s] = None
             /\ account'[s] # None <=> stamp'[s] # None
             /\ pc'[s] = "commit" \/ resp'[s] = 200 => account'[s] # None
  <2>1. /\ pc[s] \in {"idle", "change"} => account[s] = None
        /\ account[s] # None <=> stamp[s] # None
        /\ pc[s] = "commit" \/ resp[s] = 200 => account[s] # None
        /\ resp[s] # None => pc[s] = "done"
    BY DEF Progress, Places
  <2>2. Frozen(s) \/ MailsCode(s) \/ Changes(s) \/ CommitsReset(s) \/ Fails(s)
    BY MovesOfKind
  <2>3. None \notin ByLower(req[s].email) /\ now' # None
    BY ClockMoves, NoneIsNone DEF Stored, ByLower
  <2>4. QED
    BY <2>1, <2>2, <2>3, NoneIsNone DEF Frozen, MailsCode, Changes, CommitsReset, Fails,
       Asks, KeepsRow, Stamps, Goes, Ends
<1>4. QED
  BY <1>1, <1>2, <1>3 DEF Progress

LEMMA FrozenOrMoves ==
  ASSUME TypeOK, [Next]_vars, NEW q \in Requests
  PROVE  Frozen(q) \/ Moves(q)
<1>1. CASE vars' = vars
  BY <1>1 DEF vars, Frozen
<1>2. ASSUME NEW r \in Requests, Moves(r), r # q PROVE Frozen(q)
  BY <1>2 DEF Moves, OthersStay, Frozen
<1>3. QED
  BY <1>1, <1>2, StepsOfOne

\* A reset that is answered 200 or 500 at its COMMIT has set its account's row.
LEMMA CommitSets ==
  ASSUME TypeOK, Places, Progress, [Next]_vars, NEW s \in Resets, CommitsReset(s)
  PROVE  /\ account[s] \in Stored /\ user'[account[s]].password = s
         /\ account'[s] = account[s] /\ pc[s] = "commit"
<1>1. /\ pc[s] = "commit" /\ account'[s] = account[s]
      /\ user' = [user EXCEPT ![account[s]].password = s, ![account[s]].changed = stamp[s]]
  BY DEF CommitsReset, KeepsRow
<1>2. account[s] # None
  BY <1>1 DEF Progress
<1>3. account[s] \in Stored /\ account[s] \in Makers
  BY <1>2, RequestSets DEF TypeOK, Stored
<1>4. user[account[s]] \in UserRow
  BY <1>3, StoredRows
<1>5. user'[account[s]] = [user[account[s]] EXCEPT !.password = s, !.changed = stamp[s]]
  BY <1>1, <1>3, Domains
<1>6. user'[account[s]].password = s
  BY <1>4, <1>5 DEF UserRow
<1>7. QED
  BY <1>1, <1>3, <1>6

LEMMA FoundKept ==
  ASSUME TypeOK, Places, Progress, Found, [Next]_vars
  PROVE  Found'
<1> SUFFICES ASSUME NEW s \in Resets, NEW m \in {mailed'[s], account'[s]} \ {None}
             PROVE  m \in Stored' /\ Lower[user'[m].email] = req'[s].email
  BY DEF Found
<1>1. ASSUME NEW n \in Stored, Lower[user[n].email] = req'[s].email
      PROVE  n \in Stored' /\ Lower[user'[n].email] = req'[s].email
  BY <1>1, RowsStay
<1>2. \A n \in {mailed[s], account[s]} \ {None} : n \in Stored /\ Lower[user[n].email] = req[s].email
  BY DEF Found
<1>3. \A e : \A n \in ByLower(e) : n \in Stored /\ Lower[user[n].email] = e
  BY DEF ByLower
<1>4. Frozen(s) \/ MailsCode(s) \/ Changes(s) \/ CommitsReset(s) \/ Fails(s)
  BY MovesOfKind, RequestSets
<1>5. CASE MailsCode(s)
  <2>1. pc[s] = "idle" /\ account'[s] = account[s] /\ mailed'[s] \in ByLower(req'[s].email)
    BY <1>5 DEF MailsCode, Asks, KeepsRow
  <2>2. account'[s] = None
    BY <2>1 DEF Progress
  <2>3. QED
    BY <1>1, <1>3, <2>1, <2>2
<1>6. CASE Changes(s)
  <2>1. /\ req'[s] = req[s] /\ mailed'[s] = mailed[s] /\ account'[s] \in ByLower(req[s].email)
    BY <1>6 DEF Changes, KeepsBody, KeepsMail
  <2>2. QED
    BY <1>1, <1>2, <1>3, <2>1
<1>7. CASE Frozen(s) \/ CommitsReset(s) \/ Fails(s)
  <2>1. req'[s] = req[s] /\ mailed'[s] = mailed[s] /\ account'[s] = account[s]
    BY <1>7 DEF Frozen, CommitsReset, Fails, KeepsBody, KeepsRow, KeepsMail
  <2>2. QED
    BY <1>1, <1>2, <2>1
<1>8. QED
  BY <1>4, <1>5, <1>6, <1>7

LEMMA OrderKept ==
  ASSUME TypeOK, Places, Progress, Order, [Next]_vars
  PROVE  Order'
<1> USE RequestSets
<1>0. now \in Nat /\ now' \in Nat /\ now <= now'
  BY ClockMoves, AccountAssumption
<1>1. \A r \in Issuers \union Resets :
        /\ stamp[r] \in Nat \union {None} /\ (stamp[r] # None => stamp[r] <= now)
        /\ r \in Requests
  BY DEF TypeOK, Order
<1>2. ASSUME NEW r \in Issuers \union Resets, stamp'[r] # None PROVE stamp'[r] <= now'
  <2>1. stamp'[r] = stamp[r] \/ stamp'[r] = now'
    BY <1>1, FieldSteps
  <2>2. QED
    BY <1>0, <1>1, <1>2, <2>1
<1>3. ASSUME NEW q \in Requests, pc[q] = "done" PROVE Frozen(q)
  BY <1>3, AnsweredStay
<1>4. ASSUME NEW r \in Requests, NEW q \in past'[r] PROVE pc'[q] = "done"
  <2>1. q \in Requests /\ pc[q] = "done"
    BY <1>4, FieldSteps DEF TypeOK, Order
  <2>2. QED
    BY <1>3, <2>1 DEF Frozen
<1>5. ASSUME NEW r \in Resets, NEW s \in Resets, s \in past'[r], stamp'[s] # None,
             stamp'[r] # None
      PROVE  stamp'[s] <= stamp'[r]
  <2>1. pc[s] = "done" /\ (r # s \/ pc[r] = "done")
    BY <1>5, FieldSteps DEF TypeOK, Order
  <2>2. stamp'[s] = stamp[s]
    BY <1>3, <2>1 DEF Frozen
  <2>3. Frozen(r) \/ MailsCode(r) \/ Changes(r) \/ CommitsReset(r) \/ Fails(r)
    BY MovesOfKind
  <2>4. CASE Frozen(r) \/ CommitsReset(r) \/ Fails(r)
    <3>1. past'[r] = past[r] /\ stamp'[r] = stamp[r]
      BY <2>4 DEF Frozen, CommitsReset, Fails, KeepsBody, KeepsRow
    <3>2. QED
      BY <1>5, <2>2, <3>1 DEF Order
  <2>5. CASE MailsCode(r)
    <3>1. pc[r] = "idle" /\ stamp'[r] = stamp[r]
      BY <2>5 DEF MailsCode, Asks, KeepsRow
    <3>2. stamp[r] = None
      BY <3>1 DEF Progress
    <3>3. QED
      BY <1>5, <3>1, <3>2
  <2>6. CASE Changes(r)
    <3>1. stamp'[r] = now' /\ stamp[s] <= now /\ stamp[s] \in Nat
      BY <1>1, <1>5, <2>2, <2>6 DEF Changes, Stamps
    <3>2. QED
      BY <1>0, <2>2, <3>1
  <2>7. QED
    BY <2>3, <2>4, <2>5, <2>6
<1>6. ASSUME NEW m \in Makers, NEW s \in Resets \intersect past'[m] PROVE account'[s] # m
  <2>1. pc[s] = "done"
    BY FieldSteps DEF TypeOK, Order
  <2>2. account'[s] = account[s]
    BY <1>3, <2>1 DEF Frozen
  <2>3. CASE past'[m] = past[m]
    BY <2>2, <2>3 DEF Order
  <2>4. CASE past'[m] # past[m]
    <3>1. pc[m] = "idle" /\ m # None
      BY <2>4, BegunStay, NoneIsNone
    <3>2. m \notin Stored
      BY <3>1 DEF Progress
    <3>3. account[s] # None => account[s] \in Stored
      BY DEF TypeOK
    <3>4. QED
      BY <2>2, <3>1, <3>2, <3>3
  <2>5. QED
    BY <2>3, <2>4
<1>7. QED
  BY <1>2, <1>4, <1>5, <1>6 DEF Order

LEMMA LastResetKept ==
  ASSUME TypeOK, Places, Progress, Order, LastReset, [Next]_vars
  PROVE  LastReset'
<1> USE RequestSets
<1>0. ASSUME NEW q \in Requests, pc[q] = "done" PROVE Frozen(q)
  BY <1>0, AnsweredStay
\* A reset answered 200 for an account was answered before, or sets the row now.
<1>1. ASSUME NEW m \in Stored, NEW s \in Resets, account'[s] = m, resp'[s] = 200
      PROVE  \/ Frozen(s) /\ account[s] = m /\ resp[s] = 200
             \/ user'[m].password = s /\ pc[s] = "commit"
  <2>1. Frozen(s) \/ MailsCode(s) \/ Changes(s) \/ CommitsReset(s) \/ Fails(s)
    BY MovesOfKind
  <2>2. CASE Frozen(s)
    BY <1>1, <2>2 DEF Frozen
  <2>3. CASE CommitsReset(s)
    BY <1>1, <2>3, CommitSets
  <2>4. CASE MailsCode(s) \/ Changes(s) \/ Fails(s)
    <3>1. pc[s] # "done"
      BY <2>4 DEF MailsCode, Asks, Changes, Fails, Open
    <3>2. resp[s] # 200
      BY <3>1, NoneIsNone DEF Places
    <3>3. QED
      BY <1>1, <2>4, <3>2 DEF MailsCode, Changes, Fails, Goes, Ends
  <2>5. QED
    BY <2>1, <2>2, <2>3, <2>4
<1>2. ASSUME NEW m \in Stored, user'[m] = user[m]
      PROVE  LET q == user[m].password IN
             \/ /\ q = m /\ user[m].changed = None
                /\ \A s \in Resets : ~(account'[s] = m /\ resp'[s] = 200)
             \/ /\ q \in Resets /\ account'[q] = m /\ resp'[q] \in {200, 500}
                /\ user[m].changed = stamp'[q]
                /\ \A s \in Resets : account'[s] = m /\ resp'[s] = 200 => q \notin past'[s]
  <2> DEFINE q == user[m].password
  <2>1. \/ /\ q = m /\ user[m].changed = None
           /\ \A s \in Resets : ~(account[s] = m /\ resp[s] = 200)
        \/ /\ q \in Resets /\ account[q] = m /\ resp[q] \in {200, 500}
           /\ user[m].changed = stamp[q]
           /\ \A s \in Resets : account[s] = m /\ resp[s] = 200 => q \notin past[s]
    BY DEF LastReset
  <2>2. m \in Makers
    BY DEF Stored
  <2>3. CASE q = m
    <3>1. \A s \in Resets : ~(account[s] = m /\ resp[s] = 200)
      BY <2>1, <2>2, <2>3
    <3>2. \A s \in Resets : ~(account'[s] = m /\ resp'[s] = 200)
      BY <1>1, <1>2, <2>2, <2>3, <3>1
    <3>3. QED
      BY <2>1, <2>2, <2>3, <3>2
  <2>4. CASE q \in Resets /\ resp[q] \in {200, 500}
    <3>1. pc[q] = "done" /\ Frozen(q)
      BY <1>0, <2>4, NoneIsNone DEF Places
    <3>2. \A s \in Resets : account'[s] = m /\ resp'[s] = 200 =>
            Frozen(s) /\ account[s] = m /\ resp[s] = 200
      BY <1>1, <1>2, <3>1
    <3>3. \A s \in Resets : account'[s] = m /\ resp'[s] = 200 => q \notin past'[s]
      BY <2>1, <2>2, <2>4, <3>2 DEF Frozen
    <3>4. account'[q] = m /\ resp'[q] \in {200, 500} /\ user[m].changed = stamp'[q]
      BY <2>1, <2>2, <2>4, <3>1 DEF Frozen
    <3>5. QED
      BY <2>4, <3>3, <3>4
  <2>5. QED
    BY <2>1, <2>3, <2>4
<1>3. ASSUME NEW m \in Stored, NEW q \in Resets, SetsRow(q, m), user'[m] = RowSet(m, q)
      PROVE  /\ user'[m].password = q /\ account'[q] = m /\ resp'[q] \in {200, 500}
             /\ user'[m].changed = stamp'[q]
             /\ \A s \in Resets : q \notin past'[s]
  <2>1. user'[m].password = q /\ user'[m].changed = stamp[q]
    BY <1>3 DEF RowSet
  <2>2. /\ Moves(q) /\ CommitsReset(q) /\ m = account[q]
    BY <1>3 DEF SetsRow
  <2>3. /\ pc[q] = "commit" /\ account'[q] = m /\ stamp'[q] = stamp[q] /\ past'[q] = past[q]
        /\ resp'[q] \in {200, 500}
    BY <2>2 DEF CommitsReset, KeepsRow, KeepsBody, Ends
  <2>4. \A s \in Resets : past'[s] = past[s]
    BY <2>2, <2>3 DEF Moves, OthersStay
  <2>5. \A s \in Resets : q \notin past[s]
    BY <2>3 DEF Order
  <2>6. QED
    BY <2>1, <2>3, <2>4, <2>5
<1>4. ASSUME NEW m \in Stored' \ Stored
      PROVE  /\ user'[m].password = m /\ user'[m].changed = None
             /\ \A s \in Resets : account'[s] # m
  <2>1. user'[m] = Row(m)
    BY RowsStay
  <2>2. \A s \in Resets : account'[s] = account[s] \/ account'[s] \in Stored
    BY FieldSteps
  <2>3. \A s \in Resets : account[s] # None => account[s] \in Stored
    BY DEF TypeOK
  <2>4. m # None
    BY NoneIsNone DEF Stored
  <2>5. QED
    BY <2>1, <2>2, <2>3, <2>4 DEF Row
<1>5. ASSUME NEW m \in Stored'
      PROVE  LET q == user'[m].password IN
             \/ /\ q = m /\ user'[m].changed = None
                /\ \A s \in Resets : ~(account'[s] = m /\ resp'[s] = 200)
             \/ /\ q \in Resets /\ account'[q] = m /\ resp'[q] \in {200, 500}
                /\ user'[m].changed = stamp'[q]
                /\ \A s \in Resets : account'[s] = m /\ resp'[s] = 200 => q \notin past'[s]
  <2>1. CASE m \notin Stored
    BY <1>4, <1>5, <2>1
  <2>2. CASE m \in Stored /\ user'[m] = user[m]
    BY <1>2, <2>2
  <2>3. CASE m \in Stored /\ user'[m] # user[m]
    <3>1. PICK q \in Resets : SetsRow(q, m) /\ user'[m] = RowSet(m, q)
      BY <2>3, RowsStay
    <3>2. QED
      BY <1>3, <2>3, <3>1
  <2>4. QED
    BY <2>1, <2>2, <2>3
<1>6. QED
  BY <1>5 DEF LastReset

LEMMA RepliesAreTrueKept ==
  ASSUME TypeOK, Places, Progress, RepliesAreTrue, [Next]_vars
  PROVE  RepliesAreTrue'
<1> USE RequestSets
<1>1. SUFFICES ASSUME NEW m \in Makers
               PROVE  /\ resp'[m] = 201 =>
                           /\ m \in Stored' /\ user'[m].email = req'[m].email
                           /\ user'[m].role = "admin" <=> m \in Seeds
                      /\ resp'[m] = 409 => m \notin Stored' /\ ByEmail(req[m].email)' # {}
  BY DEF RepliesAreTrue
<1>2. Progress'
  BY ProgressKept
<1>3. Frozen(m) \/ LooksUp(m) \/ Inserts(m) \/ (m \in Registers /\ LogsInNew(m))
      \/ (m \in Registers /\ Issues(m)) \/ Fails(m)
  BY MovesOfKind
<1>4. resp[m] # None => pc[m] = "done"
  BY DEF Places
<1>5. ASSUME resp'[m] = 201 PROVE m \in Stored'
  <2>1. CASE Frozen(m)
    <3>1. m \in Stored
      BY <1>5, <2>1 DEF Frozen, RepliesAreTrue
    <3>2. QED
      BY <3>1, RowsStay
  <2>2. CASE Inserts(m)
    <3>1. resp[m] # 201
      BY <1>4, <2>2, NoneIsNone DEF Inserts
    <3>2. user' = [user EXCEPT ![m] = Row(m)] /\ pc[m] = "insert"
      BY <1>5, <2>2, <3>1 DEF Inserts, Ends, Goes
    <3>3. Row(m) \in UserRow
      BY <3>2 DEF Places, Row, UserRow
    <3>4. QED
      BY <3>2, <3>3, Domains, RowAssumption DEF Stored
  <2>3. CASE Issues(m)
    <3>1. m \in Stored
      BY <2>3 DEF Issues, Progress
    <3>2. QED
      BY <3>1, RowsStay
  <2>4. CASE LooksUp(m) \/ LogsInNew(m) \/ Fails(m)
    <3>1. resp[m] # 201
      BY <1>4, <2>4, NoneIsNone DEF LooksUp, Asks, LogsInNew, Fails, Open
    <3>2. QED
      BY <1>5, <2>4, <3>1 DEF LooksUp, LogsInNew, Verifies, Fails, Ends, Goes
  <2>5. QED
    BY <1>3, <2>1, <2>2, <2>3, <2>4
<1>6. ASSUME resp'[m] = 409 PROVE m \notin Stored' /\ ByEmail(req[m].email)' # {}
  <2>1. ASSUME ByEmail(req'[m].email) # {} PROVE ByEmail(req[m].email)' # {}
    <3>1. PICK n \in Stored : user[n].email = req'[m].email
      BY <2>1 DEF ByEmail
    <3>2. n \in Stored' /\ user'[n].email = req'[m].email
      BY <3>1, RowsStay
    <3>3. QED
      BY <3>2 DEF ByEmail
  <2>2. CASE Frozen(m)
    <3>1. m \notin Stored /\ ByEmail(req[m].email) # {} /\ req'[m] = req[m]
      BY <1>6, <2>2 DEF Frozen, RepliesAreTrue
    <3>2. pc[m] = "done"
      BY <1>4, <1>6, <2>2, NoneIsNone DEF Frozen
    <3>3. ~AddsRow(m)
      BY <3>2 DEF AddsRow, Inserts
    <3>4. m \notin Stored' /\ ByEmail(req[m].email)' # {}
      <4>1. m \notin Stored'
        BY <3>1, <3>3, RowsStay
      <4>2. ByEmail(req'[m].email) # {}
        BY <3>1
      <4>3. QED
        BY <2>1, <4>1, <4>2
    <3>5. QED
      BY <3>4
  <2>3. CASE LooksUp(m)
    <3>1. resp[m] # 409
      BY <1>4, <2>3, NoneIsNone DEF LooksUp, Asks
    <3>2. ByEmail(req'[m].email) # {} /\ pc[m] = "idle"
      BY <1>6, <2>3, <3>1 DEF LooksUp, Goes, Asks
    <3>3. m \notin Stored
      BY <3>2 DEF Progress
    <3>4. m \notin Stored'
      <4>1. ~AddsRow(m)
        BY <3>2 DEF AddsRow, Inserts
      <4>2. QED
        BY <3>3, <4>1, RowsStay
    <3>5. QED
      BY <2>1, <3>2, <3>4
  <2>4. CASE Inserts(m) \/ LogsInNew(m) \/ Issues(m) \/ Fails(m)
    <3>1. resp[m] # 409
      BY <1>4, <2>4, NoneIsNone DEF Inserts, LogsInNew, Issues, Fails, Open
    <3>2. QED
      BY <1>6, <2>4, <3>1 DEF Inserts, LogsInNew, Verifies, Issues, Fails, Ends, Goes
  <2>5. QED
    BY <1>3, <2>2, <2>3, <2>4
<1>7. QED
  BY <1>2, <1>5, <1>6 DEF Progress

-----------------------------------------------------------------------------
(* What a reset does to access tokens.                                      *)

\* The second a token is refused for is later than the token's, and a token
\* admitted although older than a reset by two seconds means an earlier time.
LEMMA SecondsApart ==
  ASSUME NEW a \in Nat, NEW c \in Nat
  PROVE  /\ Seconds(a) < Seconds(c) - 1 => a < c
         /\ \A b \in Nat : ~(Seconds(a) < Seconds(c) - 1) /\ a + 4 <= b => c < b
BY DEF Seconds

LEMMA StampTypes ==
  ASSUME TypeOK
  PROVE  \A r \in Issuers \union Resets : stamp[r] # None => stamp[r] \in Nat
BY NoneIsNone DEF TypeOK

\* What a request with a token found when it was answered.
LEMMA TokenFound ==
  ASSUME TypeOK, Places, Progress, LastReset, NEW t \in Issuers, resp[t] \in {200, 201}
  PROVE  /\ pc[t] = "done" /\ stamp[t] \in Nat /\ account[t] \in Stored
         /\ LET c == user[account[t]].changed
                q == user[account[t]].password
            IN  \/ c = None /\ \A s \in Resets : ~(account[s] = account[t] /\ resp[s] = 200)
                \/ /\ q \in Resets /\ account[q] = account[t] /\ pc[q] = "done"
                   /\ c = stamp[q] /\ c \in Nat
                   /\ \A s \in Resets : account[s] = account[t] /\ resp[s] = 200 => q \notin past[s]
<1> USE RequestSets
<1>1. account[t] # None /\ stamp[t] # None /\ pc[t] = "done"
  BY NoneIsNone DEF Progress, Places
<1>2. stamp[t] \in Nat /\ account[t] \in Stored
  BY <1>1, StampTypes DEF TypeOK
<1> DEFINE m == account[t]
           q == user[m].password
<1>3. \/ /\ q = m /\ user[m].changed = None
         /\ \A s \in Resets : ~(account[s] = m /\ resp[s] = 200)
      \/ /\ q \in Resets /\ account[q] = m /\ resp[q] \in {200, 500}
         /\ user[m].changed = stamp[q]
         /\ \A s \in Resets : account[s] = m /\ resp[s] = 200 => q \notin past[s]
  BY <1>2 DEF LastReset
<1>4. ASSUME q \in Resets, account[q] = m, resp[q] \in {200, 500}
      PROVE  pc[q] = "done" /\ stamp[q] \in Nat
  <2>1. stamp[q] # None /\ pc[q] = "done"
    BY <1>1, <1>4, NoneIsNone DEF Progress, Places
  <2>2. QED
    BY <1>4, <2>1, StampTypes
<1>5. QED
  BY <1>1, <1>2, <1>3, <1>4

LEMMA NewSessionsKept ==
  ASSUME TypeOK, Places, Progress, LastReset, NewSessionsAreAccepted, [Next]_vars
  PROVE  NewSessionsAreAccepted'
<1> USE RequestSets
<1> SUFFICES ASSUME NEW u \in Uses, resp'[u] = 401
             PROVE  LET t == req'[u].token IN
                    \E s \in Resets : account'[s] = account'[t] /\ stamp'[s] # None
                                      /\ stamp'[t] < stamp'[s]
  BY DEF NewSessionsAreAccepted
<1>1. Frozen(u) \/ UsesToken(u)
  <2>1. ~Fails(u)
    BY DEF Places, Fails, Open
  <2>2. QED
    BY <2>1, MovesOfKind
<1>2. ASSUME NEW t \in Issuers, pc[t] = "done" PROVE account'[t] = account[t] /\ stamp'[t] = stamp[t]
  BY <1>2, AnsweredStay DEF Frozen
<1>3. ASSUME NEW s \in Resets, stamp[s] # None PROVE account'[s] = account[s] /\ stamp'[s] = stamp[s]
  <2>1. pc[s] \notin {"idle", "change"}
    BY <1>3 DEF Progress
  <2>2. Frozen(s) \/ CommitsReset(s) \/ Fails(s)
    BY <2>1, MovesOfKind DEF MailsCode, Asks, Changes
  <2>3. QED
    BY <2>2 DEF Frozen, CommitsReset, Fails, KeepsRow
<1>4. CASE Frozen(u)
  <2> DEFINE t == req[u].token
  <2>1. resp[u] = 401 /\ req'[u] = req[u]
    BY <1>4 DEF Frozen
  <2>2. PICK s \in Resets : account[s] = account[t] /\ stamp[s] # None /\ stamp[t] < stamp[s]
    BY <2>1 DEF NewSessionsAreAccepted
  <2>3. pc[u] = "done"
    BY <2>1, NoneIsNone DEF Places
  <2>4. t \in Issuers /\ pc[t] = "done"
    BY <2>3 DEF Places
  <2>5. QED
    BY <1>2, <1>3, <2>1, <2>2, <2>4
<1>5. CASE UsesToken(u)
  <2> DEFINE t == req'[u].token
  <2>1. resp[u] # 401
    BY <1>5, NoneIsNone DEF UsesToken, Asks, Places
  <2>2. t \in Issuers /\ resp[t] \in {200, 201} /\ Outdated(t)
    BY <1>5, <2>1 DEF UsesToken, Ends
  <2> HIDE DEF t
  <2> DEFINE c == user[account[t]].changed
             s == user[account[t]].password
  <2>3. c # None /\ Seconds(stamp[t]) < Seconds(c) - 1
    BY <2>2 DEF Outdated
  <2>4. /\ pc[t] = "done" /\ stamp[t] \in Nat
        /\ s \in Resets /\ account[s] = account[t] /\ c = stamp[s] /\ c \in Nat
    BY <2>2, <2>3, TokenFound
  <2>5. stamp[t] < stamp[s] /\ stamp[s] # None
    BY <2>3, <2>4, SecondsApart
  <2>6. QED
    BY <1>2, <1>3, <2>2, <2>4, <2>5 DEF t
<1>6. QED
  BY <1>1, <1>4, <1>5

LEMMA AccessEndsKept ==
  ASSUME TypeOK, Places, Progress, Order, LastReset, AccessEndsWithReset, [Next]_vars
  PROVE  AccessEndsWithReset'
<1> USE RequestSets
<1>0. SUFFICES
        ASSUME NEW u \in Uses, resp'[u] \in {200, 403}, NEW s \in Resets, s \in past'[u],
               resp'[s] = 200, account'[s] = account'[req'[u].token],
               stamp'[req'[u].token] + 4 <= stamp'[s]
        PROVE  \E r \in Resets \ {s} :
                 account'[r] = account'[s] /\ pc'[r] = "done"
                 /\ s \notin past'[r] /\ r \notin past'[s]
  BY DEF AccessEndsWithReset, Admitted, Overlap
<1>1. Frozen(u) \/ UsesToken(u)
  <2>1. ~Fails(u)
    BY DEF Places, Fails, Open
  <2>2. QED
    BY <2>1, MovesOfKind
<1>2. ASSUME NEW q \in Requests, pc[q] = "done" PROVE Frozen(q)
  BY <1>2, AnsweredStay
<1>3. pc[s] = "done" /\ Frozen(s)
  <2>1. pc[s] = "done"
    BY <1>0, FieldSteps DEF TypeOK, Order
  <2>2. QED
    BY <1>2, <2>1
<1>4. resp[s] = 200 /\ account'[s] = account[s] /\ stamp'[s] = stamp[s] /\ past'[s] = past[s]
  BY <1>0, <1>3 DEF Frozen
<1>5. CASE Frozen(u)
  <2> DEFINE t == req[u].token
  <2>1. resp[u] \in {200, 403} /\ req'[u] = req[u] /\ s \in past[u]
    BY <1>0, <1>5 DEF Frozen
  <2>2. pc[u] = "done"
    BY <2>1, NoneIsNone DEF Places
  <2>3. t \in Issuers /\ pc[t] = "done"
    BY <2>2 DEF Places
  <2>4. account'[t] = account[t] /\ stamp'[t] = stamp[t]
    BY <1>2, <2>3 DEF Frozen
  <2>5. account[s] = account[t] /\ stamp[t] + 4 <= stamp[s]
    <3>1. account'[s] = account'[t] /\ stamp'[t] + 4 <= stamp'[s]
      BY <1>0, <2>1
    <3>2. QED
      BY <1>4, <2>4, <3>1
  <2>6. PICK r \in Resets \ {s} : /\ account[r] = account[s] /\ pc[r] = "done"
                                  /\ s \notin past[r] /\ r \notin past[s]
    BY <1>4, <2>1, <2>5 DEF AccessEndsWithReset, Admitted, Overlap
  <2>7. Frozen(r)
    BY <1>2, <2>6
  <2>8. QED
    BY <1>4, <2>6, <2>7 DEF Frozen
<1>6. CASE UsesToken(u)
  <2> DEFINE t == req'[u].token
  <2>1. resp[u] = None
    BY <1>6 DEF UsesToken, Asks, Places
  <2>2. t \in Issuers /\ resp[t] \in {200, 201} /\ ~Outdated(t)
    BY <1>0, <1>6, <2>1, NoneIsNone DEF UsesToken, Ends
  <2>3. account'[s] = account'[t] /\ stamp'[t] + 4 <= stamp'[s]
    BY <1>0
  <2> HIDE DEF t
  <2> DEFINE c == user[account[t]].changed
             q == user[account[t]].password
  <2>4. pc[t] = "done" /\ stamp[t] \in Nat
    BY <2>2, TokenFound
  <2>5. account'[t] = account[t] /\ stamp'[t] = stamp[t]
    BY <1>2, <2>2, <2>4 DEF Frozen
  <2>6. account[s] = account[t] /\ stamp[t] + 4 <= stamp[s]
    BY <1>4, <2>3, <2>5
  <2>7. /\ q \in Resets /\ account[q] = account[t] /\ pc[q] = "done"
        /\ c = stamp[q] /\ c \in Nat /\ q \notin past[s]
    BY <1>4, <2>2, <2>6, TokenFound
  <2>8. ~(Seconds(stamp[t]) < Seconds(c) - 1)
    BY <2>2, <2>7, NoneIsNone DEF Outdated
  <2>9. stamp[s] \in Nat /\ stamp[s] # None
    <3>1. stamp[s] # None
      BY <1>4 DEF Progress
    <3>2. QED
      BY <3>1, StampTypes
  <2>10. c < stamp[s]
    BY <2>4, <2>6, <2>7, <2>8, <2>9, SecondsApart
  <2>11. q # s
    BY <2>7, <2>9, <2>10
  <2>12. s \notin past[q]
    <3>1. ASSUME s \in past[q] PROVE stamp[s] <= stamp[q]
      BY <2>7, <2>9, <3>1, NoneIsNone DEF Order
    <3>2. QED
      BY <2>7, <2>9, <2>10, <3>1
  <2>13. Frozen(q)
    BY <1>2, <2>7
  <2>14. QED
    BY <1>4, <2>6, <2>7, <2>11, <2>12, <2>13 DEF Frozen
<1>7. QED
  BY <1>1, <1>5, <1>6

-----------------------------------------------------------------------------
(* Logging in with the password one was told of.                            *)

LEMMA RightPasswordKept ==
  ASSUME TypeOK, Places, Progress, Found, Order, LastReset, RightPasswordLogsIn, [Next]_vars
  PROVE  RightPasswordLogsIn'
<1> USE RequestSets
<1> SUFFICES
      ASSUME NEW l \in Logins, NEW m \in Stored', NEW p, p = req'[l].password,
             resp'[l] = 401, req'[l].email = user'[m].email, p \in past'[l],
             p = m \/ (p \in Resets /\ mailed'[p] = m /\ resp'[p] = 200)
      PROVE  \/ \E s \in Resets \ {p} : Sets(s, m)' /\ s \notin past'[p]
             \/ p \in Resets /\ Twins(m)' # {}
  BY DEF RightPasswordLogsIn
<1>1. p \in Requests /\ pc[p] = "done" /\ Frozen(p)
  <2>1. p \in Requests /\ pc[p] = "done"
    BY FieldSteps DEF TypeOK, Order
  <2>2. QED
    BY <2>1, AnsweredStay
<1>2. m \in Makers /\ m # None
  BY NoneIsNone DEF Stored
<1>3. m \in Stored
  <2>1. CASE p = m
    <3>1. ~AddsRow(m)
      BY <1>1, <2>1 DEF AddsRow, Inserts
    <3>2. QED
      BY <3>1, RowsStay
  <2>2. CASE p \in Resets /\ mailed'[p] = m
    <3>1. mailed[p] = m
      BY <1>1, <2>2 DEF Frozen
    <3>2. QED
      BY <1>2, <2>2, <3>1 DEF Found
  <2>3. QED
    BY <2>1, <2>2
<1>4. user'[m].email = user[m].email /\ m \in Stored'
  BY <1>3, RowsStay
<1>5. ASSUME NEW s \in Resets, Sets(s, m) PROVE Sets(s, m)'
  <2>1. account[s] = m /\ resp[s] \in {200, 500}
    BY <1>2, <1>5 DEF Sets
  <2>2. pc[s] = "done"
    BY <2>1, NoneIsNone DEF Places
  <2>3. Frozen(s)
    BY <2>2, AnsweredStay
  <2>4. QED
    BY <2>1, <2>3 DEF Sets, Frozen
<1>6. Twins(m) # {} => Twins(m)' # {}
  <2>1. ASSUME NEW n \in Twins(m) PROVE n \in Twins(m)'
    <3>1. n \in Stored /\ n # m /\ Lower[user[n].email] = Lower[user[m].email]
      BY <2>1 DEF Twins, ByLower
    <3>2. n \in Stored' /\ user'[n].email = user[n].email
      BY <3>1, RowsStay
    <3>3. QED
      BY <1>4, <3>1, <3>2 DEF Twins, ByLower
  <2>2. QED
    BY <2>1
<1>7. past'[p] = past[p]
  BY <1>1 DEF Frozen
<1>8. p = m \/ (p \in Resets /\ mailed[p] = m /\ resp[p] = 200)
  BY <1>1 DEF Frozen
<1>9. SUFFICES \/ \E s \in Resets \ {p} : Sets(s, m) /\ s \notin past[p]
               \/ p \in Resets /\ Twins(m) # {}
  BY <1>5, <1>6, <1>7
<1>10. Frozen(l) \/ LogsIn(l) \/ Issues(l) \/ Fails(l)
  BY MovesOfKind
<1>11. CASE Frozen(l)
  <2>1. resp[l] = 401 /\ req[l].email = user[m].email /\ p = req[l].password /\ p \in past[l]
    BY <1>4, <1>11 DEF Frozen
  <2>2. QED
    BY <1>3, <1>8, <2>1 DEF RightPasswordLogsIn
<1>12. CASE LogsIn(l)
  <2> DEFINE q == user[m].password
  <2>1. resp[l] # 401
    BY <1>12, NoneIsNone DEF LogsIn, Asks, Places
  <2>2. pc'[l] # "issue"
    BY <1>12, <2>1 DEF LogsIn, Verifies, Goes, Ends
  <2>3. q # p
    BY <1>3, <1>4, <1>12, <2>2 DEF LogsIn
  <2>4. \/ /\ q = m
           /\ \A s \in Resets : ~(account[s] = m /\ resp[s] = 200)
        \/ /\ q \in Resets /\ account[q] = m /\ resp[q] \in {200, 500}
           /\ \A s \in Resets : account[s] = m /\ resp[s] = 200 => q \notin past[s]
    BY <1>3 DEF LastReset
  <2>5. CASE p = m
    <3>1. q \in Resets /\ account[q] = m /\ resp[q] \in {200, 500}
      BY <2>3, <2>4, <2>5
    <3>2. q \notin past[p]
      BY <1>2, <2>5, <3>1 DEF Order
    <3>3. QED
      BY <2>3, <3>1, <3>2 DEF Sets
  <2>6. CASE p \in Resets /\ mailed[p] = m /\ resp[p] = 200
    <3>1. account[p] # None
      BY <2>6 DEF Progress
    <3>2. /\ account[p] \in Stored /\ Lower[user[account[p]].email] = req[p].email
          /\ Lower[user[m].email] = req[p].email
      BY <1>2, <2>6, <3>1 DEF Found
    <3>3. CASE account[p] # m
      <4>1. account[p] \in Twins(m)
        BY <3>2, <3>3 DEF Twins, ByLower
      <4>2. QED
        BY <2>6, <4>1
    <3>4. CASE account[p] = m
      BY <2>3, <2>4, <2>6, <3>4 DEF Sets
    <3>5. QED
      BY <3>3, <3>4
  <2>7. QED
    BY <1>8, <2>5, <2>6
<1>13. CASE Issues(l) \/ Fails(l)
  BY <1>13 DEF Issues, Fails, Ends
<1>14. QED
  BY <1>10, <1>11, <1>12, <1>13

-----------------------------------------------------------------------------
(* The theorems.                                                            *)

LEMMA AccountInit == Init => AccountInvariant
<1> SUFFICES ASSUME Init PROVE AccountInvariant
  OBVIOUS
<1> USE RequestSets, NoneIsNone DEF Init
<1>1. Stored = {}
  BY DEF Stored
<1>2. TypeOK
  BY <1>1 DEF TypeOK
<1>3. /\ \A r \in Requests : pc[r] = "idle" /\ resp[r] = None /\ account[r] = None /\ past[r] = {}
      /\ \A r \in Issuers \union Resets : stamp[r] = None
      /\ \A s \in Resets : mailed[s] = None
  OBVIOUS
<1>4. Places /\ Progress /\ Found /\ Order /\ LastReset
  BY <1>1, <1>3 DEF Places, Progress, Found, Order, LastReset
<1>5. RepliesAreTrue /\ RightPasswordLogsIn /\ AccessEndsWithReset /\ NewSessionsAreAccepted
  BY <1>1, <1>3 DEF RepliesAreTrue, RightPasswordLogsIn, AccessEndsWithReset,
     NewSessionsAreAccepted, Admitted
<1>6. QED
  BY <1>2, <1>4, <1>5 DEF AccountInvariant

\* In every state of every instance: types, what a handler has done by then, the
\* order of resets, and the properties below.
THEOREM AccountInvariantHolds == Spec => []AccountInvariant
<1>1. Init => AccountInvariant
  BY AccountInit
<1>2. AccountInvariant /\ [Next]_vars => AccountInvariant'
  BY TypesKept, PlacesKept, ProgressKept, FoundKept, OrderKept, LastResetKept,
     RepliesAreTrueKept, RightPasswordKept, AccessEndsKept, NewSessionsKept
     DEF AccountInvariant
<1>3. QED
  BY <1>1, <1>2, PTL DEF Spec

\* Every variable stays in its domain, and an email names one account.
THEOREM AccountTypes == Spec => []TypeOK
<1>1. AccountInvariant => TypeOK
  BY DEF AccountInvariant
<1>2. QED
  BY <1>1, AccountInvariantHolds, PTL

\* 201 means the account is the request's own, 409 that another has the email.
THEOREM AccountRepliesAreTrue == Spec => []RepliesAreTrue
<1>1. AccountInvariant => RepliesAreTrue
  BY DEF AccountInvariant
<1>2. QED
  BY <1>1, AccountInvariantHolds, PTL

\* Whoever was told of a password can log in with it.
THEOREM RightPasswordLogsInHolds == Spec => []RightPasswordLogsIn
<1>1. AccountInvariant => RightPasswordLogsIn
  BY DEF AccountInvariant
<1>2. QED
  BY <1>1, AccountInvariantHolds, PTL

\* A reset ends the access tokens issued two seconds or more before it.
THEOREM AccessEndsWithResetHolds == Spec => []AccessEndsWithReset
<1>1. AccountInvariant => AccessEndsWithReset
  BY DEF AccountInvariant
<1>2. QED
  BY <1>1, AccountInvariantHolds, PTL

\* Only tokens older than a reset are refused.
THEOREM NewSessionsAreAcceptedHolds == Spec => []NewSessionsAreAccepted
<1>1. AccountInvariant => NewSessionsAreAccepted
  BY DEF AccountInvariant
<1>2. QED
  BY <1>1, AccountInvariantHolds, PTL
=============================================================================
