-------------------------- MODULE PasswordResetProofs --------------------------
(***************************************************************************)
(* Proofs about PasswordReset, for any number of addresses, requests and   *)
(* limits: codes that were used up, replaced or guessed at stay refused,   *)
(* a code is refused only for a cause, a lockout lifts the cooldown, and   *)
(* reset tokens are spent once up to overlap.  First what a step may do to *)
(* one request, then the invariant part by part.                           *)
(***************************************************************************)
EXTENDS PasswordResetProperties, FiniteSetTheorems, TLAPS

-----------------------------------------------------------------------------
(* What a step does to the request that takes it, and to the keys.          *)

\* A request is of one kind only.
LEMMA RequestSets ==
  /\ Forgots \subseteq Requests /\ Verifies \subseteq Requests /\ Resets \subseteq Requests
  /\ Forgots \intersect Verifies = {} /\ Forgots \intersect Resets = {}
  /\ Verifies \intersect Resets = {}
  /\ \A r \in Requests : r \in Forgots \/ r \in Verifies \/ r \in Resets
BY ResetAssumption DEF Requests

LEMMA Domains ==
  ASSUME TypeOK
  PROVE  /\ DOMAIN otp = Emails /\ DOMAIN cooldown = Emails /\ DOMAIN sends = Emails
         /\ DOMAIN resetToken = Verifies /\ DOMAIN owner = Emails
         /\ DOMAIN pc = Requests /\ DOMAIN req = Requests /\ DOMAIN resp = Requests
         /\ DOMAIN count = Requests /\ DOMAIN past = Requests
         /\ DOMAIN found = Verifies /\ DOMAIN prior = Verifies
BY DEF TypeOK

LEMMA RequestTypes ==
  ASSUME TypeOK
  PROVE  /\ \A r \in Requests :
              /\ resp[r] \in {None, 200, 401, 500} /\ (pc[r] = "done" <=> resp[r] # None)
              /\ count[r] \in Nat /\ past[r] \in SUBSET Requests
         /\ \A g \in Forgots : pc[g] \in {"idle", "done"} \union ForgotStages
         /\ \A v \in Verifies :
              /\ pc[v] \in {"idle", "done"} \union VerifyStages
              /\ found[v] \in Code \union {None} /\ prior[v] \in Verifies \union {None}
         /\ \A s \in Resets : pc[s] \in {"idle", "done"} \union ResetStages
BY DEF TypeOK

Frozen(q) ==
  /\ pc'[q] = pc[q] /\ req'[q] = req[q] /\ resp'[q] = resp[q]
  /\ count'[q] = count[q] /\ past'[q] = past[q]
  /\ q \in Verifies => found'[q] = found[q] /\ prior'[q] = prior[q]
OthersStay(r) == \A q \in Requests \ {r} : Frozen(q)

Asks(r) ==
  /\ pc[r] = "idle" /\ count'[r] = count[r]
  /\ past'[r] = Done \ (IF r \in Resets THEN Forgots ELSE Resets)
Goes(r, label) == pc'[r] = label /\ resp'[r] = resp[r]
Ends(r, statuses) == pc'[r] = "done" /\ resp'[r] \in statuses
KeepsBody(r) == req'[r] = req[r] /\ past'[r] = past[r]
KeepsCount(r) == count'[r] = count[r]
KeepsFound(v) == v \in Verifies => found'[v] = found[v]
KeepsPrior(v) == v \in Verifies => prior'[v] = prior[v]
SameCodes == otp' = otp /\ lapsed' = lapsed
SameWaits == cooldown' = cooldown
SameSends == sends' = sends
SameTokens == resetToken' = resetToken /\ owner' = owner

\* What a forgot-password request stores.
CodeOf(g) == IF pc[g] = "store" THEN g ELSE Dummy

AsksCode(g) ==
  /\ g \in Forgots /\ Asks(g) /\ req'[g] \in Body
  /\ SameCodes /\ SameWaits /\ SameSends /\ SameTokens
  /\ \/ cooldown[req'[g].email] /\ Ends(g, {200})
     \/ req'[g].email \in Registered /\ ~cooldown[req'[g].email] /\ Goes(g, "count")
     \/ req'[g].email \notin Registered /\ Goes(g, "dummy")
CountsSend(g) ==
  LET e == req[g].email IN
  /\ g \in Forgots /\ pc[g] = "count" /\ KeepsBody(g)
  /\ SameCodes /\ SameWaits /\ SameTokens
  /\ count'[g] = sends[e].n + 1 /\ sends' = [sends EXCEPT ![e].n = count'[g]]
  /\ Goes(g, IF count'[g] = 1 THEN "expire" ELSE AfterCount(count'[g]))
ExpiresSends(g) ==
  /\ g \in Forgots /\ pc[g] = "expire" /\ KeepsBody(g) /\ KeepsCount(g)
  /\ SameCodes /\ SameWaits /\ SameTokens
  /\ sends' = [sends EXCEPT ![req[g].email].ttl = TRUE] /\ Goes(g, AfterCount(count[g]))
Stores(g) ==
  LET e == req[g].email IN
  /\ g \in Forgots /\ pc[g] \in {"store", "dummy"} /\ KeepsBody(g) /\ KeepsCount(g)
  /\ SameSends /\ SameTokens /\ lapsed' = lapsed
  /\ otp' = [otp EXCEPT ![e] = [code |-> CodeOf(g), attempts |-> 0, ttl |-> TRUE]]
  /\ cooldown' = [cooldown EXCEPT ![e] = TRUE] /\ Ends(g, {200, 500})

Reads(v) ==
  /\ v \in Verifies /\ Asks(v) /\ req'[v] \in Verification /\ req'[v].code \in Codes \union {None}
  /\ SameCodes /\ SameWaits /\ SameSends /\ SameTokens /\ KeepsPrior(v)
  /\ found'[v] = otp[req'[v].email]
  /\ \/ (found'[v] = None \/ found'[v].attempts >= MaxAttempts) /\ Ends(v, {401})
     \/ /\ found'[v] # None /\ found'[v].attempts < MaxAttempts
        /\ \/ found'[v].code = req'[v].code /\ Goes(v, "consume")
           \/ found'[v].code # req'[v].code /\ Goes(v, "attempt")
CountsAttempt(v) ==
  LET e == req[v].email IN
  /\ v \in Verifies /\ pc[v] = "attempt" /\ KeepsBody(v) /\ KeepsFound(v) /\ KeepsPrior(v)
  /\ SameWaits /\ SameSends /\ SameTokens /\ lapsed' = lapsed
  /\ otp' = [otp EXCEPT ![e] = Guessed(otp[e])] /\ count'[v] = Guessed(otp[e]).attempts
  /\ \/ count'[v] >= MaxAttempts /\ Goes(v, "clear")
     \/ count'[v] < MaxAttempts /\ Ends(v, {401, 500})
Clears(v) ==
  /\ v \in Verifies /\ pc[v] = "clear"
  /\ KeepsBody(v) /\ KeepsFound(v) /\ KeepsPrior(v) /\ KeepsCount(v)
  /\ SameSends /\ SameTokens /\ lapsed' = lapsed
  /\ otp' = [otp EXCEPT ![req[v].email] = None]
  /\ cooldown' = [cooldown EXCEPT ![req[v].email] = FALSE] /\ Ends(v, {401, 500})
Consumes(v) ==
  /\ v \in Verifies /\ pc[v] = "consume"
  /\ KeepsBody(v) /\ KeepsFound(v) /\ KeepsPrior(v) /\ KeepsCount(v)
  /\ SameWaits /\ SameSends /\ SameTokens /\ lapsed' = lapsed
  /\ otp' = [otp EXCEPT ![req[v].email] = None] /\ Goes(v, "owner")
ReadsOwner(v) ==
  /\ v \in Verifies /\ pc[v] = "owner" /\ KeepsBody(v) /\ KeepsFound(v) /\ KeepsCount(v)
  /\ SameCodes /\ SameWaits /\ SameSends /\ SameTokens
  /\ prior'[v] = owner[req[v].email]
  /\ \/ prior'[v] = None /\ Goes(v, "token")
     \/ prior'[v] # None /\ Goes(v, "drop")
DropsPrior(v) ==
  /\ v \in Verifies /\ pc[v] = "drop"
  /\ KeepsBody(v) /\ KeepsFound(v) /\ KeepsPrior(v) /\ KeepsCount(v)
  /\ SameCodes /\ SameWaits /\ SameSends /\ owner' = owner
  /\ resetToken' = [resetToken EXCEPT ![prior[v]] = None] /\ Goes(v, "token")
StoresToken(v) ==
  LET e == req[v].email IN
  /\ v \in Verifies /\ pc[v] = "token"
  /\ KeepsBody(v) /\ KeepsFound(v) /\ KeepsPrior(v) /\ KeepsCount(v)
  /\ SameCodes /\ SameWaits /\ SameSends
  /\ resetToken' = [resetToken EXCEPT ![v] = e] /\ owner' = [owner EXCEPT ![e] = v]
  /\ Ends(v, {200, 500})

Resolves(s) ==
  /\ s \in Resets /\ Asks(s) /\ req'[s] \in [token : Verifies] /\ resp[req'[s].token] = 200
  /\ SameCodes /\ SameWaits /\ SameSends /\ SameTokens
  /\ \/ Ends(s, {401})
     \/ resetToken[req'[s].token] # None /\ Goes(s, "spend")
SpendsToken(s) ==
  /\ s \in Resets /\ pc[s] = "spend" /\ KeepsBody(s) /\ KeepsCount(s)
  /\ SameCodes /\ SameWaits /\ SameSends /\ owner' = owner
  /\ resetToken' = [resetToken EXCEPT ![req[s].token] = None] /\ Goes(s, "change")
Changes(s) ==
  /\ s \in Resets /\ pc[s] = "change" /\ KeepsBody(s) /\ KeepsCount(s)
  /\ SameCodes /\ SameWaits /\ SameSends /\ SameTokens /\ Ends(s, {200, 500})

Fails(r) ==
  /\ r \in Requests /\ Open(r)
  /\ KeepsBody(r) /\ KeepsFound(r) /\ KeepsPrior(r) /\ KeepsCount(r)
  /\ SameCodes /\ SameWaits /\ SameSends /\ SameTokens /\ Ends(r, {500})

ForgotMoves(g) == AsksCode(g) \/ CountsSend(g) \/ ExpiresSends(g) \/ Stores(g) \/ Fails(g)
VerifyMoves(v) ==
  \/ Reads(v) \/ CountsAttempt(v) \/ Clears(v) \/ Consumes(v) \/ ReadsOwner(v)
  \/ DropsPrior(v) \/ StoresToken(v) \/ Fails(v)
ResetMoves(s) == Resolves(s) \/ SpendsToken(s) \/ Changes(s) \/ Fails(s)

LEMMA ForgotSteps ==
  ASSUME TypeOK, NEW g \in Forgots, ForgotStep(g)
  PROVE  OthersStay(g) /\ ForgotMoves(g)
<1> USE RequestSets, Domains DEF ForgotMoves
<1>1. CASE CheckCooldown(g)
  <2>1. PICK e \in Emails :
          /\ Arrive(g, [email |-> e])
          /\ \/ cooldown[e] /\ Finish(g, 200)
             \/ ~cooldown[e] /\ e \in Registered /\ Goto(g, "count")
             \/ ~cooldown[e] /\ e \notin Registered /\ Goto(g, "dummy")
          /\ UNCHANGED local
    BY <1>1 DEF CheckCooldown
  <2>2. req'[g] = [email |-> e] /\ Asks(g)
    BY <2>1 DEF Arrive, Asks, local
  <2>3. SameCodes /\ SameWaits /\ SameSends /\ SameTokens
    BY <2>1 DEF Arrive, keys, SameCodes, SameWaits, SameSends, SameTokens
  <2>4. OthersStay(g)
    BY <2>1 DEF OthersStay, Frozen, Arrive, Finish, Goto, local
  <2>5. \/ cooldown[e] /\ Ends(g, {200})
        \/ e \in Registered /\ ~cooldown[e] /\ Goes(g, "count")
        \/ e \notin Registered /\ Goes(g, "dummy")
    BY <2>1 DEF Finish, Goto, Ends, Goes
  <2>6. req'[g] \in Body /\ req'[g].email = e
    BY <2>2 DEF Body
  <2>7. QED
    BY <2>2, <2>3, <2>4, <2>5, <2>6 DEF AsksCode
<1>2. CASE CountSend(g)
  <2>1. OthersStay(g)
    BY <1>2 DEF CountSend, OthersStay, Frozen, Goto
  <2>2. pc[g] = "count" /\ KeepsBody(g) /\ SameCodes /\ SameWaits /\ SameTokens
    BY <1>2 DEF CountSend, KeepsBody, SameCodes, SameWaits, SameTokens
  <2>3. /\ count'[g] = sends[req[g].email].n + 1
        /\ sends' = [sends EXCEPT ![req[g].email].n = count'[g]]
    BY <1>2 DEF CountSend
  <2>4. Goes(g, IF count'[g] = 1 THEN "expire" ELSE AfterCount(count'[g]))
    <3> HIDE DEF Goes
    <3>1. Goto(g, IF count'[g] = 1 THEN "expire" ELSE AfterCount(count'[g]))
      BY <1>2, <2>3 DEF CountSend
    <3>2. \A label : Goto(g, label) => Goes(g, label)
      BY DEF Goto, Goes
    <3>3. QED
      BY <3>1, <3>2
  <2>5. QED
    BY <2>1, <2>2, <2>3, <2>4 DEF CountsSend
<1>3. CASE ExpireSends(g)
  <2>1. OthersStay(g)
    BY <1>3 DEF ExpireSends, OthersStay, Frozen, Goto, local
  <2>2. /\ pc[g] = "expire" /\ KeepsBody(g) /\ KeepsCount(g)
        /\ SameCodes /\ SameWaits /\ SameTokens
    BY <1>3 DEF ExpireSends, KeepsBody, KeepsCount, SameCodes, SameWaits, SameTokens, local
  <2>3. Goes(g, AfterCount(count[g])) /\ sends' = [sends EXCEPT ![req[g].email].ttl = TRUE]
    BY <1>3 DEF ExpireSends, Goto, Goes
  <2>4. QED
    BY <2>1, <2>2, <2>3 DEF ExpiresSends
<1>4. CASE StoreCode(g) \/ StoreDummy(g)
  <2>1. pc[g] \in {"store", "dummy"} /\ Store(g, CodeOf(g))
    BY <1>4 DEF StoreCode, StoreDummy, CodeOf
  <2> HIDE DEF CodeOf
  <2>2. OthersStay(g)
    BY <2>1 DEF Store, OthersStay, Frozen, Answer, Finish, local
  <2>3. KeepsBody(g) /\ KeepsCount(g) /\ SameSends /\ SameTokens /\ lapsed' = lapsed
    BY <2>1 DEF Store, KeepsBody, KeepsCount, SameSends, SameTokens, local
  <2>4. Ends(g, {200, 500})
    BY <2>1 DEF Store, Answer, Finish, Ends
  <2>5. QED
    BY <2>1, <2>2, <2>3, <2>4 DEF Store, Stores
<1>5. QED
  BY <1>1, <1>2, <1>3, <1>4 DEF ForgotStep

LEMMA VerifySteps ==
  ASSUME TypeOK, NEW v \in Verifies, VerifyStep(v)
  PROVE  OthersStay(v) /\ VerifyMoves(v)
<1> USE RequestSets, Domains DEF VerifyMoves
<1>1. CASE ReadOtp(v)
  <2>1. PICK e \in Emails, c \in Codes \union {None} :
          /\ Arrive(v, [email |-> e, code |-> c])
          /\ \/ otp[e] = None /\ Finish(v, 401)
             \/ otp[e] # None /\ otp[e].attempts >= MaxAttempts /\ Finish(v, 401)
             \/ /\ otp[e] # None /\ otp[e].attempts < MaxAttempts
                /\ otp[e].code = c /\ Goto(v, "consume")
             \/ /\ otp[e] # None /\ otp[e].attempts < MaxAttempts
                /\ otp[e].code # c /\ Goto(v, "attempt")
          /\ found' = [found EXCEPT ![v] = otp[e]]
          /\ UNCHANGED <<count, prior>>
    BY <1>1, ZenonT(40) DEF ReadOtp
  <2>2. req'[v] = [email |-> e, code |-> c] /\ Asks(v) /\ KeepsPrior(v) /\ found'[v] = otp[e]
    BY <2>1 DEF Arrive, Asks, KeepsPrior
  <2>3. SameCodes /\ SameWaits /\ SameSends /\ SameTokens
    BY <2>1 DEF Arrive, keys, SameCodes, SameWaits, SameSends, SameTokens
  <2>4. OthersStay(v)
    BY <2>1 DEF OthersStay, Frozen, Arrive, Finish, Goto
  <2>5. Codes \subseteq Forgots
    BY DEF Codes
  <2>6. req'[v] \in Verification /\ req'[v].email = e /\ req'[v].code = c
    BY <2>2, <2>5 DEF Verification
  <2>7. \/ (otp[e] = None \/ otp[e].attempts >= MaxAttempts) /\ Ends(v, {401})
        \/ /\ otp[e] # None /\ otp[e].attempts < MaxAttempts
           /\ \/ otp[e].code = c /\ Goes(v, "consume")
              \/ otp[e].code # c /\ Goes(v, "attempt")
    <3>1. \A status : Finish(v, status) => Ends(v, {status})
      BY DEF Finish, Ends
    <3>2. \A label : Goto(v, label) => Goes(v, label)
      BY DEF Goto, Goes
    <3>3. QED
      BY <2>1, <3>1, <3>2
  <2>8. QED
    BY <2>2, <2>3, <2>4, <2>6, <2>7 DEF Reads
<1>2. CASE CountAttempt(v)
  <2> DEFINE o == Guessed(otp[req[v].email])
  <2> HIDE DEF o
  <2>1. /\ pc[v] = "attempt" /\ otp' = [otp EXCEPT ![req[v].email] = o]
        /\ count' = [count EXCEPT ![v] = o.attempts]
        /\ \/ o.attempts >= MaxAttempts /\ Goto(v, "clear")
           \/ o.attempts < MaxAttempts /\ Answer(v, 401)
        /\ UNCHANGED <<cooldown, sends, resetToken, owner, req, found, prior, past, lapsed>>
    BY <1>2 DEF CountAttempt, o
  <2>2. OthersStay(v)
    BY <2>1 DEF OthersStay, Frozen, Goto, Answer, Finish
  <2>3. /\ KeepsBody(v) /\ KeepsFound(v) /\ KeepsPrior(v)
        /\ SameWaits /\ SameSends /\ SameTokens /\ lapsed' = lapsed
    BY <2>1 DEF KeepsBody, KeepsFound, KeepsPrior, SameWaits, SameSends, SameTokens
  <2>4. /\ Goto(v, "clear") => Goes(v, "clear")
        /\ Answer(v, 401) => Ends(v, {401, 500})
    BY DEF Goto, Goes, Answer, Finish, Ends
  <2>5. count'[v] = o.attempts
    BY <2>1
  <2>6. QED
    BY <2>1, <2>2, <2>3, <2>4, <2>5 DEF CountsAttempt, o
<1>3. CASE ClearOtp(v)
  <2>1. OthersStay(v)
    BY <1>3 DEF ClearOtp, OthersStay, Frozen, Answer, Finish, local
  <2>2. /\ pc[v] = "clear" /\ KeepsBody(v) /\ KeepsFound(v) /\ KeepsPrior(v) /\ KeepsCount(v)
        /\ SameSends /\ SameTokens /\ lapsed' = lapsed
    BY <1>3 DEF ClearOtp, KeepsBody, KeepsFound, KeepsPrior, KeepsCount, SameSends, SameTokens,
       local
  <2>3. Ends(v, {401, 500})
    BY <1>3 DEF ClearOtp, Answer, Finish, Ends
  <2>4. QED
    BY <1>3, <2>1, <2>2, <2>3 DEF ClearOtp, Clears
<1>4. CASE ConsumeOtp(v)
  <2>1. OthersStay(v)
    BY <1>4 DEF ConsumeOtp, OthersStay, Frozen, Goto, local
  <2>2. /\ pc[v] = "consume" /\ KeepsBody(v) /\ KeepsFound(v) /\ KeepsPrior(v) /\ KeepsCount(v)
        /\ SameWaits /\ SameSends /\ SameTokens /\ lapsed' = lapsed
    BY <1>4 DEF ConsumeOtp, KeepsBody, KeepsFound, KeepsPrior, KeepsCount, SameWaits, SameSends,
       SameTokens, local
  <2>3. Goes(v, "owner") /\ otp' = [otp EXCEPT ![req[v].email] = None]
    BY <1>4 DEF ConsumeOtp, Goto, Goes
  <2>4. QED
    BY <2>1, <2>2, <2>3 DEF Consumes
<1>5. CASE ReadOwner(v)
  <2>1. OthersStay(v)
    BY <1>5 DEF ReadOwner, OthersStay, Frozen, Goto
  <2>2. /\ pc[v] = "owner" /\ KeepsBody(v) /\ KeepsFound(v) /\ KeepsCount(v)
        /\ SameCodes /\ SameWaits /\ SameSends /\ SameTokens
    BY <1>5 DEF ReadOwner, keys, KeepsBody, KeepsFound, KeepsCount, SameCodes, SameWaits,
       SameSends, SameTokens
  <2>3. prior'[v] = owner[req[v].email]
    BY <1>5 DEF ReadOwner
  <2>4. Goto(v, IF prior'[v] = None THEN "token" ELSE "drop")
    BY <1>5, <2>3 DEF ReadOwner
  <2>5. \A label : Goto(v, label) => Goes(v, label)
    BY DEF Goto, Goes
  <2>6. QED
    BY <2>1, <2>2, <2>3, <2>4, <2>5 DEF ReadsOwner
<1>6. CASE DropPrior(v)
  <2>1. OthersStay(v)
    BY <1>6 DEF DropPrior, OthersStay, Frozen, Goto, local
  <2>2. /\ pc[v] = "drop" /\ KeepsBody(v) /\ KeepsFound(v) /\ KeepsPrior(v) /\ KeepsCount(v)
        /\ SameCodes /\ SameWaits /\ SameSends /\ owner' = owner
    BY <1>6 DEF DropPrior, KeepsBody, KeepsFound, KeepsPrior, KeepsCount, SameCodes, SameWaits,
       SameSends, local
  <2>3. Goes(v, "token") /\ resetToken' = [resetToken EXCEPT ![prior[v]] = None]
    BY <1>6 DEF DropPrior, Goto, Goes
  <2>4. QED
    BY <2>1, <2>2, <2>3 DEF DropsPrior
<1>7. CASE StoreToken(v)
  <2>1. OthersStay(v)
    BY <1>7 DEF StoreToken, OthersStay, Frozen, Answer, Finish, local
  <2>2. /\ pc[v] = "token" /\ KeepsBody(v) /\ KeepsFound(v) /\ KeepsPrior(v) /\ KeepsCount(v)
        /\ SameCodes /\ SameWaits /\ SameSends
    BY <1>7 DEF StoreToken, KeepsBody, KeepsFound, KeepsPrior, KeepsCount, SameCodes, SameWaits,
       SameSends, local
  <2>3. Ends(v, {200, 500})
    BY <1>7 DEF StoreToken, Answer, Finish, Ends
  <2>4. QED
    BY <1>7, <2>1, <2>2, <2>3 DEF StoreToken, StoresToken
<1>8. QED
  BY <1>1, <1>2, <1>3, <1>4, <1>5, <1>6, <1>7 DEF VerifyStep

LEMMA ResetSteps ==
  ASSUME TypeOK, NEW s \in Resets, ResetStep(s)
  PROVE  OthersStay(s) /\ ResetMoves(s)
<1> USE RequestSets, Domains DEF ResetMoves
<1>1. CASE ResolveToken(s)
  <2>1. PICK t \in { v \in Verifies : resp[v] = 200 } :
          /\ Arrive(s, [token |-> t])
          /\ \/ resetToken[t] = None /\ Finish(s, 401)
             \/ resetToken[t] # None /\ Goto(s, "spend")
          /\ UNCHANGED local
    BY <1>1 DEF ResolveToken
  <2>2. req'[s] = [token |-> t] /\ Asks(s)
    BY <2>1 DEF Arrive, Asks, local
  <2>3. SameCodes /\ SameWaits /\ SameSends /\ SameTokens
    BY <2>1 DEF Arrive, keys, SameCodes, SameWaits, SameSends, SameTokens
  <2>4. OthersStay(s)
    BY <2>1 DEF OthersStay, Frozen, Arrive, Finish, Goto, local
  <2>5. Ends(s, {401}) \/ (resetToken[t] # None /\ Goes(s, "spend"))
    BY <2>1 DEF Finish, Goto, Ends, Goes
  <2>6. QED
    BY <2>1, <2>2, <2>3, <2>4, <2>5 DEF Resolves
<1>2. CASE SpendToken(s)
  <2>1. OthersStay(s)
    BY <1>2 DEF SpendToken, OthersStay, Frozen, Goto, local
  <2>2. /\ pc[s] = "spend" /\ KeepsBody(s) /\ KeepsCount(s)
        /\ SameCodes /\ SameWaits /\ SameSends /\ owner' = owner
    BY <1>2 DEF SpendToken, KeepsBody, KeepsCount, SameCodes, SameWaits, SameSends, local
  <2>3. Goes(s, "change") /\ resetToken' = [resetToken EXCEPT ![req[s].token] = None]
    BY <1>2 DEF SpendToken, Goto, Goes
  <2>4. QED
    BY <2>1, <2>2, <2>3 DEF SpendsToken
<1>3. CASE ChangePassword(s)
  <2>1. OthersStay(s)
    BY <1>3 DEF ChangePassword, OthersStay, Frozen, Answer, Finish, local
  <2>2. /\ pc[s] = "change" /\ KeepsBody(s) /\ KeepsCount(s)
        /\ SameCodes /\ SameWaits /\ SameSends /\ SameTokens
    BY <1>3 DEF ChangePassword, KeepsBody, KeepsCount, SameCodes, SameWaits, SameSends,
       SameTokens, keys, local
  <2>3. Ends(s, {200, 500})
    BY <1>3 DEF ChangePassword, Answer, Finish, Ends
  <2>4. QED
    BY <2>1, <2>2, <2>3 DEF Changes
<1>4. QED
  BY <1>1, <1>2, <1>3 DEF ResetStep

LEMMA FailSteps ==
  ASSUME TypeOK, NEW r \in Requests, Fail(r)
  PROVE  OthersStay(r) /\ Fails(r)
<1> USE RequestSets, Domains
<1>1. OthersStay(r)
  BY DEF Fail, OthersStay, Frozen, Finish, local
<1>2. /\ Open(r) /\ KeepsBody(r) /\ KeepsFound(r) /\ KeepsPrior(r) /\ KeepsCount(r)
      /\ SameCodes /\ SameWaits /\ SameSends /\ SameTokens
  BY DEF Fail, KeepsBody, KeepsFound, KeepsPrior, KeepsCount, SameCodes, SameWaits, SameSends,
     SameTokens, keys, local
<1>3. Ends(r, {500})
  BY DEF Fail, Finish, Ends
<1>4. QED
  BY <1>1, <1>2, <1>3 DEF Fails

\* A step is one request's, or a key expires and every request stays.
AllStay == \A q \in Requests : Frozen(q)
Moves(r) ==
  /\ OthersStay(r)
  /\ \/ r \in Forgots /\ ForgotMoves(r)
     \/ r \in Verifies /\ VerifyMoves(r)
     \/ r \in Resets /\ ResetMoves(r)

LEMMA StepsOfOne ==
  ASSUME TypeOK, [Next]_vars
  PROVE  \/ UNCHANGED vars /\ AllStay
         \/ Expiry /\ AllStay
         \/ \E r \in Requests : Moves(r)
<1> USE RequestSets DEF Moves
<1>1. ASSUME NEW g \in Forgots, ForgotStep(g) PROVE Moves(g)
  BY <1>1, ForgotSteps
<1>2. ASSUME NEW v \in Verifies, VerifyStep(v) PROVE Moves(v)
  BY <1>2, VerifySteps
<1>3. ASSUME NEW s \in Resets, ResetStep(s) PROVE Moves(s)
  BY <1>3, ResetSteps
<1>4. ASSUME NEW r \in Requests, Fail(r) PROVE Moves(r)
  BY <1>4, FailSteps DEF ForgotMoves, VerifyMoves, ResetMoves
<1>5. ASSUME Expiry PROVE AllStay
  BY <1>5 DEF Expiry, ExpireOtp, ExpireCooldown, ExpireCounter, ExpireToken, AllStay, Frozen,
     local
<1>6. ASSUME UNCHANGED vars PROVE AllStay
  BY <1>6 DEF vars, AllStay, Frozen, local
<1>7. QED
  BY <1>1, <1>2, <1>3, <1>4, <1>5, <1>6 DEF Next

LEMMA MovesOfKind ==
  ASSUME TypeOK, [Next]_vars
  PROVE  /\ \A g \in Forgots : Frozen(g) \/ ForgotMoves(g)
         /\ \A v \in Verifies : Frozen(v) \/ VerifyMoves(v)
         /\ \A s \in Resets : Frozen(s) \/ ResetMoves(s)
<1>1. ASSUME NEW r \in Requests, Moves(r)
      PROVE  /\ \A g \in Forgots : Frozen(g) \/ ForgotMoves(g)
             /\ \A v \in Verifies : Frozen(v) \/ VerifyMoves(v)
             /\ \A s \in Resets : Frozen(s) \/ ResetMoves(s)
  BY <1>1, RequestSets DEF Moves, OthersStay
<1>2. QED
  BY <1>1, StepsOfOne, RequestSets DEF AllStay

\* A request that has been answered stays as it is.
LEMMA AnsweredStay ==
  ASSUME TypeOK, [Next]_vars, NEW q \in Requests, pc[q] = "done"
  PROVE  Frozen(q)
<1>1. CASE q \in Forgots
  BY <1>1, MovesOfKind DEF ForgotMoves, AsksCode, CountsSend, ExpiresSends, Stores, Fails,
     Asks, Open
<1>2. CASE q \in Verifies
  BY <1>2, MovesOfKind DEF VerifyMoves, Reads, CountsAttempt, Clears, Consumes, ReadsOwner,
     DropsPrior, StoresToken, Fails, Asks, Open
<1>3. CASE q \in Resets
  BY <1>3, MovesOfKind DEF ResetMoves, Resolves, SpendsToken, Changes, Fails, Asks, Open
<1>4. QED
  BY <1>1, <1>2, <1>3, RequestSets

\* A request that has arrived keeps what it asked for, what was answered
\* before it, and what it read; one that has not is as it was or arrives.
LEMMA BegunStay ==
  ASSUME TypeOK, [Next]_vars, NEW q \in Requests
  PROVE  /\ pc[q] # "idle" => /\ pc'[q] # "idle" /\ KeepsBody(q) /\ KeepsFound(q)
         /\ pc[q] = "idle" => Frozen(q) \/ (pc'[q] # "idle" /\ Asks(q))
<1> USE DEF Goes, Ends
<1>1. CASE Frozen(q)
  BY <1>1 DEF Frozen, KeepsBody, KeepsFound
<1>2. ASSUME q \in Forgots, ForgotMoves(q)
      PROVE  pc'[q] # "idle" /\ (Asks(q) \/ (pc[q] # "idle" /\ KeepsBody(q)))
  BY <1>2 DEF ForgotMoves, AsksCode, CountsSend, ExpiresSends, Stores, Fails, Open, AfterCount
<1>3. ASSUME q \in Verifies, VerifyMoves(q)
      PROVE  pc'[q] # "idle" /\ (Asks(q) \/ (pc[q] # "idle" /\ KeepsBody(q) /\ KeepsFound(q)))
  BY <1>3 DEF VerifyMoves, Reads, CountsAttempt, Clears, Consumes, ReadsOwner,
     DropsPrior, StoresToken, Fails, Open
<1>4. ASSUME q \in Resets, ResetMoves(q)
      PROVE  pc'[q] # "idle" /\ (Asks(q) \/ (pc[q] # "idle" /\ KeepsBody(q)))
  BY <1>4 DEF ResetMoves, Resolves, SpendsToken, Changes, Fails, Open
<1>5. Asks(q) => pc[q] = "idle"
  BY DEF Asks
<1>6. QED
  BY <1>1, <1>2, <1>3, <1>4, <1>5, RequestSets, MovesOfKind DEF KeepsFound

\* What may become of one request's fields.
Stages == {"idle", "done"} \union ForgotStages \union VerifyStages \union ResetStages

LEMMA ForgotFields ==
  ASSUME TypeOK, Bodies, [Next]_vars, NEW g \in Forgots
  PROVE  /\ pc'[g] \in {"idle", "done"} \union ForgotStages
         /\ resp'[g] \in {None, 200, 401, 500} /\ (pc'[g] = "done" <=> resp'[g] # None)
         /\ req'[g] \in {None} \union Body \union Verification \union [token : Verifies]
         /\ count'[g] \in Nat /\ past'[g] \in SUBSET Requests
<1> USE RequestSets, ResetAssumption
<1>1. /\ pc[g] \in {"idle", "done"} \union ForgotStages
      /\ resp[g] \in {None, 200, 401, 500} /\ (pc[g] = "done" <=> resp[g] # None)
      /\ req[g] \in {None} \union Body \union Verification \union [token : Verifies]
      /\ count[g] \in Nat /\ past[g] \in SUBSET Requests
  BY DEF TypeOK
<1>2. CASE Frozen(g)
  BY <1>1, <1>2 DEF Frozen
<1>3. CASE AsksCode(g)
  BY <1>1, <1>3 DEF AsksCode, Asks, Goes, Ends, ForgotStages, Done
<1>4. CASE CountsSend(g)
  <2>1. pc[g] = "count" /\ req[g].email \in Emails
    BY <1>4 DEF CountsSend, Bodies
  <2>2. sends[req[g].email].n \in Nat
    BY <2>1 DEF TypeOK
  <2>3. QED
    BY <1>1, <1>4, <2>1, <2>2 DEF CountsSend, KeepsBody, Goes, AfterCount, ForgotStages
<1>5. CASE ExpiresSends(g) \/ Stores(g) \/ Fails(g)
  BY <1>1, <1>5 DEF ExpiresSends, Stores, Fails, KeepsBody, KeepsCount, Goes, Ends, AfterCount,
     ForgotStages, Open
<1>6. QED
  BY <1>2, <1>3, <1>4, <1>5, MovesOfKind DEF ForgotMoves

\* What a key holds under an address.
LEMMA GuessedIsCode ==
  ASSUME TypeOK, NEW e \in Emails
  PROVE  /\ Guessed(otp[e]) \in Code
         /\ otp[e] = None => /\ Guessed(otp[e]).code = Blank /\ ~Guessed(otp[e]).ttl
                             /\ Guessed(otp[e]).attempts = 1
         /\ otp[e] # None => /\ otp[e] \in Code /\ Guessed(otp[e]).code = otp[e].code
                             /\ Guessed(otp[e]).ttl = otp[e].ttl
                             /\ Guessed(otp[e]).attempts = otp[e].attempts + 1
<1>1. otp[e] \in Code \union {None}
  BY DEF TypeOK
<1>2. CASE otp[e] = None
  BY <1>2 DEF Guessed, Code
<1>3. CASE otp[e] # None
  <2>1. otp[e] \in Code /\ Guessed(otp[e]) = [otp[e] EXCEPT !.attempts = otp[e].attempts + 1]
    BY <1>1, <1>3 DEF Guessed
  <2>2. QED
    BY <1>3, <2>1 DEF Code
<1>4. QED
  BY <1>2, <1>3

LEMMA VerifyFields ==
  ASSUME TypeOK, Bodies, [Next]_vars, NEW v \in Verifies
  PROVE  /\ pc'[v] \in {"idle", "done"} \union VerifyStages
         /\ resp'[v] \in {None, 200, 401, 500} /\ (pc'[v] = "done" <=> resp'[v] # None)
         /\ req'[v] \in {None} \union Body \union Verification \union [token : Verifies]
         /\ count'[v] \in Nat /\ past'[v] \in SUBSET Requests
         /\ found'[v] \in Code \union {None} /\ prior'[v] \in Verifies \union {None}
<1> USE RequestSets, ResetAssumption
<1>1. /\ pc[v] \in {"idle", "done"} \union VerifyStages
      /\ resp[v] \in {None, 200, 401, 500} /\ (pc[v] = "done" <=> resp[v] # None)
      /\ req[v] \in {None} \union Body \union Verification \union [token : Verifies]
      /\ count[v] \in Nat /\ past[v] \in SUBSET Requests
      /\ found[v] \in Code \union {None} /\ prior[v] \in Verifies \union {None}
  BY DEF TypeOK
<1>2. CASE Frozen(v)
  BY <1>1, <1>2 DEF Frozen
<1>3. CASE Reads(v)
  <2>1. req'[v].email \in Emails
    BY <1>3 DEF Reads, Verification
  <2>2. otp[req'[v].email] \in Code \union {None}
    BY <2>1 DEF TypeOK
  <2>3. past'[v] \in SUBSET Requests /\ count'[v] = count[v] /\ prior'[v] = prior[v] /\ pc[v] = "idle"
    BY <1>3 DEF Reads, Asks, Done, KeepsPrior
  <2>4. pc'[v] \in {"done", "consume", "attempt"} /\ (pc'[v] = "done" <=> resp'[v] # None)
        /\ resp'[v] \in {None, 401}
    BY <1>1, <1>3, <2>3 DEF Reads, Goes, Ends
  <2>5. QED
    BY <1>1, <1>3, <2>2, <2>3, <2>4 DEF Reads, VerifyStages
<1>4. CASE CountsAttempt(v)
  <2>1. pc[v] = "attempt" /\ req[v].email \in Emails
    BY <1>4 DEF CountsAttempt, Bodies
  <2>2. Guessed(otp[req[v].email]) \in Code
    BY <2>1, GuessedIsCode
  <2>3. count'[v] \in Nat
    BY <1>4, <2>2 DEF CountsAttempt, Code
  <2>4. QED
    BY <1>1, <1>4, <2>1, <2>3 DEF CountsAttempt, KeepsBody, KeepsFound, KeepsPrior, Goes, Ends,
       VerifyStages
<1>5. CASE Clears(v) \/ Consumes(v) \/ DropsPrior(v) \/ StoresToken(v) \/ Fails(v)
  BY <1>1, <1>5 DEF Clears, Consumes, DropsPrior, StoresToken, Fails, KeepsBody, KeepsFound,
     KeepsPrior, KeepsCount, Goes, Ends, Open, VerifyStages
<1>6. CASE ReadsOwner(v)
  <2>1. req[v].email \in Emails
    BY <1>6 DEF ReadsOwner, Bodies
  <2>2. owner[req[v].email] \in Verifies \union {None}
    BY <2>1 DEF TypeOK
  <2>3. QED
    BY <1>1, <1>6, <2>2 DEF ReadsOwner, KeepsBody, KeepsFound, KeepsCount, Goes, VerifyStages
<1>7. QED
  BY <1>2, <1>3, <1>4, <1>5, <1>6, MovesOfKind DEF VerifyMoves

LEMMA ResetFields ==
  ASSUME TypeOK, [Next]_vars, NEW s \in Resets
  PROVE  /\ pc'[s] \in {"idle", "done"} \union ResetStages
         /\ resp'[s] \in {None, 200, 401, 500} /\ (pc'[s] = "done" <=> resp'[s] # None)
         /\ req'[s] \in {None} \union Body \union Verification \union [token : Verifies]
         /\ count'[s] \in Nat /\ past'[s] \in SUBSET Requests
<1> USE RequestSets, ResetAssumption
<1>1. /\ pc[s] \in {"idle", "done"} \union ResetStages
      /\ resp[s] \in {None, 200, 401, 500} /\ (pc[s] = "done" <=> resp[s] # None)
      /\ req[s] \in {None} \union Body \union Verification \union [token : Verifies]
      /\ count[s] \in Nat /\ past[s] \in SUBSET Requests
  BY DEF TypeOK
<1>2. CASE Frozen(s)
  BY <1>1, <1>2 DEF Frozen
<1>3. CASE Resolves(s)
  BY <1>1, <1>3 DEF Resolves, Asks, Goes, Ends, ResetStages, Done
<1>4. CASE SpendsToken(s) \/ Changes(s) \/ Fails(s)
  BY <1>1, <1>4 DEF SpendsToken, Changes, Fails, KeepsBody, KeepsCount, Goes, Ends,
     ResetStages, Open
<1>5. QED
  BY <1>2, <1>3, <1>4, MovesOfKind DEF ResetMoves

\* Every variable of a request stays a function on its set.
Shape(f, S) == f = [x \in S |-> f[x]]
Shapes ==
  /\ Shape(pc, Requests) /\ Shape(req, Requests) /\ Shape(resp, Requests)
  /\ Shape(count, Requests) /\ Shape(past, Requests)
  /\ Shape(found, Verifies) /\ Shape(prior, Verifies)

LEMMA ShapesKept ==
  ASSUME TypeOK, [Next]_vars
  PROVE  Shapes'
<1>1. Shapes
  BY DEF TypeOK, Shapes, Shape
<1>3. ASSUME NEW r, NEW status, Finish(r, status) PROVE Shape(pc, Requests)' /\ Shape(resp, Requests)'
  BY <1>1, <1>3 DEF Finish, Shapes, Shape
<1>4. ASSUME NEW r, NEW label, Goto(r, label) PROVE Shape(pc, Requests)' /\ Shape(resp, Requests)'
  BY <1>1, <1>4 DEF Goto, Shapes, Shape
<1>5. ASSUME NEW r, NEW body, Arrive(r, body) PROVE Shape(req, Requests)' /\ Shape(past, Requests)'
  BY <1>1, <1>5 DEF Arrive, Shapes, Shape
<1>6. ASSUME NEW r, NEW status, Answer(r, status) PROVE Shape(pc, Requests)' /\ Shape(resp, Requests)'
  BY <1>3, <1>6 DEF Answer
<1>7. ASSUME UNCHANGED <<req, past>> PROVE Shape(req, Requests)' /\ Shape(past, Requests)'
  BY <1>1, <1>7 DEF Shapes
<1>8. ASSUME UNCHANGED local
      PROVE  Shape(count, Requests)' /\ Shape(found, Verifies)' /\ Shape(prior, Verifies)'
  BY <1>1, <1>8 DEF local, Shapes
<1>9. ASSUME NEW g \in Forgots, ForgotStep(g) PROVE Shapes'
  <2>1. CASE CheckCooldown(g)
    BY <1>3, <1>4, <1>5, <1>8, <2>1 DEF CheckCooldown, Shapes
  <2>2. CASE CountSend(g)
    <3>1. /\ Shape(count, Requests)' /\ found' = found /\ prior' = prior
          /\ req' = req /\ past' = past
      BY <1>1, <2>2 DEF CountSend, Shapes, Shape
    <3>2. \E label : Goto(g, label)
      BY <2>2 DEF CountSend
    <3>3. QED
      BY <1>1, <1>4, <3>1, <3>2 DEF Shapes
  <2>3. CASE ExpireSends(g)
    BY <1>4, <1>7, <1>8, <2>3 DEF ExpireSends, Shapes
  <2>4. CASE StoreCode(g) \/ StoreDummy(g)
    BY <1>6, <1>7, <1>8, <2>4 DEF StoreCode, StoreDummy, Store, Shapes
  <2>5. QED
    BY <1>9, <2>1, <2>2, <2>3, <2>4 DEF ForgotStep
<1>10. ASSUME NEW v \in Verifies, VerifyStep(v) PROVE Shapes'
  <2>1. CASE ReadOtp(v)
    <3>1. PICK e \in Emails, c \in Codes \union {None} :
            /\ Arrive(v, [email |-> e, code |-> c])
            /\ \/ Finish(v, 401) \/ Goto(v, "consume") \/ Goto(v, "attempt")
            /\ found' = [found EXCEPT ![v] = otp[e]]
            /\ UNCHANGED <<count, prior>>
      BY <2>1 DEF ReadOtp
    <3>2. Shape(found, Verifies)' /\ Shape(count, Requests)' /\ Shape(prior, Verifies)'
      BY <1>1, <3>1 DEF Shapes, Shape
    <3>3. QED
      BY <1>3, <1>4, <1>5, <3>1, <3>2 DEF Shapes
  <2>2. CASE CountAttempt(v)
    <3> DEFINE o == Guessed(otp[req[v].email])
    <3> HIDE DEF o
    <3>1. /\ count' = [count EXCEPT ![v] = o.attempts]
          /\ Goto(v, "clear") \/ Answer(v, 401)
          /\ UNCHANGED <<req, past, found, prior>>
      BY <2>2 DEF CountAttempt, o
    <3>2. Shape(count, Requests)' /\ Shape(found, Verifies)' /\ Shape(prior, Verifies)'
      BY <1>1, <3>1 DEF Shapes, Shape
    <3>3. QED
      BY <1>4, <1>6, <1>7, <3>1, <3>2 DEF Shapes
  <2>3. CASE ClearOtp(v) \/ StoreToken(v)
    BY <1>6, <1>7, <1>8, <2>3 DEF ClearOtp, StoreToken, Shapes
  <2>4. CASE ConsumeOtp(v) \/ DropPrior(v)
    BY <1>4, <1>7, <1>8, <2>4 DEF ConsumeOtp, DropPrior, Shapes
  <2>5. CASE ReadOwner(v)
    <3> DEFINE t == owner[req[v].email]
    <3> HIDE DEF t
    <3>1. /\ prior' = [prior EXCEPT ![v] = t]
          /\ \E label : Goto(v, label)
          /\ UNCHANGED <<req, past, found, count>>
      BY <2>5 DEF ReadOwner, t
    <3>2. Shape(count, Requests)' /\ Shape(found, Verifies)' /\ Shape(prior, Verifies)'
      BY <1>1, <3>1 DEF Shapes, Shape
    <3>3. QED
      BY <1>4, <1>7, <3>1, <3>2 DEF Shapes
  <2>6. QED
    BY <1>10, <2>1, <2>2, <2>3, <2>4, <2>5 DEF VerifyStep
<1>11. ASSUME NEW s \in Resets, ResetStep(s) PROVE Shapes'
  <2>1. CASE ResolveToken(s)
    BY <1>3, <1>4, <1>5, <1>8, <2>1 DEF ResolveToken, Shapes
  <2>2. CASE SpendToken(s)
    BY <1>4, <1>7, <1>8, <2>2 DEF SpendToken, Shapes
  <2>3. CASE ChangePassword(s)
    BY <1>6, <1>7, <1>8, <2>3 DEF ChangePassword, Shapes
  <2>4. QED
    BY <1>11, <2>1, <2>2, <2>3 DEF ResetStep
<1>12. ASSUME NEW r \in Requests, Fail(r) PROVE Shapes'
  BY <1>3, <1>7, <1>8, <1>12 DEF Fail, Shapes
<1>13. CASE Expiry
  BY <1>1, <1>13 DEF Expiry, ExpireOtp, ExpireCooldown, ExpireCounter, ExpireToken, Shapes, local
<1>14. CASE UNCHANGED vars
  BY <1>1, <1>14 DEF vars, Shapes, local
<1>15. QED
  BY <1>9, <1>10, <1>11, <1>12, <1>13, <1>14 DEF Next

\* Which steps write which keys.
CodeSteps ==
  \/ SameCodes
  \/ \E g \in Forgots : Moves(g) /\ Stores(g)
  \/ \E v \in Verifies : Moves(v) /\ (CountsAttempt(v) \/ Clears(v) \/ Consumes(v))
  \/ AllStay /\ \E e \in Emails : ExpireOtp(e)
WaitSteps ==
  \/ SameWaits
  \/ \E g \in Forgots : Moves(g) /\ Stores(g)
  \/ \E v \in Verifies : Moves(v) /\ Clears(v)
  \/ AllStay /\ \E e \in Emails : ExpireCooldown(e)
SendSteps ==
  \/ SameSends
  \/ \E g \in Forgots : Moves(g) /\ (CountsSend(g) \/ ExpiresSends(g))
  \/ AllStay /\ \E e \in Emails : ExpireCounter(e)
TokenSteps ==
  \/ SameTokens
  \/ \E v \in Verifies : Moves(v) /\ (DropsPrior(v) \/ StoresToken(v))
  \/ \E s \in Resets : Moves(s) /\ SpendsToken(s)
  \/ AllStay /\ \E t \in Verifies : ExpireToken(t)

LEMMA KeySteps ==
  ASSUME TypeOK, [Next]_vars
  PROVE  CodeSteps /\ WaitSteps /\ SendSteps /\ TokenSteps
<1> USE DEF CodeSteps, WaitSteps, SendSteps, TokenSteps
<1>1. CASE UNCHANGED vars
  BY <1>1 DEF vars, keys, SameCodes, SameWaits, SameSends, SameTokens
<1>2. CASE Expiry /\ AllStay
  <2>1. ASSUME NEW e \in Emails, ExpireOtp(e) PROVE SameWaits /\ SameSends /\ SameTokens
    BY <2>1 DEF ExpireOtp, SameWaits, SameSends, SameTokens
  <2>2. ASSUME NEW e \in Emails, ExpireCooldown(e) PROVE SameCodes /\ SameSends /\ SameTokens
    BY <2>2 DEF ExpireCooldown, SameCodes, SameSends, SameTokens
  <2>3. ASSUME NEW e \in Emails, ExpireCounter(e) PROVE SameCodes /\ SameWaits /\ SameTokens
    BY <2>3 DEF ExpireCounter, SameCodes, SameWaits, SameTokens
  <2>4. ASSUME NEW t \in Verifies, ExpireToken(t) PROVE SameCodes /\ SameWaits /\ SameSends
    BY <2>4 DEF ExpireToken, SameCodes, SameWaits, SameSends
  <2>5. QED
    BY <1>2, <2>1, <2>2, <2>3, <2>4 DEF Expiry
<1>3. ASSUME NEW g \in Forgots, Moves(g), ForgotMoves(g)
      PROVE  CodeSteps /\ WaitSteps /\ SendSteps /\ TokenSteps
  <2>1. CASE AsksCode(g) \/ Fails(g)
    BY <2>1 DEF AsksCode, Fails
  <2>2. CASE CountsSend(g) \/ ExpiresSends(g)
    BY <1>3, <2>2 DEF CountsSend, ExpiresSends
  <2>3. CASE Stores(g)
    BY <1>3, <2>3 DEF Stores
  <2>4. QED
    BY <1>3, <2>1, <2>2, <2>3 DEF ForgotMoves
<1>4. ASSUME NEW v \in Verifies, Moves(v), VerifyMoves(v)
      PROVE  CodeSteps /\ WaitSteps /\ SendSteps /\ TokenSteps
  <2>1. CASE Reads(v) \/ ReadsOwner(v) \/ Fails(v)
    BY <2>1 DEF Reads, ReadsOwner, Fails
  <2>2. CASE CountsAttempt(v) \/ Consumes(v)
    BY <1>4, <2>2 DEF CountsAttempt, Consumes
  <2>3. CASE Clears(v)
    BY <1>4, <2>3 DEF Clears
  <2>4. CASE DropsPrior(v) \/ StoresToken(v)
    BY <1>4, <2>4 DEF DropsPrior, StoresToken
  <2>5. QED
    BY <1>4, <2>1, <2>2, <2>3, <2>4 DEF VerifyMoves
<1>5. ASSUME NEW s \in Resets, Moves(s), ResetMoves(s)
      PROVE  CodeSteps /\ WaitSteps /\ SendSteps /\ TokenSteps
  <2>1. CASE Resolves(s) \/ Changes(s) \/ Fails(s)
    BY <2>1 DEF Resolves, Changes, Fails
  <2>2. CASE SpendsToken(s)
    BY <1>5, <2>2 DEF SpendsToken
  <2>3. QED
    BY <1>5, <2>1, <2>2 DEF ResetMoves
<1>6. ASSUME NEW r \in Requests, Moves(r)
      PROVE  CodeSteps /\ WaitSteps /\ SendSteps /\ TokenSteps
  <2> HIDE DEF CodeSteps, WaitSteps, SendSteps, TokenSteps
  <2>1. \/ r \in Forgots /\ ForgotMoves(r)
        \/ r \in Verifies /\ VerifyMoves(r)
        \/ r \in Resets /\ ResetMoves(r)
    BY <1>6 DEF Moves
  <2>2. QED
    BY <1>3, <1>4, <1>5, <1>6, <2>1
<1> HIDE DEF CodeSteps, WaitSteps, SendSteps, TokenSteps
<1>7. QED
  BY <1>1, <1>2, <1>6, StepsOfOne

-----------------------------------------------------------------------------
(* Types.                                                                   *)

LEMMA CodesTyped ==
  ASSUME TypeOK, Bodies, [Next]_vars
  PROVE  /\ otp' \in [Emails -> Code \union {None}]
         /\ \A e \in Emails : otp'[e] # None => (otp'[e].ttl <=> otp'[e].code # Blank)
         /\ lapsed' \subseteq Forgots \union {Dummy}
<1> USE ResetAssumption, CodeAssumption
<1>1. /\ otp \in [Emails -> Code \union {None}]
      /\ \A e \in Emails : otp[e] # None => (otp[e].ttl <=> otp[e].code # Blank)
      /\ lapsed \subseteq Forgots \union {Dummy}
  BY DEF TypeOK
<1>2. CASE SameCodes
  BY <1>1, <1>2 DEF SameCodes
<1>3. ASSUME NEW e \in Emails, NEW o \in Code \union {None}, otp' = [otp EXCEPT ![e] = o],
             o # None => (o.ttl <=> o.code # Blank)
      PROVE  /\ otp' \in [Emails -> Code \union {None}]
             /\ \A f \in Emails : otp'[f] # None => (otp'[f].ttl <=> otp'[f].code # Blank)
  BY <1>1, <1>3
<1>4. ASSUME NEW g \in Forgots, Stores(g)
      PROVE  /\ otp' \in [Emails -> Code \union {None}] /\ lapsed' = lapsed
             /\ \A e \in Emails : otp'[e] # None => (otp'[e].ttl <=> otp'[e].code # Blank)
  <2> DEFINE o == [code |-> CodeOf(g), attempts |-> 0, ttl |-> TRUE]
  <2>1. req[g].email \in Emails
    BY <1>4, RequestSets DEF Stores, Bodies
  <2>2. CodeOf(g) \in Forgots \union {Dummy}
    BY DEF CodeOf
  <2>3. o \in Code /\ o.ttl /\ o.code # Blank
    BY <2>2 DEF Code
  <2>4. otp' = [otp EXCEPT ![req[g].email] = o] /\ lapsed' = lapsed
    BY <1>4 DEF Stores
  <2> HIDE DEF o
  <2>5. QED
    BY <1>3, <2>1, <2>3, <2>4
<1>5. ASSUME NEW v \in Verifies, CountsAttempt(v) \/ Clears(v) \/ Consumes(v)
      PROVE  /\ otp' \in [Emails -> Code \union {None}] /\ lapsed' = lapsed
             /\ \A e \in Emails : otp'[e] # None => (otp'[e].ttl <=> otp'[e].code # Blank)
  <2>1. req[v].email \in Emails
    BY <1>5, RequestSets DEF CountsAttempt, Clears, Consumes, Bodies
  <2>2. CASE CountsAttempt(v)
    <3>1. /\ Guessed(otp[req[v].email]) \in Code
          /\ Guessed(otp[req[v].email]).ttl <=> Guessed(otp[req[v].email]).code # Blank
      <4>1. CASE otp[req[v].email] = None
        BY <2>1, <4>1, GuessedIsCode
      <4>2. CASE otp[req[v].email] # None
        BY <1>1, <2>1, <4>2, GuessedIsCode
      <4>3. QED
        BY <4>1, <4>2
    <3>2. lapsed' = lapsed /\ otp' = [otp EXCEPT ![req[v].email] = Guessed(otp[req[v].email])]
      BY <2>2 DEF CountsAttempt
    <3> DEFINE o == Guessed(otp[req[v].email])
    <3>3. /\ o \in Code \union {None} /\ otp' = [otp EXCEPT ![req[v].email] = o]
          /\ o # None => (o.ttl <=> o.code # Blank)
      BY <3>1, <3>2
    <3> HIDE DEF o
    <3>4. /\ otp' \in [Emails -> Code \union {None}]
          /\ \A e \in Emails : otp'[e] # None => (otp'[e].ttl <=> otp'[e].code # Blank)
      BY <1>3, <2>1, <3>3, ZenonT(40)
    <3>5. QED
      BY <3>2, <3>4
  <2>3. CASE Clears(v) \/ Consumes(v)
    BY <1>3, <2>1, <2>3 DEF Clears, Consumes
  <2>4. QED
    BY <1>5, <2>2, <2>3
<1>6. ASSUME NEW e \in Emails, ExpireOtp(e)
      PROVE  /\ otp' \in [Emails -> Code \union {None}]
             /\ \A f \in Emails : otp'[f] # None => (otp'[f].ttl <=> otp'[f].code # Blank)
             /\ lapsed' \subseteq Forgots \union {Dummy}
  <2>1. otp' = [otp EXCEPT ![e] = None] /\ lapsed' = lapsed \union {otp[e].code}
    BY <1>6 DEF ExpireOtp
  <2>2. otp[e] \in Code /\ otp[e].code # Blank
    BY <1>1, <1>6 DEF ExpireOtp
  <2>3. otp[e].code \in Forgots \union {Dummy}
    BY <2>2 DEF Code
  <2>4. QED
    BY <1>1, <1>3, <2>1, <2>3
<1>7. QED
  BY <1>1, <1>2, <1>4, <1>5, <1>6, KeySteps DEF CodeSteps

LEMMA OtherKeysTyped ==
  ASSUME TypeOK, Bodies, [Next]_vars
  PROVE  /\ cooldown' \in [Emails -> BOOLEAN]
         /\ sends' \in [Emails -> [n : Nat, ttl : BOOLEAN]]
         /\ resetToken' \in [Verifies -> Emails \union {None}]
         /\ owner' \in [Emails -> Verifies \union {None}]
<1>1. /\ cooldown \in [Emails -> BOOLEAN] /\ sends \in [Emails -> [n : Nat, ttl : BOOLEAN]]
      /\ resetToken \in [Verifies -> Emails \union {None}]
      /\ owner \in [Emails -> Verifies \union {None}]
  BY DEF TypeOK
<1>2. \A r \in Forgots \union Verifies : pc[r] # "idle" => req[r].email \in Emails
  BY DEF Bodies
<1>3. cooldown' \in [Emails -> BOOLEAN]
  BY <1>1, KeySteps DEF WaitSteps, SameWaits, Stores, Clears, ExpireCooldown
<1>4. sends' \in [Emails -> [n : Nat, ttl : BOOLEAN]]
  <2>1. ASSUME NEW g \in Forgots, CountsSend(g)
        PROVE  sends' \in [Emails -> [n : Nat, ttl : BOOLEAN]]
    <3>1. req[g].email \in Emails
      BY <1>2, <2>1 DEF CountsSend
    <3>2. sends[req[g].email].n + 1 \in Nat
      BY <1>1, <3>1
    <3>3. QED
      BY <1>1, <2>1, <3>1, <3>2 DEF CountsSend
  <2>2. ASSUME NEW g \in Forgots, ExpiresSends(g)
        PROVE  sends' \in [Emails -> [n : Nat, ttl : BOOLEAN]]
    BY <1>1, <2>2 DEF ExpiresSends
  <2>3. ASSUME NEW e \in Emails, ExpireCounter(e)
        PROVE  sends' \in [Emails -> [n : Nat, ttl : BOOLEAN]]
    BY <1>1, <2>3 DEF ExpireCounter
  <2>4. QED
    BY <1>1, <2>1, <2>2, <2>3, KeySteps DEF SendSteps, SameSends
<1>5. /\ resetToken' \in [Verifies -> Emails \union {None}]
      /\ owner' \in [Emails -> Verifies \union {None}]
  <2>1. ASSUME NEW v \in Verifies, DropsPrior(v) \/ StoresToken(v)
        PROVE  /\ resetToken' \in [Verifies -> Emails \union {None}]
               /\ owner' \in [Emails -> Verifies \union {None}]
    <3>1. req[v].email \in Emails
      BY <1>2, <2>1 DEF DropsPrior, StoresToken
    <3>2. QED
      BY <1>1, <2>1, <3>1 DEF DropsPrior, StoresToken
  <2>2. ASSUME NEW s \in Resets, SpendsToken(s)
        PROVE  /\ resetToken' \in [Verifies -> Emails \union {None}]
               /\ owner' \in [Emails -> Verifies \union {None}]
    BY <1>1, <2>2 DEF SpendsToken
  <2>3. ASSUME NEW t \in Verifies, ExpireToken(t)
        PROVE  /\ resetToken' \in [Verifies -> Emails \union {None}]
               /\ owner' \in [Emails -> Verifies \union {None}]
    BY <1>1, <2>3 DEF ExpireToken
  <2>4. QED
    BY <1>1, <2>1, <2>2, <2>3, KeySteps DEF TokenSteps, SameTokens
<1>6. QED
  BY <1>3, <1>4, <1>5

LEMMA TypesKept ==
  ASSUME TypeOK, Bodies, [Next]_vars
  PROVE  TypeOK'
<1>1. Shapes'
  BY ShapesKept
<1>2. ASSUME NEW r \in Requests
      PROVE  /\ pc'[r] \in Stages /\ resp'[r] \in {None, 200, 401, 500}
             /\ req'[r] \in {None} \union Body \union Verification \union [token : Verifies]
             /\ count'[r] \in Nat /\ past'[r] \in SUBSET Requests
             /\ (pc'[r] = "done" <=> resp'[r] # None)
  BY ForgotFields, VerifyFields, ResetFields, RequestSets DEF Stages
<1>3. /\ \A g \in Forgots : pc'[g] \in {"idle", "done"} \union ForgotStages
      /\ \A s \in Resets : pc'[s] \in {"idle", "done"} \union ResetStages
  BY ForgotFields, ResetFields
<1>4. \A v \in Verifies : /\ pc'[v] \in {"idle", "done"} \union VerifyStages
                          /\ found'[v] \in Code \union {None}
                          /\ prior'[v] \in Verifies \union {None}
  BY VerifyFields
<1>5. /\ pc' \in [Requests -> Stages] /\ resp' \in [Requests -> {None, 200, 401, 500}]
      /\ req' \in [Requests -> {None} \union Body \union Verification \union [token : Verifies]]
      /\ count' \in [Requests -> Nat] /\ past' \in [Requests -> SUBSET Requests]
      /\ found' \in [Verifies -> Code \union {None}]
      /\ prior' \in [Verifies -> Verifies \union {None}]
  BY <1>1, <1>2, <1>4 DEF Shapes, Shape
<1>6. QED
  BY <1>2, <1>3, <1>4, <1>5, CodesTyped, OtherKeysTyped DEF TypeOK, Stages

-----------------------------------------------------------------------------
(* What stays from step to step.                                            *)

LEMMA CodesStay ==
  ASSUME TypeOK, [Next]_vars
  PROVE  /\ Codes \subseteq Codes' /\ Codes \subseteq Forgots
         /\ \A c \in Codes : Frozen(c) /\ pc[c] = "done"
         /\ \A c \in Forgots : pc[c] # "done" => c \notin Codes
BY AnsweredStay, RequestSets DEF Codes, Frozen

LEMMA RelationsStay ==
  ASSUME TypeOK, [Next]_vars, NEW r \in Requests, NEW s \in Requests
  PROVE  /\ SameEmail(r, s) => SameEmail(r, s)'
         /\ Overlap(r, s) => Overlap(r, s)'
         /\ SameEmail(r, s)' /\ pc[r] # "idle" /\ pc[s] # "idle" => SameEmail(r, s)
         /\ Overlap(r, s)' /\ pc[r] # "idle" /\ pc[s] # "idle" => Overlap(r, s)
BY BegunStay DEF SameEmail, Overlap, KeepsBody

LEMMA DisplacedStays ==
  ASSUME TypeOK, [Next]_vars, NEW t \in Verifies, Displaced(t)
  PROVE  Displaced(t)'
BY RelationsStay, RequestSets DEF Displaced

LEMMA BodiesKept ==
  ASSUME TypeOK, Bodies, [Next]_vars
  PROVE  Bodies'
<1> USE RequestSets
<1>1. IsFiniteSet(Begun')
  <2>1. IsFiniteSet(Begun)
    BY DEF Bodies
  <2>2. CASE AllStay
    <3>1. Begun' = Begun
      BY <2>2 DEF Begun, AllStay, Frozen
    <3>2. QED
      BY <2>1, <3>1
  <2>3. ASSUME NEW r \in Requests, Moves(r) PROVE IsFiniteSet(Begun')
    <3>1. Begun' \subseteq Begun \union {r}
      BY <2>3 DEF Begun, Moves, OthersStay, Frozen
    <3>2. IsFiniteSet(Begun \union {r})
      BY <2>1, FS_AddElement
    <3>3. QED
      BY <3>1, <3>2, FS_Subset
  <2>4. QED
    BY <2>2, <2>3, StepsOfOne
<1>2. ASSUME NEW r \in Requests, NEW q \in past'[r] PROVE pc'[q] = "done"
  <2>1. past[r] \subseteq Requests /\ \A p \in past[r] : pc[p] = "done"
    BY DEF TypeOK, Bodies
  <2>2. past'[r] = past[r] \/ past'[r] \subseteq Done
    BY BegunStay DEF KeepsBody, Frozen, Asks
  <2>3. q \in Requests /\ pc[q] = "done"
    BY <1>2, <2>1, <2>2 DEF Done
  <2>4. QED
    BY <2>3, AnsweredStay DEF Frozen
<1>3. ASSUME NEW v \in Verifies, pc'[v] = "idle" PROVE found'[v] = None
  BY <1>3, BegunStay DEF Bodies, Frozen
<1>4. ASSUME NEW g \in Forgots, pc'[g] # "idle" PROVE req'[g].email \in Emails
  <2>1. CASE pc[g] # "idle"
    BY <2>1, BegunStay DEF Bodies, KeepsBody
  <2>2. CASE AsksCode(g)
    BY <2>2 DEF AsksCode, Body
  <2>3. QED
    BY <1>4, <2>1, <2>2, MovesOfKind DEF Frozen, ForgotMoves, CountsSend, ExpiresSends, Stores,
       Fails, Open
<1>5. ASSUME NEW v \in Verifies, pc'[v] # "idle"
      PROVE  req'[v].email \in Emails /\ req'[v].code \in Codes' \union {None}
  <2>1. CASE pc[v] # "idle"
    BY <2>1, BegunStay, CodesStay DEF Bodies, KeepsBody
  <2>2. CASE Reads(v)
    BY <2>2, CodesStay DEF Reads, Verification
  <2>3. QED
    BY <1>5, <2>1, <2>2, MovesOfKind DEF Frozen, VerifyMoves, CountsAttempt, Clears, Consumes,
       ReadsOwner, DropsPrior, StoresToken, Fails, Open
<1>6. ASSUME NEW s \in Resets, pc'[s] # "idle"
      PROVE  req'[s].token \in Verifies /\ resp'[req'[s].token] = 200
  <2>1. PICK t \in Verifies : t = req'[s].token /\ resp[t] = 200
    <3>1. CASE pc[s] # "idle"
      BY <3>1, BegunStay DEF Bodies, KeepsBody, Answered
    <3>2. CASE Resolves(s)
      BY <3>2 DEF Resolves
    <3>3. QED
      BY <1>6, <3>1, <3>2, MovesOfKind DEF Frozen, ResetMoves, SpendsToken, Changes, Fails, Open
  <2>2. pc[t] = "done"
    BY <2>1, ResetAssumption DEF TypeOK
  <2>3. QED
    BY <2>1, <2>2, AnsweredStay DEF Frozen
<1>7. QED
  BY <1>1, <1>2, <1>3, <1>4, <1>5, <1>6 DEF Bodies, Answered

-----------------------------------------------------------------------------
(* How far a request got, and what it counted.                              *)

\* Where an answer is, the handler has ended.
LEMMA AnsweredIsDone ==
  ASSUME TypeOK, NEW r \in Requests
  PROVE  /\ resp[r] \in {200, 401, 500} => pc[r] = "done"
         /\ pc[r] # "done" => ~Answered(r, 200) /\ ~Answered(r, 401)
BY ResetAssumption DEF TypeOK, Answered

LEMMA SendingsKept ==
  ASSUME TypeOK, Bodies, Sendings, [Next]_vars
  PROVE  Sendings'
<1> SUFFICES ASSUME NEW g \in Forgots
             PROVE  /\ pc'[g] \in {"idle", "count"} => count'[g] = 0
                    /\ pc'[g] = "expire" => count'[g] = 1
                    /\ pc'[g] = "store" => count'[g] \in 1 .. MaxSends
                    /\ pc'[g] = "dummy" => \/ count'[g] > MaxSends
                                           \/ count'[g] = 0 /\ req'[g].email \notin Registered
                    /\ pc'[g] \in {"count", "expire", "store"} \/ count'[g] > 0 =>
                         req'[g].email \in Registered
  BY DEF Sendings, Passed
<1> USE RequestSets, ResetAssumption
<1>1. /\ pc[g] \in {"idle", "count"} => count[g] = 0
      /\ pc[g] = "expire" => count[g] = 1
      /\ pc[g] = "store" => count[g] \in 1 .. MaxSends
      /\ pc[g] = "dummy" => \/ count[g] > MaxSends
                            \/ count[g] = 0 /\ req[g].email \notin Registered
      /\ pc[g] \in {"count", "expire", "store"} \/ count[g] > 0 => req[g].email \in Registered
  BY DEF Sendings, Passed
<1>2. CASE Frozen(g)
  BY <1>1, <1>2 DEF Frozen
<1>3. CASE AsksCode(g)
  BY <1>1, <1>3 DEF AsksCode, Asks, Goes, Ends
<1>4. CASE CountsSend(g)
  <2>1. sends[req[g].email].n \in Nat
    BY <1>4 DEF CountsSend, Bodies, TypeOK
  <2>2. count'[g] \in Nat /\ count'[g] > 0 /\ pc[g] = "count" /\ KeepsBody(g)
        /\ pc'[g] = IF count'[g] = 1 THEN "expire" ELSE AfterCount(count'[g])
    BY <1>4, <2>1 DEF CountsSend, Goes
  <2>3. QED
    BY <1>1, <2>2 DEF KeepsBody, AfterCount
<1>5. CASE ExpiresSends(g)
  BY <1>1, <1>5 DEF ExpiresSends, KeepsBody, KeepsCount, Goes, AfterCount
<1>6. CASE Stores(g) \/ Fails(g)
  <2>1. pc'[g] = "done" /\ KeepsBody(g) /\ KeepsCount(g)
    BY <1>6 DEF Stores, Fails, Ends
  <2>2. QED
    BY <1>1, <2>1 DEF KeepsBody, KeepsCount
<1>7. QED
  BY <1>2, <1>3, <1>4, <1>5, <1>6, MovesOfKind DEF ForgotMoves

LEMMA VerificationsKept ==
  ASSUME TypeOK, Bodies, Verifications, TypeOK', [Next]_vars
  PROVE  Verifications'
<1> SUFFICES ASSUME NEW v \in Verifies PROVE Verifying(v)'
  BY DEF Verifications
<1> USE RequestSets, ResetAssumption DEF Answered
<1>1. Verifying(v) /\ count[v] \in Nat
  BY DEF Verifications, TypeOK
<1>2. /\ resp[v] \in {None, 200, 401, 500} /\ (pc[v] = "done" <=> resp[v] # None)
      /\ found[v] \in Code \union {None}
  BY RequestTypes
<1>3. CASE Frozen(v)
  BY <1>1, <1>3 DEF Frozen, Verifying, Accepts, Read
<1>4. CASE Reads(v)
  <2>0. pc[v] = "idle" /\ count'[v] = count[v]
    BY <1>4 DEF Reads, Asks
  <2>1. pc[v] = "idle" /\ count'[v] = 0 /\ resp[v] = None
    BY <1>1, <1>2, <2>0 DEF Verifying
  <2>2. CASE Ends(v, {401})
    <3>1. found'[v] = None \/ found'[v].attempts >= MaxAttempts
      BY <1>4, <2>2 DEF Reads, Ends, Goes
    <3>2. QED
      BY <2>1, <2>2, <3>1 DEF Ends, Verifying, Accepts
  <2>3. CASE ~Ends(v, {401})
    <3>1. /\ found'[v] # None /\ resp'[v] = None
          /\ \/ found'[v].code = req'[v].code /\ pc'[v] = "consume"
             \/ found'[v].code # req'[v].code /\ pc'[v] = "attempt"
      BY <1>4, <2>1, <2>3 DEF Reads, Goes
    <3>2. found'[v] \in Code /\ req'[v].code \in Forgots \union {None}
      <4>1. found'[v] \in Code \union {None}
        BY DEF TypeOK
      <4>2. QED
        BY <1>4, <3>1, <4>1, CodesStay DEF Reads
    <3>3. found'[v].code = req'[v].code => req'[v].code \in Forgots
      BY <3>2 DEF Code
    <3>4. QED
      BY <2>1, <3>1, <3>3 DEF Verifying, Accepts, Read
  <2>4. QED
    BY <2>2, <2>3
<1>5. CASE CountsAttempt(v)
  <2>1. pc[v] = "attempt" /\ req[v].email \in Emails /\ resp[v] = None
    BY <1>2, <1>5 DEF CountsAttempt, Bodies
  <2>2. Guessed(otp[req[v].email]).attempts > 0
    <3>1. otp[req[v].email] # None => otp[req[v].email].attempts \in Nat
      BY <2>1 DEF TypeOK, Code
    <3>2. QED
      BY <2>1, <3>1, GuessedIsCode
  <2>3. count'[v] > 0 /\ req'[v] = req[v] /\ found'[v] = found[v]
        /\ \/ count'[v] >= MaxAttempts /\ pc'[v] = "clear" /\ resp'[v] = None
           \/ pc'[v] = "done" /\ resp'[v] \in {401, 500}
    BY <1>5, <2>1, <2>2 DEF CountsAttempt, KeepsBody, KeepsFound, Goes, Ends
  <2>4. QED
    BY <1>1, <2>1, <2>3 DEF Verifying, Accepts, Read
<1>6. CASE Clears(v)
  <2>1. /\ pc[v] = "clear" /\ pc'[v] = "done" /\ resp'[v] \in {401, 500}
        /\ count'[v] = count[v] /\ count[v] > 0
    BY <1>1, <1>6 DEF Clears, KeepsCount, Ends, Verifying
  <2>2. QED
    BY <2>1 DEF Verifying, Accepts
<1>7. CASE Consumes(v) \/ ReadsOwner(v) \/ DropsPrior(v) \/ StoresToken(v)
  <2>1. /\ Accepts(v) /\ count[v] = 0
        /\ count'[v] = count[v] /\ found'[v] = found[v] /\ req'[v] = req[v]
    BY <1>1, <1>7 DEF Consumes, ReadsOwner, DropsPrior, StoresToken, KeepsBody, KeepsFound,
       KeepsCount, Verifying, Accepts
  <2>2. /\ pc'[v] \in {"owner", "drop", "token", "done"} /\ resp'[v] # 401
    BY <1>2, <1>7 DEF Consumes, ReadsOwner, DropsPrior, StoresToken, Goes, Ends
  <2>3. QED
    BY <1>1, <2>1, <2>2 DEF Verifying, Accepts, Read
<1>8. CASE Fails(v)
  BY <1>8 DEF Fails, Ends, Verifying, Accepts
<1>9. QED
  BY <1>3, <1>4, <1>5, <1>6, <1>7, <1>8, MovesOfKind DEF VerifyMoves

\* What a step may do to a verification's claims: one that accepts a code, or
\* refuses it, did so before or has just read the key.
LEMMA ClaimSteps ==
  ASSUME TypeOK, Bodies, Verifications, [Next]_vars, NEW v \in Verifies
  PROVE  /\ Accepts(v)' => Accepts(v) \/ (Reads(v) /\ Goes(v, "consume"))
         /\ Consumed(v)' => Consumed(v) \/ Consumes(v)
         /\ Refuses(v)' =>
              Refuses(v) \/ (Reads(v) /\ (Ends(v, {401}) \/ Goes(v, "attempt")))
<1> USE RequestSets, ResetAssumption DEF Answered, Accepts, Consumed, Refuses
<1>1. resp[v] \in {None, 200, 401, 500} /\ (pc[v] = "done" <=> resp[v] # None)
  BY RequestTypes
<1>2. CASE Frozen(v)
  BY <1>2 DEF Frozen
<1>3. CASE Reads(v)
  BY <1>1, <1>3 DEF Reads, Asks, Goes, Ends
<1>4. CASE CountsAttempt(v) \/ Clears(v) \/ Fails(v)
  BY <1>1, <1>4 DEF CountsAttempt, Clears, Fails, Goes, Ends
<1>5. CASE Consumes(v) \/ ReadsOwner(v) \/ DropsPrior(v) \/ StoresToken(v)
  BY <1>1, <1>5 DEF Consumes, ReadsOwner, DropsPrior, StoresToken, Goes, Ends
<1>6. QED
  BY <1>2, <1>3, <1>4, <1>5, MovesOfKind DEF VerifyMoves

\* A counter without expiry has a request that is to give it one, or failed to.
Freezer(g, e) ==
  /\ pc[g] # "idle" /\ req[g].email = e /\ count[g] = 1
  /\ pc[g] = "expire" \/ Answered(g, 500)

LEMMA FreezerKept ==
  ASSUME TypeOK, Bodies, OnlyFailureFreezesCounter, [Next]_vars
  PROVE  OnlyFailureFreezesCounter'
<1> SUFFICES ASSUME NEW e \in Emails, sends'[e].n > 0, ~sends'[e].ttl
             PROVE  \E g \in Forgots : Freezer(g, e)'
  BY DEF OnlyFailureFreezesCounter, Freezer
<1> USE RequestSets, ResetAssumption
<1>1. ASSUME sends[e].n > 0, ~sends[e].ttl PROVE \E g \in Forgots : Freezer(g, e)
  BY <1>1 DEF OnlyFailureFreezesCounter, Freezer
<1>2. ASSUME NEW g \in Forgots, Freezer(g, e), Frozen(g) PROVE Freezer(g, e)'
  BY <1>2 DEF Freezer, Frozen, Answered
<1>3. ASSUME NEW g \in Forgots, Freezer(g, e), ~ExpiresSends(g) PROVE Freezer(g, e)'
  <2>1. CASE Fails(g)
    BY <1>3, <2>1 DEF Freezer, Fails, KeepsBody, KeepsCount, Ends, Answered
  <2>2. CASE Frozen(g)
    BY <1>2, <1>3, <2>2
  <2>3. ~AsksCode(g) /\ ~CountsSend(g) /\ ~Stores(g)
    <3>1. pc[g] \in {"expire", "done"}
      BY <1>3, RequestTypes DEF Freezer, Answered
    <3>2. QED
      BY <3>1 DEF AsksCode, CountsSend, Stores, Asks
  <2>4. QED
    BY <1>3, <2>1, <2>2, <2>3, MovesOfKind DEF ForgotMoves
<1>4. CASE SameSends
  <2>1. sends[e].n > 0 /\ ~sends[e].ttl
    BY <1>4 DEF SameSends
  <2>2. PICK g \in Forgots : Freezer(g, e)
    BY <1>1, <2>1
  <2>3. ~ExpiresSends(g)
    BY <1>4, <2>1, <2>2, Domains DEF ExpiresSends, SameSends, Freezer, TypeOK
  <2>4. QED
    BY <1>3, <2>2, <2>3
<1>5. ASSUME NEW g \in Forgots, Moves(g), CountsSend(g)
      PROVE  \E h \in Forgots : Freezer(h, e)'
  <2> DEFINE f == req[g].email
  <2>1. /\ pc[g] = "count" /\ f \in Emails /\ req'[g] = req[g]
        /\ count'[g] = sends[f].n + 1 /\ sends' = [sends EXCEPT ![f].n = count'[g]]
        /\ pc'[g] = IF count'[g] = 1 THEN "expire" ELSE AfterCount(count'[g])
    BY <1>5 DEF CountsSend, Bodies, KeepsBody, Goes
  <2>2. sends[e] \in [n : Nat, ttl : BOOLEAN] /\ sends[f] \in [n : Nat, ttl : BOOLEAN]
    BY <2>1 DEF TypeOK
  <2>3. sends'[e].ttl = sends[e].ttl /\ (e # f => sends'[e].n = sends[e].n)
    BY <2>1, <2>2, Domains
  <2>4. CASE e = f /\ sends[e].n = 0
    BY <2>1, <2>4 DEF Freezer
  <2>5. CASE ~(e = f /\ sends[e].n = 0)
    <3>1. sends[e].n > 0 /\ ~sends[e].ttl
      BY <2>2, <2>3, <2>5
    <3>2. PICK h \in Forgots : Freezer(h, e)
      BY <1>1, <3>1
    <3>3. h # g
      BY <2>1, <3>2, RequestTypes DEF Freezer, Answered
    <3>4. QED
      BY <1>2, <1>5, <3>2, <3>3 DEF Moves, OthersStay
  <2>6. QED
    BY <2>4, <2>5
<1>6. ASSUME NEW g \in Forgots, Moves(g), ExpiresSends(g)
      PROVE  \E h \in Forgots : Freezer(h, e)'
  <2>1. req[g].email \in Emails /\ sends' = [sends EXCEPT ![req[g].email].ttl = TRUE]
    BY <1>6 DEF ExpiresSends, Bodies
  <2>2. e # req[g].email
    BY <2>1, Domains DEF TypeOK
  <2>3. sends[e].n > 0 /\ ~sends[e].ttl
    BY <2>1, <2>2, Domains
  <2>4. PICK h \in Forgots : Freezer(h, e)
    BY <1>1, <2>3
  <2>5. QED
    BY <1>2, <1>6, <2>2, <2>4 DEF Freezer, Moves, OthersStay
<1>7. ASSUME NEW f \in Emails, AllStay, ExpireCounter(f)
      PROVE  \E h \in Forgots : Freezer(h, e)'
  <2>1. sends' = [sends EXCEPT ![f] = [n |-> 0, ttl |-> FALSE]]
    BY <1>7 DEF ExpireCounter
  <2>2. sends[e].n > 0 /\ ~sends[e].ttl
    BY <2>1, Domains
  <2>3. QED
    BY <1>1, <1>2, <1>7, <2>2 DEF AllStay
<1>8. QED
  BY <1>4, <1>5, <1>6, <1>7, KeySteps DEF SendSteps

-----------------------------------------------------------------------------
(* Reset tokens.                                                            *)

\* A token that was issued does not come back.
LEMMA TokensFall ==
  ASSUME TypeOK, [Next]_vars, NEW t \in Verifies, pc[t] = "done", resetToken'[t] # None
  PROVE  resetToken[t] = resetToken'[t]
<1>1. ASSUME NEW v \in Verifies, DropsPrior(v) \/ StoresToken(v)
      PROVE  resetToken[t] = resetToken'[t]
  BY <1>1, Domains DEF DropsPrior, StoresToken
<1>2. ASSUME NEW s \in Resets, SpendsToken(s) PROVE resetToken[t] = resetToken'[t]
  BY <1>2, Domains DEF SpendsToken
<1>3. ASSUME NEW u \in Verifies, ExpireToken(u) PROVE resetToken[t] = resetToken'[t]
  BY <1>3, Domains DEF ExpireToken
<1>4. QED
  BY <1>1, <1>2, <1>3, KeySteps DEF TokenSteps, SameTokens

Owned(t) ==
  /\ pc[t] = "done" /\ resetToken[t] = req[t].email
  /\ owner[req[t].email] = t \/ Displaced(t)
Yields(w, t) ==
  /\ pc[w] = "drop" => prior[w] = t \/ Displaced(t)
  /\ pc[w] = "token" \/ Answered(w, 200) => Displaced(t)

LEMMA OwnedTokens ==
  TokensAreOwned <=>
    /\ \A t \in Verifies : resetToken[t] # None => Owned(t)
    /\ \A w \in Verifies : \A t \in past[w] \intersect Verifies :
         SameEmail(t, w) /\ resetToken[t] # None => Yields(w, t)
BY DEF TokensAreOwned, Owned, Yields

\* Storing a token displaces those of the address that are not its own prior.
LEMMA NewOwner ==
  ASSUME TypeOK, Bodies, TokensAreOwned, [Next]_vars,
         NEW v \in Verifies, StoresToken(v), NEW t \in Verifies \ {v},
         resetToken[t] # None, req[t].email = req[v].email
  PROVE  Displaced(t)'
<1>1. pc[t] = "done" /\ pc[v] = "token"
  BY OwnedTokens DEF Owned, StoresToken
<1>2. SameEmail(t, v)
  BY <1>1 DEF SameEmail
<1>3. CASE t \in past[v]
  <2>1. Yields(v, t)
    BY <1>2, <1>3, OwnedTokens
  <2>2. QED
    BY <1>1, <2>1, DisplacedStays DEF Yields
<1>4. CASE t \notin past[v]
  <2>1. v \notin past[t]
    BY <1>1, RequestSets DEF Bodies
  <2>2. Displaced(t)
    BY <1>1, <1>2, <1>4, <2>1 DEF Overlap, Displaced
  <2>3. QED
    BY <2>2, DisplacedStays
<1>5. QED
  BY <1>3, <1>4

LEMMA OwnedKept ==
  ASSUME TypeOK, Bodies, TokensAreOwned, [Next]_vars, NEW t \in Verifies, resetToken'[t] # None
  PROVE  Owned(t)'
<1> USE RequestSets
<1>1. ASSUME resetToken[t] = resetToken'[t]
      PROVE  /\ Owned(t) /\ Frozen(t) /\ req[t].email \in Emails
             /\ Displaced(t) => Displaced(t)'
  <2>1. Owned(t)
    BY <1>1, OwnedTokens
  <2>2. Frozen(t)
    BY <2>1, AnsweredStay DEF Owned
  <2>3. QED
    BY <2>1, <2>2, DisplacedStays DEF Owned, Bodies
<1>2. ASSUME resetToken[t] = resetToken'[t], owner'[req[t].email] = owner[req[t].email]
      PROVE  Owned(t)'
  BY <1>1, <1>2 DEF Owned, Frozen
<1>3. ASSUME NEW v \in Verifies, DropsPrior(v) PROVE Owned(t)'
  BY <1>2, <1>3, Domains DEF DropsPrior
<1>4. ASSUME NEW v \in Verifies, StoresToken(v) PROVE Owned(t)'
  <2>1. /\ pc[v] = "token" /\ req[v].email \in Emails /\ req'[v] = req[v] /\ pc'[v] = "done"
        /\ resetToken' = [resetToken EXCEPT ![v] = req[v].email]
        /\ owner' = [owner EXCEPT ![req[v].email] = v]
    BY <1>4 DEF StoresToken, Bodies, KeepsBody, Ends
  <2>2. CASE t = v
    BY <2>1, <2>2, Domains DEF Owned
  <2>3. CASE t # v
    <3>1. resetToken[t] = resetToken'[t]
      BY <2>1, <2>3, Domains
    <3>2. CASE req[t].email = req[v].email
      <4>1. Displaced(t)'
        BY <1>4, <2>3, <3>1, <3>2, NewOwner
      <4>2. QED
        BY <1>1, <3>1, <4>1 DEF Owned, Frozen
    <3>3. CASE req[t].email # req[v].email
      BY <1>1, <1>2, <2>1, <3>1, <3>3, Domains
    <3>4. QED
      BY <3>2, <3>3
  <2>4. QED
    BY <2>2, <2>3
<1>5. ASSUME NEW s \in Resets, SpendsToken(s) PROVE Owned(t)'
  BY <1>2, <1>5, Domains DEF SpendsToken
<1>6. ASSUME NEW u \in Verifies, ExpireToken(u) PROVE Owned(t)'
  <2>1. t # u /\ resetToken[t] = resetToken'[t]
    BY <1>6, Domains DEF ExpireToken
  <2>2. owner[req[t].email] = t => owner'[req[t].email] = t
    BY <1>1, <1>6, <2>1 DEF ExpireToken
  <2>3. QED
    BY <1>1, <2>1, <2>2 DEF Owned, Frozen
<1>7. CASE SameTokens
  BY <1>2, <1>7 DEF SameTokens
<1>8. QED
  BY <1>3, <1>4, <1>5, <1>6, <1>7, KeySteps DEF TokenSteps

LEMMA YieldsKept ==
  ASSUME TypeOK, Bodies, TokensAreOwned, [Next]_vars,
         NEW w \in Verifies, NEW t \in past'[w] \intersect Verifies,
         SameEmail(t, w)', resetToken'[t] # None
  PROVE  Yields(w, t)'
<1> USE RequestSets, ResetAssumption
<1>1. pc[t] = "done"
  <2>1. past'[w] = past[w] \/ past'[w] \subseteq Done
    BY BegunStay DEF KeepsBody, Frozen, Asks
  <2>2. QED
    BY <2>1 DEF Bodies, Done
<1>2. Owned(t) /\ resetToken[t] # None
  BY <1>1, TokensFall, OwnedTokens
<1>3. Displaced(t) => Displaced(t)'
  BY DisplacedStays
<1>4. ASSUME pc[w] # "idle" PROVE Yields(w, t) /\ SameEmail(t, w)
  <2>1. SameEmail(t, w) /\ t \in past[w]
    BY <1>1, <1>4, RelationsStay, BegunStay DEF KeepsBody
  <2>2. QED
    BY <1>2, <2>1, OwnedTokens
<1>5. resp[w] \in {None, 200, 401, 500} /\ (pc[w] = "done" <=> resp[w] # None)
  BY RequestTypes
<1>6. CASE Frozen(w)
  <2>1. pc[w] \in {"drop", "token"} \/ Answered(w, 200) => Yields(w, t)
    BY <1>4, <1>5 DEF Answered
  <2>2. QED
    BY <1>3, <1>6, <2>1 DEF Yields, Frozen, Answered
<1>7. CASE ReadsOwner(w)
  <2>1. pc[w] = "owner" /\ prior'[w] = owner[req[w].email] /\ resp'[w] = resp[w] /\ resp[w] = None
        /\ \/ prior'[w] = None /\ pc'[w] = "token"
           \/ prior'[w] # None /\ pc'[w] = "drop"
    BY <1>5, <1>7 DEF ReadsOwner, Goes
  <2>2. req[t].email = req[w].email
    BY <1>4, <2>1 DEF SameEmail
  <2>3. owner[req[w].email] = t \/ Displaced(t)
    BY <1>2, <2>2 DEF Owned
  <2>4. QED
    BY <1>3, <2>1, <2>3 DEF Yields, Answered
<1>8. CASE DropsPrior(w)
  <2>1. /\ pc[w] = "drop" /\ pc'[w] = "token"
        /\ resetToken' = [resetToken EXCEPT ![prior[w]] = None]
    BY <1>8 DEF DropsPrior, Goes
  <2>2. prior[w] # t
    BY <2>1, Domains
  <2>3. QED
    BY <1>3, <1>4, <2>1, <2>2 DEF Yields
<1>9. CASE StoresToken(w)
  <2>1. pc[w] = "token" /\ pc'[w] = "done"
    BY <1>9 DEF StoresToken, Ends
  <2>2. QED
    BY <1>3, <1>4, <2>1 DEF Yields
<1>10. CASE Reads(w) \/ CountsAttempt(w) \/ Clears(w) \/ Consumes(w) \/ Fails(w)
  <2>1. pc'[w] \notin {"drop", "token"} /\ resp'[w] # 200
    <3>1. Reads(w) => resp[w] = None
      BY <1>5 DEF Reads, Asks
    <3>2. QED
      BY <1>5, <1>10, <3>1 DEF Reads, CountsAttempt, Clears, Consumes, Fails, Goes, Ends
  <2>2. QED
    BY <2>1 DEF Yields, Answered
<1>11. QED
  BY <1>6, <1>7, <1>8, <1>9, <1>10, MovesOfKind DEF VerifyMoves

LEMMA TokensAreOwnedKept ==
  ASSUME TypeOK, Bodies, TokensAreOwned, [Next]_vars
  PROVE  TokensAreOwned'
<1>1. \A t \in Verifies : resetToken'[t] # None => Owned(t)'
  BY OwnedKept
<1>2. \A w \in Verifies : \A t \in past'[w] \intersect Verifies :
        SameEmail(t, w)' /\ resetToken'[t] # None => Yields(w, t)'
  BY YieldsKept
<1>3. QED
  BY <1>1, <1>2 DEF TokensAreOwned, Owned, Yields

\* What a reset that got past its token relies on.
LEMMA UnspentKept ==
  ASSUME TypeOK, Bodies, TypeOK', [Next]_vars, NEW s \in Resets, NEW t \in Verifies,
         pc[t] = "done", past[s] \subseteq Done, Unspent(s, t), past'[s] = past[s]
  PROVE  Unspent(s, t)'
<1> USE RequestSets
<1>1. ASSUME NEW r \in past[s] \intersect Resets PROVE Frozen(r)
  BY AnsweredStay DEF Done
<1>2. ASSUME NEW u \in past[s] \intersect Verifies
      PROVE  Frozen(u) /\ (SameEmail(t, u)' => SameEmail(t, u))
  BY AnsweredStay, RelationsStay DEF Done
<1>3. ASSUME NEW r \in past'[s] \intersect Resets, req'[r].token = t
      PROVE  ~Answered(r, 200)'
  BY <1>1, <1>3 DEF Unspent, Frozen, Answered
<1>4. ASSUME NEW u \in past'[s] \intersect Verifies, t \in past'[u], resp'[u] = 200,
             SameEmail(t, u)'
      PROVE  Displaced(t)'
  <2>1. t \in past[u] /\ resp[u] = 200 /\ SameEmail(t, u)
    BY <1>2, <1>4 DEF Frozen
  <2>2. Displaced(t)
    BY <1>4, <2>1 DEF Unspent, Answered
  <2>3. QED
    BY <2>2, DisplacedStays
<1>5. QED
  BY <1>3, <1>4 DEF Unspent, Answered

LEMMA TokensAreSpentKept ==
  ASSUME TypeOK, Bodies, TokensAreOwned, TokensAreSpent, TypeOK', [Next]_vars
  PROVE  TokensAreSpent'
<1> USE RequestSets, ResetAssumption
<1>1. ASSUME NEW s \in Resets, pc[s] # "idle"
      PROVE  /\ req'[s] = req[s] /\ past'[s] = past[s] /\ past[s] \subseteq Done
             /\ req[s].token \in Verifies /\ pc[req[s].token] = "done"
             /\ Frozen(req[s].token)
  <2>1. req[s].token \in Verifies /\ resp[req[s].token] = 200
    BY <1>1 DEF Bodies, Answered
  <2>2. pc[req[s].token] = "done"
    BY <2>1, RequestTypes
  <2>3. past[s] \subseteq Done
    BY RequestTypes DEF Bodies, Done
  <2>4. QED
    BY <1>1, <2>1, <2>2, <2>3, BegunStay, AnsweredStay DEF KeepsBody
<1>2. ASSUME NEW r \in Resets, pc'[r] = "change" \/ resp'[r] = 200
      PROVE  resetToken'[req'[r].token] = None
  <2>1. pc[r] = "change" \/ resp[r] = 200 \/ SpendsToken(r)
    <3>1. CASE Frozen(r)
      BY <1>2, <3>1 DEF Frozen
    <3>2. CASE ResetMoves(r)
      <4>1. ~Resolves(r) /\ ~Fails(r)
        BY <1>2, RequestTypes DEF Resolves, Fails, Asks, Goes, Ends
      <4>2. QED
        BY <3>2, <4>1 DEF ResetMoves, Changes
    <3>3. QED
      BY <3>1, <3>2, MovesOfKind
  <2>2. pc[r] # "idle"
    BY <2>1, RequestTypes DEF SpendsToken
  <2>3. CASE SpendsToken(r)
    BY <1>1, <2>2, <2>3, Domains DEF SpendsToken
  <2>4. CASE ~SpendsToken(r)
    <3>1. resetToken[req[r].token] = None
      BY <2>1, <2>4 DEF TokensAreSpent, Answered
    <3>2. QED
      BY <1>1, <2>2, <3>1, TokensFall
  <2>5. QED
    BY <2>3, <2>4
<1>3. ASSUME NEW s \in Resets, Opens(s)' PROVE \E t \in Verifies : t = req'[s].token /\ Unspent(s, t)'
  <2>1. CASE Opens(s)
    <3>1. pc[s] # "idle"
      BY <2>1, RequestTypes DEF Opens, Answered
    <3>2. PICK t \in Verifies : t = req[s].token
      BY <1>1, <3>1
    <3>3. Unspent(s, t)
      BY <2>1, <3>2 DEF TokensAreSpent
    <3>4. Unspent(s, t)'
      BY <1>1, <3>1, <3>2, <3>3, UnspentKept
    <3>5. QED
      BY <1>1, <3>1, <3>2, <3>4
  <2>2. CASE Resolves(s) /\ Goes(s, "spend")
    <3>1. PICK t \in Verifies : t = req'[s].token /\ resp[t] = 200 /\ resetToken[t] # None
      BY <2>2 DEF Resolves, Goes, Ends
    <3>2. pc[t] = "done" /\ past'[s] \subseteq Done
      BY <2>2, <3>1, RequestTypes DEF Resolves, Asks
    <3>3. ASSUME NEW r \in past'[s] \intersect Resets, req'[r].token = t
          PROVE  ~Answered(r, 200)'
      <4>1. Frozen(r)
        BY <3>2, AnsweredStay DEF Done
      <4>2. resp[r] # 200
        BY <3>1, <3>3, <4>1 DEF TokensAreSpent, Answered, Frozen
      <4>3. QED
        BY <4>1, <4>2 DEF Frozen, Answered
    <3>4. ASSUME NEW u \in past'[s] \intersect Verifies, t \in past'[u], resp'[u] = 200,
                 SameEmail(t, u)'
          PROVE  Displaced(t)'
      <4>1. Frozen(u) /\ pc[u] = "done"
        BY <3>2, AnsweredStay DEF Done
      <4>2. t \in past[u] /\ resp[u] = 200 /\ SameEmail(t, u)
        BY <3>2, <3>4, <4>1, RelationsStay DEF Frozen
      <4>3. Yields(u, t)
        BY <3>1, <4>2, OwnedTokens
      <4>4. QED
        BY <4>2, <4>3, DisplacedStays DEF Yields, Answered
    <3>5. QED
      BY <3>1, <3>3, <3>4 DEF Unspent, Answered
  <2>3. Opens(s) \/ (Resolves(s) /\ Goes(s, "spend"))
    <3>1. resp[s] \in {None, 200, 401, 500} /\ (pc[s] = "done" <=> resp[s] # None)
      BY RequestTypes
    <3>2. CASE Frozen(s)
      BY <1>3, <3>2 DEF Frozen, Opens, Answered
    <3>3. CASE SpendsToken(s) \/ Changes(s) \/ Fails(s)
      BY <1>3, <3>1, <3>3 DEF SpendsToken, Changes, Fails, Opens, Answered, Goes, Ends
    <3>4. CASE Resolves(s)
      BY <1>3, <3>1, <3>4 DEF Resolves, Opens, Answered, Goes, Ends
    <3>5. QED
      BY <3>2, <3>3, <3>4, MovesOfKind DEF ResetMoves
  <2>4. QED
    BY <2>1, <2>2, <2>3
<1>4. QED
  BY <1>2, <1>3 DEF TokensAreSpent, Answered

-----------------------------------------------------------------------------
(* Codes.                                                                   *)

\* A code that is stored now was stored before, with a guess more or the same
\* number on its counter, or has just been drawn.
LEMMA HoldSteps ==
  ASSUME TypeOK, Bodies, [Next]_vars, NEW e \in Emails, NEW c \in Forgots, Holds(e, c)'
  PROVE  \/ Holds(e, c) /\ otp'[e] = otp[e]
         \/ /\ Holds(e, c) /\ otp'[e].attempts = otp[e].attempts + 1
            /\ \E v \in Verifies : Moves(v) /\ CountsAttempt(v) /\ req[v].email = e
         \/ /\ Moves(c) /\ Stores(c) /\ pc[c] = "store" /\ req[c].email = e
            /\ otp'[e].attempts = 0
<1> USE RequestSets, ResetAssumption
<1>1. ASSUME otp'[e] = otp[e] PROVE Holds(e, c)
  BY <1>1 DEF Holds
<1>2. CASE SameCodes
  BY <1>1, <1>2 DEF SameCodes
<1>3. ASSUME NEW g \in Forgots, Moves(g), Stores(g), otp'[e] # otp[e]
      PROVE  g = c /\ pc[c] = "store" /\ req[c].email = e /\ otp'[e].attempts = 0
  <2>1. /\ pc[g] \in {"store", "dummy"}
        /\ otp' = [otp EXCEPT ![req[g].email] =
                     [code |-> CodeOf(g), attempts |-> 0, ttl |-> TRUE]]
    BY <1>3 DEF Stores
  <2>2. e = req[g].email /\ otp'[e] = [code |-> CodeOf(g), attempts |-> 0, ttl |-> TRUE]
    BY <1>3, <2>1, Domains
  <2>3. CodeOf(g) = c
    BY <2>2 DEF Holds
  <2>4. QED
    BY <2>1, <2>2, <2>3 DEF CodeOf
<1>4. ASSUME NEW v \in Verifies, Moves(v), CountsAttempt(v), otp'[e] # otp[e]
      PROVE  Holds(e, c) /\ otp'[e].attempts = otp[e].attempts + 1 /\ req[v].email = e
  <2>1. otp' = [otp EXCEPT ![req[v].email] = Guessed(otp[req[v].email])]
    BY <1>4 DEF CountsAttempt
  <2>2. e = req[v].email /\ otp'[e] = Guessed(otp[e])
    BY <1>4, <2>1, Domains
  <2>3. otp[e] # None
    BY <2>2, GuessedIsCode DEF Holds
  <2>4. QED
    BY <2>2, <2>3, GuessedIsCode DEF Holds
<1>5. ASSUME NEW v \in Verifies, Clears(v) \/ Consumes(v) PROVE otp'[e] = otp[e]
  <2>1. otp' = [otp EXCEPT ![req[v].email] = None]
    BY <1>5 DEF Clears, Consumes
  <2>2. QED
    BY <2>1, Domains DEF Holds
<1>6. ASSUME NEW f \in Emails, ExpireOtp(f) PROVE otp'[e] = otp[e]
  <2>1. otp' = [otp EXCEPT ![f] = None]
    BY <1>6 DEF ExpireOtp
  <2>2. QED
    BY <2>1, Domains DEF Holds
<1>7. QED
  BY <1>1, <1>2, <1>3, <1>4, <1>5, <1>6, KeySteps DEF CodeSteps

LEMMA CodesAreDrawnKept ==
  ASSUME TypeOK, Bodies, Sendings, CodesAreDrawn, [Next]_vars
  PROVE  CodesAreDrawn'
<1> USE RequestSets, ResetAssumption
<1>1. ASSUME NEW c \in Forgots, NEW e \in Emails, Holds(e, c)'
      PROVE  c \in Codes' /\ req'[c].email = e
  <2>1. CASE Holds(e, c)
    <3>1. c \in Codes /\ req[c].email = e
      BY <2>1 DEF CodesAreDrawn
    <3>2. QED
      BY <3>1, CodesStay DEF Frozen
  <2>2. CASE Stores(c) /\ pc[c] = "store" /\ req[c].email = e
    <3>1. count[c] \in 1 .. MaxSends
      BY <2>2 DEF Sendings
    <3>2. pc'[c] = "done" /\ count'[c] = count[c] /\ req'[c] = req[c]
      BY <2>2 DEF Stores, Ends, KeepsCount, KeepsBody
    <3>3. QED
      BY <2>2, <3>1, <3>2 DEF Codes
  <2>3. QED
    BY <1>1, <2>1, <2>2, HoldSteps
<1>2. ASSUME NEW c \in Forgots, NEW v \in Verifies, Read(v, c)'
      PROVE  c \in Codes' /\ SameEmail(c, v)'
  <2>1. CASE Read(v, c)
    <3>1. c \in Codes /\ SameEmail(c, v)
      BY <2>1 DEF CodesAreDrawn
    <3>2. QED
      BY <3>1, CodesStay, RelationsStay
  <2>2. CASE Reads(v)
    <3>1. /\ req'[v].email \in Emails /\ found'[v] = otp[req'[v].email]
          /\ pc[v] = "idle"
      BY <2>2 DEF Reads, Verification, Asks
    <3>2. Holds(req'[v].email, c)
      BY <1>2, <3>1 DEF Read, Holds
    <3>3. c \in Codes /\ req[c].email = req'[v].email
      BY <3>1, <3>2 DEF CodesAreDrawn
    <3>4. Frozen(c) /\ pc[c] = "done" /\ c \in Codes'
      BY <3>3, CodesStay
    <3>5. pc'[v] # "idle"
      BY <2>2 DEF Reads, Goes, Ends
    <3>6. QED
      BY <3>3, <3>4, <3>5 DEF SameEmail, Frozen
  <2>3. Read(v, c) \/ Reads(v)
    BY <1>2, MovesOfKind DEF Read, Frozen, VerifyMoves, CountsAttempt, Clears, Consumes,
       ReadsOwner, DropsPrior, StoresToken, Fails, KeepsFound
  <2>4. QED
    BY <2>1, <2>2, <2>3
<1>3. QED
  BY <1>1, <1>2 DEF CodesAreDrawn

LEMMA CodesAreGoneKept ==
  ASSUME TypeOK, Bodies, Sendings, Verifications, CodesAreDrawn, CodesAreGone, [Next]_vars
  PROVE  CodesAreGone'
<1> USE RequestSets, ResetAssumption
\* Of a code that is already drawn, storing it again is out of the question.
<1>1. ASSUME NEW e \in Emails, NEW c \in Forgots, pc[c] = "done", Holds(e, c)'
      PROVE  Holds(e, c)
  BY <1>1, HoldSteps
<1>2. ASSUME NEW v \in Verifies, Accepts(v)
      PROVE  /\ Read(v, req[v].code) /\ req[v].code \in Codes /\ pc[req[v].code] = "done"
             /\ req'[v] = req[v] /\ past'[v] = past[v] /\ pc[v] # "idle"
             /\ req[req[v].code].email = req[v].email
  <2>1. Read(v, req[v].code) /\ req[v].code \in Forgots
    BY <1>2 DEF Verifications, Verifying
  <2>2. req[v].code \in Codes /\ SameEmail(req[v].code, v)
    BY <2>1 DEF CodesAreDrawn
  <2>3. QED
    BY <2>1, <2>2, CodesStay, BegunStay DEF SameEmail, KeepsBody
<1>3. ASSUME NEW v \in Verifies, NEW e \in Emails, Consumed(v)', NEW c, c = req'[v].code,
             Holds(e, c)'
      PROVE  FALSE
  <2>1. Accepts(v)
    BY <1>3, ClaimSteps DEF Consumed, Accepts, Consumes
  <2>2. c = req[v].code /\ c \in Forgots /\ pc[c] = "done" /\ req[c].email = req[v].email
    BY <1>2, <1>3, <2>1, CodesStay
  <2>3. Holds(e, c)
    BY <1>1, <1>3, <2>2
  <2>4. CASE Consumed(v)
    BY <2>2, <2>3, <2>4 DEF CodesAreGone
  <2>5. CASE Consumes(v)
    <3>1. req[c].email = e
      BY <2>2, <2>3 DEF CodesAreDrawn
    <3>2. otp'[e] = None
      BY <2>2, <2>5, <3>1, Domains DEF Consumes
    <3>3. QED
      BY <1>3, <3>2 DEF Holds
  <2>6. QED
    BY <1>3, <2>4, <2>5, ClaimSteps
<1>4. ASSUME NEW g \in Forgots, resp'[g] = 200, count'[g] > 0, NEW e, e = req'[g].email,
             NEW c \in past'[g] \intersect Forgots, Holds(e, c)'
      PROVE  FALSE
  <2>1. pc[g] # "idle" /\ (Frozen(g) \/ Stores(g))
    <3>1. resp[g] \in {None, 200, 401, 500} /\ (pc[g] = "done" <=> resp[g] # None)
          /\ (pc[g] = "idle" => count[g] = 0)
      BY RequestTypes DEF Sendings
    <3>2. ~AsksCode(g) /\ ~CountsSend(g) /\ ~ExpiresSends(g) /\ ~Fails(g)
      BY <1>4, <3>1 DEF AsksCode, CountsSend, ExpiresSends, Fails, Asks, Goes, Ends
    <3>3. QED
      BY <1>4, <3>1, <3>2, MovesOfKind DEF ForgotMoves, Frozen, Stores
  <2>2. req'[g] = req[g] /\ past'[g] = past[g] /\ e \in Emails
    BY <1>4, <2>1, BegunStay DEF KeepsBody, Bodies
  <2>3. pc[c] = "done" /\ Holds(e, c)
    BY <1>1, <1>4, <2>2 DEF Bodies
  <2>4. CASE Frozen(g)
    <3>1. resp[g] = 200 /\ count[g] > 0
      BY <1>4, <2>4 DEF Frozen
    <3>2. QED
      BY <1>4, <2>2, <2>3, <3>1 DEF CodesAreGone, Answered, Passed
  <2>5. CASE Stores(g)
    <3>1. otp'[e] = [code |-> CodeOf(g), attempts |-> 0, ttl |-> TRUE] /\ pc[g] # "done"
      BY <1>4, <2>2, <2>5, Domains DEF Stores
    <3>2. CodeOf(g) = c
      BY <1>4, <3>1 DEF Holds
    <3>3. QED
      BY <2>3, <3>1, <3>2 DEF CodeOf
  <2>6. QED
    BY <2>1, <2>4, <2>5
<1>5. ASSUME NEW v \in Verifies, Accepts(v)'
      PROVE  /\ \A w \in past'[v] \intersect Verifies : resp'[w] = 200 => req'[w].code # req'[v].code
             /\ \A g \in past'[v] \intersect Forgots :
                  resp'[g] = 200 /\ SameEmail(g, v)' /\ count'[g] > 0 => req'[v].code \notin past'[g]
  <2>1. \A q \in past'[v] : pc[q] = "done" /\ Frozen(q)
    <3>1. past'[v] = past[v] \/ past'[v] \subseteq Done
      BY BegunStay DEF KeepsBody, Frozen, Asks
    <3>2. \A q \in past'[v] : q \in Requests /\ pc[q] = "done"
      BY <3>1, RequestTypes DEF Bodies, Done
    <3>3. QED
      BY <3>2, AnsweredStay
  <2>2. CASE Accepts(v)
    <3>1. req'[v] = req[v] /\ past'[v] = past[v] /\ pc[v] # "idle"
      BY <1>2, <2>2
    <3>2. /\ \A w \in past[v] \intersect Verifies : resp[w] = 200 => req[w].code # req[v].code
          /\ \A g \in past[v] \intersect Forgots :
               resp[g] = 200 /\ SameEmail(g, v) /\ count[g] > 0 => req[v].code \notin past[g]
      BY <2>2 DEF CodesAreGone, Answered, Passed
    <3>3. \A g \in past[v] \intersect Forgots : SameEmail(g, v)' => SameEmail(g, v)
      BY <2>1, <3>1, RelationsStay
    <3>4. QED
      BY <2>1, <3>1, <3>2, <3>3 DEF Frozen
  <2>3. CASE Reads(v) /\ Goes(v, "consume")
    <3>1. PICK e \in Emails, c \in Codes \union {None} :
            e = req'[v].email /\ c = req'[v].code /\ found'[v] = otp[e] /\ found'[v] # None
            /\ found'[v].code = c
      BY <2>3 DEF Reads, Verification, Goes, Ends
    <3>2. Holds(e, c)
      BY <3>1 DEF Holds
    <3>3. ASSUME NEW w \in past'[v] \intersect Verifies, resp'[w] = 200 PROVE req'[w].code # c
      <4>1. Consumed(w) /\ req'[w] = req[w]
        BY <2>1, <3>3 DEF Consumed, Frozen, Answered
      <4>2. QED
        BY <3>2, <4>1 DEF CodesAreGone
    <3>4. ASSUME NEW g \in past'[v] \intersect Forgots, resp'[g] = 200, SameEmail(g, v)',
                 count'[g] > 0, c \in past'[g]
          PROVE  FALSE
      <4>1. /\ resp[g] = 200 /\ count[g] > 0 /\ c \in past[g] /\ req[g].email = e
        BY <2>1, <3>1, <3>4 DEF Frozen, SameEmail
      <4>2. c \in Forgots
        <5>1. c # None
          BY <3>2, RequestTypes, <4>1, CodeAssumption DEF Holds, TypeOK, Code
        <5>2. QED
          BY <3>1, <5>1, CodesStay
      <4>3. QED
        BY <3>2, <4>1, <4>2 DEF CodesAreGone, Answered, Passed
    <3>5. QED
      BY <3>1, <3>3, <3>4
  <2>4. QED
    BY <1>5, <2>2, <2>3, ClaimSteps
<1>6. QED
  BY <1>3, <1>4, <1>5 DEF CodesAreGone, Answered, Passed

-----------------------------------------------------------------------------
(* A lockout lifts the cooldown.                                            *)

\* Only a request for a code sets the cooldown, with its last command.
LEMMA CooldownSteps ==
  ASSUME TypeOK, [Next]_vars, NEW e \in Emails, cooldown'[e]
  PROVE  cooldown[e] \/ \E h \in Forgots : Stores(h) /\ req[h].email = e
<1>1. ASSUME NEW h \in Forgots, Stores(h) PROVE cooldown[e] \/ req[h].email = e
  <2>1. cooldown' = [cooldown EXCEPT ![req[h].email] = TRUE]
    BY <1>1 DEF Stores
  <2>2. QED
    BY <2>1, Domains
<1>2. ASSUME NEW v \in Verifies, Clears(v) PROVE cooldown[e]
  <2>1. cooldown' = [cooldown EXCEPT ![req[v].email] = FALSE]
    BY <1>2 DEF Clears
  <2>2. QED
    BY <2>1, Domains
<1>3. ASSUME NEW f \in Emails, ExpireCooldown(f) PROVE cooldown[e]
  <2>1. cooldown' = [cooldown EXCEPT ![f] = FALSE]
    BY <1>3 DEF ExpireCooldown
  <2>2. QED
    BY <2>1, Domains
<1>4. QED
  BY <1>1, <1>2, <1>3, KeySteps DEF WaitSteps, SameWaits

LEMMA LockoutsEndCooldownKept ==
  ASSUME TypeOK, Bodies, Verifications, LockoutsEndCooldown, [Next]_vars
  PROVE  LockoutsEndCooldown'
<1> USE RequestSets, ResetAssumption
<1> SUFFICES ASSUME NEW v \in Verifies, resp'[v] = 401, count'[v] >= MaxAttempts,
                    NEW e, e = req'[v].email, cooldown'[e]
             PROVE  \E h \in Forgots : SameEmail(v, h)' /\ h \notin past'[v] /\ pc'[h] = "done"
  BY DEF LockoutsEndCooldown, Answered
<1>1. CASE pc[v] = "done"
  <2>1. Frozen(v) /\ past'[v] = past[v]
    BY <1>1, AnsweredStay DEF Frozen
  <2>2. resp[v] = 401 /\ count[v] >= MaxAttempts /\ e = req[v].email /\ e \in Emails
    BY <1>1, <2>1 DEF Frozen, Bodies
  <2>3. CASE cooldown[e]
    <3>1. PICK h \in Forgots : SameEmail(v, h) /\ h \notin past[v] /\ pc[h] = "done"
      BY <2>2, <2>3 DEF LockoutsEndCooldown, Answered
    <3>2. SameEmail(v, h)' /\ pc'[h] = "done"
      BY <3>1, RelationsStay, AnsweredStay DEF Frozen
    <3>3. QED
      BY <2>1, <3>1, <3>2
  <2>4. CASE ~cooldown[e]
    <3>1. PICK h \in Forgots : Stores(h) /\ req[h].email = e
      BY <2>2, <2>4, CooldownSteps
    <3>2. pc[h] \notin {"idle", "done"} /\ pc'[h] = "done"
      BY <3>1 DEF Stores, Ends
    <3>3. SameEmail(v, h)
      BY <1>1, <2>2, <3>1, <3>2 DEF SameEmail
    <3>4. SameEmail(v, h)'
      BY <3>3, RelationsStay
    <3>5. h \notin past[v]
      BY <3>2 DEF Bodies
    <3>6. QED
      BY <2>1, <3>2, <3>4, <3>5
  <2>5. QED
    BY <2>3, <2>4
<1>2. CASE pc[v] # "done"
  <2>1. resp[v] # 401 /\ (pc[v] = "idle" => count[v] = 0)
    BY <1>2, RequestTypes DEF Verifications, Verifying
  <2>2. ~Frozen(v) /\ ~CountsAttempt(v) /\ ~Fails(v)
    <3>1. count'[v] \in Nat
      BY VerifyFields
    <3>2. QED
      BY <2>1, <3>1 DEF Frozen, CountsAttempt, Fails, Goes, Ends
  <2>3. ~Reads(v)
    BY <2>1 DEF Reads, Asks
  <2>4. ~Consumes(v) /\ ~ReadsOwner(v) /\ ~DropsPrior(v) /\ ~StoresToken(v)
    BY <2>1 DEF Consumes, ReadsOwner, DropsPrior, StoresToken, Goes, Ends
  <2>5. ~Clears(v)
    <3>1. ASSUME Clears(v) PROVE FALSE
      <4>1. /\ req'[v] = req[v] /\ pc[v] # "idle"
            /\ cooldown' = [cooldown EXCEPT ![req[v].email] = FALSE]
        BY <3>1 DEF Clears, KeepsBody
      <4>2. e \in Emails
        BY <4>1 DEF Bodies
      <4>3. QED
        BY <4>1, <4>2, Domains
    <3>2. QED
      BY <3>1
  <2>6. QED
    BY <2>2, <2>3, <2>4, <2>5, MovesOfKind DEF VerifyMoves
<1>3. QED
  BY <1>1, <1>2

LEMMA LockoutUnblocksKept ==
  ASSUME TypeOK, Bodies, Sendings, LockoutsEndCooldown, LockoutUnblocks, [Next]_vars
  PROVE  LockoutUnblocks'
<1> USE RequestSets, ResetAssumption
<1> SUFFICES ASSUME NEW v \in Verifies, NEW g \in Forgots, resp'[v] = 401,
                    count'[v] >= MaxAttempts, v \in past'[g], SameEmail(v, g)',
                    req'[g].email \in Registered, resp'[g] = 200
             PROVE  count'[g] > 0 \/ \E h \in Forgots \ {g} : SameEmail(g, h)' /\ h \notin past'[v]
  BY DEF LockoutUnblocks, Answered, Passed
<1>1. pc[v] = "done" /\ Frozen(v)
  <2>1. past'[g] = past[g] \/ past'[g] \subseteq Done
    BY BegunStay DEF KeepsBody, Frozen, Asks
  <2>2. pc[v] = "done"
    BY <2>1 DEF Bodies, Done
  <2>3. QED
    BY <2>2, AnsweredStay
<1>2. resp[v] = 401 /\ count[v] >= MaxAttempts /\ req'[v] = req[v] /\ past'[v] = past[v]
  BY <1>1 DEF Frozen
<1>3. CASE Frozen(g)
  <2>1. /\ v \in past[g] /\ SameEmail(v, g) /\ req[g].email \in Registered /\ resp[g] = 200
        /\ count'[g] = count[g]
    BY <1>1, <1>3 DEF Frozen, SameEmail
  <2>2. count[g] > 0 \/ \E h \in Forgots \ {g} : SameEmail(g, h) /\ h \notin past[v]
    BY <1>2, <2>1 DEF LockoutUnblocks, Answered, Passed
  <2>3. QED
    BY <1>2, <2>1, <2>2, RelationsStay
<1>4. CASE AsksCode(g)
  <2>1. pc[g] = "idle" /\ resp[g] # 200
    BY <1>4, RequestTypes DEF AsksCode, Asks
  <2>2. cooldown[req'[g].email] /\ pc'[g] = "done"
    BY <1>4, <2>1 DEF AsksCode, Goes, Ends
  <2>3. req'[g].email = req[v].email
    BY <1>2 DEF SameEmail
  <2>4. PICK h \in Forgots : SameEmail(v, h) /\ h \notin past[v] /\ pc[h] = "done"
    BY <1>2, <2>2, <2>3 DEF LockoutsEndCooldown, Answered
  <2>5. Frozen(h) /\ h # g
    BY <2>1, <2>4, AnsweredStay
  <2>6. SameEmail(g, h)'
    BY <2>2, <2>3, <2>4, <2>5 DEF SameEmail, Frozen
  <2>7. QED
    BY <1>2, <2>4, <2>5, <2>6
<1>5. CASE Stores(g)
  <2>1. pc[g] \in {"store", "dummy"} /\ req'[g] = req[g] /\ count'[g] = count[g]
    BY <1>5 DEF Stores, KeepsBody, KeepsCount
  <2>2. count[g] \in Nat
    BY RequestTypes
  <2>3. pc[g] = "store" => count[g] \in 1 .. MaxSends
    BY DEF Sendings
  <2>4. pc[g] = "dummy" => count[g] > MaxSends
    BY <2>1 DEF Sendings
  <2>5. QED
    BY <2>1, <2>2, <2>3, <2>4
<1>6. ~CountsSend(g) /\ ~ExpiresSends(g) /\ ~Fails(g)
  BY RequestTypes DEF CountsSend, ExpiresSends, Fails, Goes, Ends
<1>7. QED
  BY <1>3, <1>4, <1>5, <1>6, MovesOfKind DEF ForgotMoves

-----------------------------------------------------------------------------
(* Wrong guesses are counted.                                               *)

LEMMA ReadSteps ==
  ASSUME TypeOK, [Next]_vars, NEW w \in Verifies, NEW c \in Forgots, Read(w, c)'
  PROVE  \/ Read(w, c) /\ found'[w] = found[w]
         \/ /\ Reads(w) /\ req'[w].email \in Emails /\ Holds(req'[w].email, c)
            /\ found'[w] = otp[req'[w].email]
<1>1. ASSUME found'[w] = found[w] PROVE Read(w, c)
  BY <1>1 DEF Read
<1>2. CASE Reads(w)
  <2>1. found'[w] = otp[req'[w].email] /\ req'[w].email \in Emails
    BY <1>2 DEF Reads, Verification
  <2>2. Holds(req'[w].email, c)
    BY <2>1 DEF Read, Holds
  <2>3. QED
    BY <1>2, <2>1, <2>2
<1>3. Reads(w) \/ found'[w] = found[w]
  BY MovesOfKind DEF Frozen, VerifyMoves, CountsAttempt, Clears, Consumes, ReadsOwner,
     DropsPrior, StoresToken, Fails, KeepsFound
<1>4. QED
  BY <1>1, <1>2, <1>3

\* A verification joins the guesses at a code as it counts its attempt.
LEMMA GuessSteps ==
  ASSUME TypeOK, Bodies, Verifications, [Next]_vars, NEW c \in Forgots
  PROVE  /\ IsFiniteSet(Guesses(c))
         /\ \A w \in Guesses(c)' : w \in Guesses(c) \/ (CountsAttempt(w) /\ Read(w, c))
<1> USE RequestSets
<1>1. IsFiniteSet(Guesses(c))
  <2>1. Guesses(c) \subseteq Begun
    BY DEF Guesses, Begun, Verifications, Verifying
  <2>2. IsFiniteSet(Begun)
    BY DEF Bodies
  <2>3. QED
    BY <2>1, <2>2, FS_Subset
<1>2. ASSUME NEW w \in Verifies, Read(w, c)', count'[w] > 0
      PROVE  Read(w, c) /\ (count[w] > 0 \/ CountsAttempt(w))
  <2>1. ~Reads(w)
    BY <1>2 DEF Reads, Asks, Verifications, Verifying
  <2>2. Read(w, c)
    BY <1>2, <2>1, ReadSteps
  <2>3. CountsAttempt(w) \/ count'[w] = count[w]
    BY <2>1, MovesOfKind DEF Frozen, VerifyMoves, Clears, Consumes, ReadsOwner, DropsPrior,
       StoresToken, Fails, KeepsCount
  <2>4. QED
    BY <1>2, <2>2, <2>3
<1>3. QED
  BY <1>1, <1>2 DEF Guesses

LEMMA CountersCover ==
  ASSUME TypeOK, Bodies, Sendings, Verifications, CodesAreDrawn, GuessesAreCounted, [Next]_vars,
         NEW e \in Emails, NEW c \in Forgots, Holds(e, c)'
  PROVE  /\ Cardinality(Guesses(c)') <= otp'[e].attempts
         /\ \A w \in Verifies : Read(w, c)' => found'[w].attempts <= otp'[e].attempts
<1> USE RequestSets
<1>1. /\ Holds(e, c) => /\ Cardinality(Guesses(c)) <= otp[e].attempts
                        /\ \A w \in Verifies : Read(w, c) => found[w].attempts <= otp[e].attempts
      /\ Holds(e, c) => req[c].email = e /\ otp[e].attempts \in Nat
  <2>1. Holds(e, c) => req[c].email = e
    BY DEF CodesAreDrawn
  <2>2. Holds(e, c) => otp[e].attempts \in Nat
    BY DEF TypeOK, Holds, Code
  <2>3. QED
    BY <2>1, <2>2 DEF GuessesAreCounted
<1>2. IsFiniteSet(Guesses(c)) /\ Cardinality(Guesses(c)) \in Nat
  BY GuessSteps, FS_CardinalityType
<1>3. \A w \in Verifies : Read(w, c) => c \in Codes /\ SameEmail(c, w) /\ found[w].attempts \in Nat
  <2>1. \A w \in Verifies : found[w] \in Code \union {None}
    BY RequestTypes
  <2>2. QED
    BY <2>1 DEF CodesAreDrawn, Read, Code
<1>4. CASE Holds(e, c) /\ otp'[e] = otp[e]
  <2>1. Guesses(c)' \subseteq Guesses(c)
    <3>1. ASSUME NEW w \in Verifies, CountsAttempt(w), Read(w, c) PROVE FALSE
      <4>1. req[w].email = e
        BY <1>1, <1>3, <1>4, <3>1 DEF SameEmail
      <4>2. otp'[e] = Guessed(otp[e])
        BY <3>1, <4>1, Domains DEF CountsAttempt
      <4>3. otp[e] # None
        BY <1>4 DEF Holds
      <4>4. Guessed(otp[e]).attempts = otp[e].attempts + 1
        BY <4>3, GuessedIsCode
      <4>5. otp[e].attempts \in Nat
        BY <1>1, <1>4
      <4>6. otp[e].attempts = otp[e].attempts + 1
        BY <1>4, <4>2, <4>4
      <4>7. QED
        BY <4>5, <4>6
    <3>2. QED
      BY <3>1, GuessSteps DEF Guesses
  <2>2. Cardinality(Guesses(c)') <= Cardinality(Guesses(c)) /\ Cardinality(Guesses(c)') \in Nat
    BY <1>2, <2>1, FS_Subset, FS_CardinalityType
  <2>3. ASSUME NEW w \in Verifies, Read(w, c)' PROVE found'[w].attempts <= otp'[e].attempts
    <3>1. CASE Read(w, c) /\ found'[w] = found[w]
      BY <1>1, <1>4, <3>1
    <3>2. CASE Reads(w) /\ req'[w].email \in Emails /\ Holds(req'[w].email, c)
               /\ found'[w] = otp[req'[w].email]
      <4>1. req'[w].email = e
        BY <1>1, <1>4, <3>2 DEF CodesAreDrawn
      <4>2. QED
        BY <1>1, <1>4, <3>2, <4>1
    <3>3. QED
      BY <2>3, <3>1, <3>2, ReadSteps
  <2>4. QED
    BY <1>1, <1>2, <1>4, <2>2, <2>3
<1>5. ASSUME Holds(e, c), otp'[e].attempts = otp[e].attempts + 1,
             NEW v \in Verifies, Moves(v), CountsAttempt(v)
      PROVE  /\ Cardinality(Guesses(c)') <= otp'[e].attempts
             /\ \A w \in Verifies : Read(w, c)' => found'[w].attempts <= otp'[e].attempts
  <2>1. \A w \in Verifies \ {v} : Frozen(w)
    BY <1>5 DEF Moves, OthersStay
  <2>2. \A w \in Verifies : ~Reads(w) /\ (CountsAttempt(w) => w = v)
    <3>1. ASSUME NEW w \in Verifies, w # v PROVE ~Reads(w) /\ ~CountsAttempt(w)
      <4>1. Frozen(w)
        BY <2>1, <3>1
      <4>2. pc'[w] = pc[w]
        BY <4>1 DEF Frozen
      <4>3. QED
        BY <4>2 DEF Reads, CountsAttempt, Asks, Goes, Ends
    <3>2. ~Reads(v)
      BY <1>5 DEF CountsAttempt, Reads, Asks
    <3>3. QED
      BY <3>1, <3>2
  <2>3. Guesses(c)' \subseteq Guesses(c) \union {v}
    BY <2>2, GuessSteps DEF Guesses
  <2>4. /\ IsFiniteSet(Guesses(c) \union {v}) /\ Cardinality(Guesses(c) \union {v}) \in Nat
        /\ Cardinality(Guesses(c) \union {v}) <= Cardinality(Guesses(c)) + 1
    <3>1. /\ IsFiniteSet(Guesses(c) \union {v})
          /\ Cardinality(Guesses(c) \union {v}) =
               IF v \in Guesses(c) THEN Cardinality(Guesses(c)) ELSE Cardinality(Guesses(c)) + 1
      <4> DEFINE G == Guesses(c)
      <4>1. IsFiniteSet(G)
        BY <1>2
      <4> HIDE DEF G
      <4>2. /\ IsFiniteSet(G \union {v})
            /\ Cardinality(G \union {v}) = IF v \in G THEN Cardinality(G) ELSE Cardinality(G) + 1
        BY <4>1, FS_AddElement
      <4>3. QED
        BY <4>2 DEF G
    <3>2. QED
      BY <1>2, <3>1
  <2>5. /\ Cardinality(Guesses(c)') <= Cardinality(Guesses(c) \union {v})
        /\ Cardinality(Guesses(c)') \in Nat
    BY <2>3, <2>4, FS_Subset, FS_CardinalityType
  <2>6. Cardinality(Guesses(c)') <= otp'[e].attempts
    BY <1>1, <1>2, <1>5, <2>4, <2>5
  <2>7. ASSUME NEW w \in Verifies, Read(w, c)' PROVE found'[w].attempts <= otp'[e].attempts
    <3>1. Read(w, c) /\ found'[w] = found[w]
      BY <2>2, <2>7, ReadSteps
    <3>2. QED
      BY <1>1, <1>3, <1>5, <3>1
  <2>8. QED
    BY <2>6, <2>7
<1>6. CASE Moves(c) /\ Stores(c) /\ pc[c] = "store" /\ otp'[e].attempts = 0
  <2>1. c \notin Codes
    BY <1>6 DEF Codes
  <2>2. \A w \in Verifies : ~Read(w, c)'
    <3>1. \A w \in Verifies : Frozen(w)
      BY <1>6 DEF Moves, OthersStay
    <3>2. QED
      BY <1>3, <2>1, <3>1 DEF Read, Frozen
  <2>3. Guesses(c)' = {}
    BY <2>2 DEF Guesses
  <2>4. QED
    BY <1>6, <2>2, <2>3, FS_EmptySet
<1>7. QED
  BY <1>4, <1>5, <1>6, HoldSteps

LEMMA GuessesAreCountedKept ==
  ASSUME TypeOK, Bodies, Sendings, Verifications, CodesAreDrawn, GuessesAreCounted, [Next]_vars
  PROVE  GuessesAreCounted'
<1> USE RequestSets, ResetAssumption
<1>1. ASSUME NEW v \in Verifies, Accepts(v)' PROVE Cardinality(Wrong(v)') < MaxAttempts
  <2>1. \A q \in past'[v] : pc[q] = "done" /\ Frozen(q)
    <3>1. past'[v] = past[v] \/ past'[v] \subseteq Done
      BY BegunStay DEF KeepsBody, Frozen, Asks
    <3>2. \A q \in past'[v] : q \in Requests /\ pc[q] = "done"
      BY <3>1, RequestTypes DEF Bodies, Done
    <3>3. QED
      BY <3>2, AnsweredStay
  <2>2. CASE Accepts(v)
    <3>1. pc[v] # "idle"
      BY <2>2, RequestTypes DEF Accepts, Answered
    <3>2. req'[v] = req[v] /\ past'[v] = past[v]
      BY <3>1, BegunStay DEF KeepsBody
    <3>3. \A w \in past[v] \intersect Verifies :
            /\ resp'[w] = resp[w] /\ req'[w] = req[w] /\ found'[w] = found[w]
            /\ SameEmail(v, w)' <=> SameEmail(v, w)
      <4>1. \A w \in past[v] \intersect Verifies : Frozen(w) /\ pc[w] = "done"
        BY <2>1, <3>2
      <4>2. QED
        BY <3>1, <4>1, RelationsStay DEF Frozen
    <3>4. Wrong(v)' = Wrong(v)
      BY <3>2, <3>3 DEF Wrong, Answered, Read
    <3>5. QED
      BY <2>2, <3>4 DEF GuessesAreCounted
  <2>3. CASE Reads(v) /\ Goes(v, "consume")
    <3>1. PICK e \in Emails, c \in Codes \union {None} :
            e = req'[v].email /\ c = req'[v].code /\ found'[v] = otp[e] /\ found'[v] # None
            /\ found'[v].code = c /\ found'[v].attempts < MaxAttempts
      BY <2>3 DEF Reads, Verification, Goes, Ends
    <3>2. Holds(e, c)
      BY <3>1 DEF Holds
    <3>3. otp[e] \in Code
      BY <3>1 DEF TypeOK
    <3>4. c \in Forgots
      <4>1. c # None
        BY <3>1, <3>3 DEF Code
      <4>2. QED
        BY <3>1, <4>1, CodesStay
    <3>5. /\ Cardinality(Guesses(c)) <= otp[e].attempts
          /\ \A w \in Verifies : Read(w, c) => found[w].attempts <= otp[e].attempts
      BY <3>2, <3>4 DEF GuessesAreCounted
    <3>6. otp[e].attempts < MaxAttempts /\ otp[e].attempts \in Nat
      BY <3>1, <3>3 DEF Code
    <3>7. ASSUME NEW w \in Wrong(v)' PROVE w \in Guesses(c)
      <4>1. /\ w \in Verifies /\ w \in past'[v] /\ resp'[w] = 401
            /\ found'[w] # None /\ found'[w].code = req'[v].code
        BY <3>7 DEF Wrong, Answered, Read
      <4>2. resp[w] = 401 /\ found'[w] = found[w]
        BY <2>1, <4>1 DEF Frozen
      <4>3. Read(w, c)
        BY <3>1, <4>1, <4>2 DEF Read
      <4>4. found[w] = None \/ found[w].attempts >= MaxAttempts \/ count[w] > 0
        BY <4>1, <4>2 DEF Verifications, Verifying, Answered
      <4>5. found[w] # None /\ found[w].attempts <= otp[e].attempts /\ found[w].attempts \in Nat
        <5>1. found[w] \in Code \union {None}
          BY <4>1, RequestTypes
        <5>2. QED
          BY <3>5, <4>1, <4>3, <5>1 DEF Read, Code
      <4>6. count[w] > 0
        BY <3>6, <4>4, <4>5
      <4>7. QED
        BY <4>1, <4>3, <4>6 DEF Guesses
    <3>8. IsFiniteSet(Guesses(c)) /\ Wrong(v)' \subseteq Guesses(c)
      BY <3>4, <3>7, GuessSteps
    <3>9. /\ Cardinality(Wrong(v)') <= Cardinality(Guesses(c))
          /\ Cardinality(Wrong(v)') \in Nat /\ Cardinality(Guesses(c)) \in Nat
      BY <3>8, FS_Subset, FS_CardinalityType
    <3>10. QED
      BY <3>5, <3>6, <3>9
  <2>4. QED
    BY <1>1, <2>2, <2>3, ClaimSteps
<1>2. QED
  BY <1>1, CountersCover DEF GuessesAreCounted

-----------------------------------------------------------------------------
(* A code that was sent ends for a cause.                                   *)

Counted(c) == { w \in Later(c) : count[w] > 0 }
\* Cause, of the next state.
NextCause(c, ws) ==
  \/ c \in lapsed'
  \/ \E w \in ws : req'[w].code = c \/ Overlap(w, c)'
  \/ \E g \in Forgots \ {c} : SameEmail(g, c)' /\ count'[g] > 0 /\ g \notin past'[c]
  \/ Cardinality(ws) >= MaxAttempts

\* A finite set has no fewer elements than a part of it.
LEMMA PartsAreFewer ==
  ASSUME NEW S, NEW T, IsFiniteSet(T), S \subseteq T
  PROVE  /\ IsFiniteSet(S) /\ Cardinality(S) \in Nat /\ Cardinality(T) \in Nat
         /\ Cardinality(S) <= Cardinality(T)
<1>1. IsFiniteSet(S) /\ Cardinality(S) <= Cardinality(T)
  BY FS_Subset
<1>2. QED
  BY <1>1, FS_CardinalityType

LEMMA LapsedGrows ==
  ASSUME TypeOK, [Next]_vars
  PROVE  lapsed \subseteq lapsed'
<1>1. ASSUME NEW e \in Emails, ExpireOtp(e) PROVE lapsed \subseteq lapsed'
  BY <1>1 DEF ExpireOtp
<1>2. QED
  BY <1>1, KeySteps DEF CodeSteps, SameCodes, Stores, CountsAttempt, Clears, Consumes

\* A count, once made, stays.
LEMMA CountsStay ==
  ASSUME TypeOK, Bodies, Sendings, Verifications, [Next]_vars
  PROVE  /\ \A g \in Forgots : count[g] > 0 => count'[g] > 0
         /\ \A w \in Verifies : count[w] > 0 => count'[w] > 0 /\ ~CountsAttempt(w)
<1>1. ASSUME NEW g \in Forgots, count[g] > 0 PROVE count'[g] = count[g]
  <2>1. ~CountsSend(g)
    BY <1>1 DEF CountsSend, Sendings
  <2>2. QED
    BY <2>1, MovesOfKind DEF ForgotMoves, Frozen, AsksCode, Asks, ExpiresSends, Stores, Fails,
       KeepsCount
<1>2. ASSUME NEW w \in Verifies, count[w] > 0 PROVE count'[w] = count[w] /\ ~CountsAttempt(w)
  <2>1. ~CountsAttempt(w)
    BY <1>2 DEF CountsAttempt, Verifications, Verifying
  <2>2. QED
    BY <2>1, MovesOfKind DEF VerifyMoves, Frozen, Reads, Asks, Clears, Consumes, ReadsOwner,
       DropsPrior, StoresToken, Fails, KeepsCount
<1>3. QED
  BY <1>1, <1>2

LEMMA LaterGrows ==
  ASSUME TypeOK, Bodies, Sendings, Verifications, Bodies', [Next]_vars,
         NEW c \in Forgots, pc[c] = "done"
  PROVE  /\ Later(c) \subseteq Later(c)' /\ Counted(c) \subseteq Counted(c)'
         /\ \A w \in Later(c) : pc[w] # "idle"
         /\ IsFiniteSet(Later(c)) /\ IsFiniteSet(Later(c)') /\ IsFiniteSet(Counted(c)')
         /\ Later(c) \subseteq Verifies
<1> USE RequestSets
<1>1. Frozen(c)
  BY AnsweredStay
<1>2. Later(c) \subseteq Later(c)'
  BY <1>1, RelationsStay DEF Later, Frozen
<1>3. Counted(c) \subseteq Counted(c)'
  BY <1>2, CountsStay DEF Counted, Later
<1>4. Later(c) \subseteq Begun /\ Later(c)' \subseteq Begun'
  BY DEF Later, SameEmail, Begun
<1>5. IsFiniteSet(Later(c)) /\ IsFiniteSet(Later(c)')
  <2>1. IsFiniteSet(Begun) /\ IsFiniteSet(Begun')
    BY DEF Bodies
  <2>2. QED
    BY <1>4, <2>1, PartsAreFewer
<1>6. Counted(c)' \subseteq Later(c)'
  BY DEF Counted
<1>7. IsFiniteSet(Counted(c)')
  BY <1>5, <1>6, PartsAreFewer
<1>8. QED
  BY <1>2, <1>3, <1>4, <1>5, <1>7 DEF Begun, Later

LEMMA CauseStays ==
  ASSUME TypeOK, Bodies, Sendings, Verifications, [Next]_vars, NEW c \in Forgots, pc[c] = "done",
         NEW ws, NEW us, ws \subseteq us, IsFiniteSet(us), ws \subseteq Verifies,
         \A w \in ws : pc[w] # "idle", Cause(c, ws)
  PROVE  NextCause(c, us)
<1> USE RequestSets, ResetAssumption
<1>1. CASE c \in lapsed
  BY <1>1, LapsedGrows DEF NextCause
<1>2. ASSUME NEW w \in ws, req[w].code = c \/ Overlap(w, c) PROVE NextCause(c, us)
  <2>1. req'[w] = req[w] /\ (Overlap(w, c) => Overlap(w, c)')
    BY BegunStay, RelationsStay DEF KeepsBody
  <2>2. QED
    BY <1>2, <2>1 DEF NextCause
<1>3. ASSUME NEW g \in Forgots \ {c}, SameEmail(g, c), Passed(g), g \notin past[c]
      PROVE  NextCause(c, us)
  <2>1. SameEmail(g, c)' /\ past'[c] = past[c]
    BY <1>3, RelationsStay, AnsweredStay DEF Frozen
  <2>2. count'[g] > 0
    BY <1>3, CountsStay DEF Passed
  <2>3. QED
    BY <1>3, <2>1, <2>2 DEF NextCause
<1>4. CASE Cardinality(ws) >= MaxAttempts
  <2>1. /\ Cardinality(ws) \in Nat /\ Cardinality(us) \in Nat
        /\ Cardinality(ws) <= Cardinality(us)
    BY PartsAreFewer
  <2>2. Cardinality(us) >= MaxAttempts
    BY <1>4, <2>1
  <2>3. QED
    BY <2>2 DEF NextCause
<1>5. QED
  BY <1>1, <1>2, <1>3, <1>4 DEF Cause

\* What is known of a code that was sent.
LEMMA SentCodes ==
  ASSUME TypeOK, Bodies, Sendings, [Next]_vars, NEW c \in Forgots, Sent(c)
  PROVE  /\ pc[c] = "done" /\ Frozen(c) /\ req[c].email \in Emails
         /\ req[c].email \in Registered
<1> USE RequestSets, ResetAssumption
<1>1. pc[c] = "done" /\ count[c] > 0
  BY AnsweredIsDone DEF Sent, Answered
<1>2. QED
  BY <1>1, AnsweredStay DEF Bodies, Sendings, Passed

LEMMA LivesSteps ==
  ASSUME TypeOK, Bodies, Sendings, Verifications, CodesEndForACause, Bodies', [Next]_vars,
         NEW c \in Forgots, Sent(c), Lives(c), NEW e, e = req[c].email,
         NEW us, us = Later(c)'
  PROVE  \/ Holds(e, c)' /\ otp'[e].attempts <= Cardinality(Counted(c)')
         \/ NextCause(c, us)
<1> USE RequestSets, ResetAssumption
<1>1. /\ pc[c] = "done" /\ Frozen(c) /\ e \in Emails /\ e \in Registered
  BY SentCodes
<1>2. /\ otp[e] # None /\ otp[e].code = c /\ otp[e].attempts \in Nat
      /\ otp[e].attempts <= Cardinality(Counted(c))
  <2>1. Holds(e, c) /\ otp[e].attempts <= Cardinality(Counted(c))
    BY DEF Lives, Counted
  <2>2. otp[e] \in Code \union {None}
    BY <1>1 DEF TypeOK
  <2>3. QED
    BY <2>1, <2>2 DEF Holds, Code
<1>3. /\ Later(c) \subseteq us /\ Counted(c) \subseteq Counted(c)'
      /\ \A w \in Later(c) : pc[w] # "idle"
      /\ IsFiniteSet(us) /\ IsFiniteSet(Counted(c)') /\ Later(c) \subseteq Verifies
  BY <1>1, LaterGrows
<1>4. Cardinality(Counted(c)) \in Nat /\ Cardinality(Counted(c)') \in Nat
      /\ Cardinality(Counted(c)) <= Cardinality(Counted(c)')
  BY <1>3, PartsAreFewer
<1>5. Cause(c, Later(c)) => NextCause(c, us)
  BY <1>1, <1>3, CauseStays
<1>6. CASE otp'[e] = otp[e]
  BY <1>2, <1>4, <1>6 DEF Holds
<1>7. ASSUME NEW g \in Forgots, Stores(g), req[g].email = e PROVE Cause(c, Later(c))
  <2>1. pc[g] \in {"store", "dummy"} /\ g \notin past[c] /\ g # c
    BY <1>1, <1>7 DEF Stores, Bodies
  <2>2. count[g] > 0
    <3>1. pc[g] = "store" => count[g] \in 1 .. MaxSends
      BY DEF Sendings
    <3>2. pc[g] = "dummy" => count[g] > MaxSends
      BY <1>1, <1>7 DEF Sendings
    <3>3. count[g] \in Nat
      BY RequestTypes
    <3>4. QED
      BY <2>1, <3>1, <3>2, <3>3
  <2>3. SameEmail(g, c)
    BY <1>1, <1>7, <2>1 DEF SameEmail
  <2>4. QED
    BY <2>1, <2>2, <2>3 DEF Cause, Passed
<1>8. ASSUME NEW v \in Verifies, pc[v] \in {"attempt", "clear", "consume"}, req[v].email = e
      PROVE  v \in Later(c)
  <2>1. v \notin past[c]
    BY <1>8 DEF Bodies
  <2>2. QED
    BY <1>1, <1>8, <2>1 DEF Later, SameEmail
<1>9. ASSUME NEW v \in Verifies, CountsAttempt(v), req[v].email = e
      PROVE  Holds(e, c)' /\ otp'[e].attempts <= Cardinality(Counted(c)')
  <2>1. /\ pc[v] = "attempt" /\ otp'[e] = Guessed(otp[e]) /\ count'[v] = Guessed(otp[e]).attempts
    BY <1>1, <1>9, Domains DEF CountsAttempt
  <2>2. Guessed(otp[e]) # None /\ Guessed(otp[e]).code = c
        /\ Guessed(otp[e]).attempts = otp[e].attempts + 1
    BY <1>1, <1>2, GuessedIsCode, CodeAssumption
  <2>3. v \in Counted(c)' /\ v \notin Counted(c)
    <3>1. v \in Later(c)'
      BY <1>3, <1>8, <1>9, <2>1
    <3>2. count'[v] > 0
      BY <1>2, <2>1, <2>2
    <3>3. ~(count[v] > 0)
      BY <1>9, CountsStay
    <3>4. QED
      BY <3>1, <3>2, <3>3 DEF Counted
  <2>4. Cardinality(Counted(c)') >= Cardinality(Counted(c)) + 1
    <3> DEFINE C == Counted(c)
    <3>1. IsFiniteSet(C) /\ v \notin C /\ C \union {v} \subseteq Counted(c)' /\ Cardinality(C) \in Nat
      BY <1>3, <1>4, <2>3, PartsAreFewer
    <3> HIDE DEF C
    <3>2. Cardinality(C \union {v}) = Cardinality(C) + 1
      BY <3>1, FS_AddElement
    <3>3. Cardinality(C \union {v}) <= Cardinality(Counted(c)')
      BY <1>3, <3>1, PartsAreFewer
    <3>4. QED
      BY <1>4, <3>1, <3>2, <3>3 DEF C
  <2>5. QED
    BY <1>2, <1>4, <2>1, <2>2, <2>4 DEF Holds
<1>10. ASSUME NEW v \in Verifies, Clears(v) \/ Consumes(v), req[v].email = e
       PROVE  Cause(c, Later(c))
  <2>1. pc[v] \in {"clear", "consume"} /\ v \in Later(c)
    BY <1>8, <1>10 DEF Clears, Consumes
  <2>2. CASE c \notin past[v]
    <3>1. Overlap(v, c)
      BY <1>1, <2>1, <2>2 DEF Overlap, Later
    <3>2. QED
      BY <2>1, <3>1 DEF Cause
  <2>3. CASE c \in past[v]
    <3>1. SameEmail(c, v)
      BY <2>1 DEF Later
    <3>2. pc[v] = "clear" \/ (pc[v] = "consume" /\ req[v].code # c) => Cause(c, Later(c))
      BY <2>3, <3>1 DEF CodesEndForACause
    <3>3. QED
      BY <2>1, <3>2 DEF Cause
  <2>4. QED
    BY <2>2, <2>3
<1>11. ASSUME ExpireOtp(e) PROVE NextCause(c, us)
  BY <1>2, <1>11 DEF ExpireOtp, NextCause
<1>12. \/ otp'[e] = otp[e]
       \/ \E g \in Forgots : Stores(g) /\ req[g].email = e
       \/ \E v \in Verifies : /\ req[v].email = e
                              /\ CountsAttempt(v) \/ Clears(v) \/ Consumes(v)
       \/ ExpireOtp(e)
  <2>1. ASSUME NEW g \in Forgots, Stores(g), otp'[e] # otp[e] PROVE req[g].email = e
    <3>1. otp' = [otp EXCEPT ![req[g].email] =
                     [code |-> CodeOf(g), attempts |-> 0, ttl |-> TRUE]]
      BY <2>1 DEF Stores
    <3>2. QED
      BY <1>1, <2>1, <3>1, Domains
  <2>2. ASSUME NEW v \in Verifies, CountsAttempt(v) \/ Clears(v) \/ Consumes(v),
               otp'[e] # otp[e]
        PROVE  req[v].email = e
    <3>1. PICK o : otp' = [otp EXCEPT ![req[v].email] = o]
      BY <2>2 DEF CountsAttempt, Clears, Consumes
    <3>2. QED
      BY <1>1, <2>2, <3>1, Domains
  <2>3. ASSUME NEW f \in Emails, ExpireOtp(f), otp'[e] # otp[e] PROVE f = e
    <3>1. otp' = [otp EXCEPT ![f] = None]
      BY <2>3 DEF ExpireOtp
    <3>2. QED
      BY <1>1, <2>3, <3>1, Domains
  <2>4. SameCodes => otp'[e] = otp[e]
    BY DEF SameCodes
  <2>5. QED
    BY <2>1, <2>2, <2>3, <2>4, KeySteps DEF CodeSteps
<1>13. QED
  BY <1>5, <1>6, <1>7, <1>9, <1>10, <1>11, <1>12

LEMMA CodesEndForACauseKept ==
  ASSUME TypeOK, Bodies, Sendings, Verifications, CodesEndForACause, TypeOK', Bodies',
         [Next]_vars
  PROVE  CodesEndForACause'
<1> USE RequestSets, ResetAssumption
\* Of a code that was sent before the step.
<1>1. ASSUME NEW c \in Forgots, Sent(c), NEW e, e = req[c].email, NEW us, us = Later(c)'
      PROVE  \/ Holds(e, c)' /\ otp'[e].attempts <= Cardinality(Counted(c)')
             \/ NextCause(c, us)
  <2>1. CASE Lives(c)
    BY <1>1, <2>1, LivesSteps
  <2>2. CASE Cause(c, Later(c))
    <3>1. /\ Later(c) \subseteq us /\ \A w \in Later(c) : pc[w] # "idle"
          /\ IsFiniteSet(us) /\ Later(c) \subseteq Verifies /\ pc[c] = "done"
      BY <1>1, SentCodes, LaterGrows
    <3>2. QED
      BY <2>2, <3>1, CauseStays
  <2>3. QED
    BY <1>1, <2>1, <2>2 DEF CodesEndForACause
\* Of a code that this step sends.
<1>2. ASSUME NEW c \in Forgots, resp'[c] = 200, count'[c] \in 1 .. MaxSends, ~Sent(c),
             NEW e, e = req'[c].email
      PROVE  Holds(e, c)' /\ otp'[e].attempts <= Cardinality(Counted(c)')
  <2>1. resp[c] \in {None, 200, 401, 500} /\ (pc[c] = "done" <=> resp[c] # None)
        /\ (pc[c] = "idle" => count[c] = 0)
    BY RequestTypes DEF Sendings
  <2>2. ~Frozen(c)
    BY <1>2 DEF Frozen, Sent, Answered
  <2>3. ~AsksCode(c) /\ ~CountsSend(c) /\ ~ExpiresSends(c) /\ ~Fails(c)
    BY <1>2, <2>1 DEF AsksCode, CountsSend, ExpiresSends, Fails, Asks, Goes, Ends
  <2>4. Stores(c)
    BY <2>2, <2>3, MovesOfKind DEF ForgotMoves
  <2>5. /\ pc[c] \in {"store", "dummy"} /\ count[c] \in 1 .. MaxSends /\ e = req[c].email
        /\ otp' = [otp EXCEPT ![e] = [code |-> CodeOf(c), attempts |-> 0, ttl |-> TRUE]]
    BY <1>2, <2>4 DEF Stores, KeepsBody, KeepsCount
  <2>6. pc[c] = "store" /\ e \in Emails
    BY <2>5 DEF Sendings, Bodies
  <2>7. otp'[e] = [code |-> c, attempts |-> 0, ttl |-> TRUE]
    BY <2>5, <2>6, Domains DEF CodeOf
  <2>8. otp'[e] # None
    <3>1. otp'[e] \in Code
      BY <2>7 DEF Code
    <3>2. QED
      BY <3>1, CodeAssumption
  <2>9. Cardinality(Counted(c)') \in Nat
    <3>1. Counted(c)' \subseteq Begun'
      BY DEF Counted, Later, SameEmail, Begun
    <3>2. IsFiniteSet(Begun')
      BY DEF Bodies
    <3>3. QED
      BY <3>1, <3>2, PartsAreFewer
  <2>10. QED
    BY <2>7, <2>8, <2>9 DEF Holds
\* Of a verification that arrived after the code was sent.
<1>3. ASSUME NEW v \in Verifies, NEW c \in past'[v] \intersect Forgots, resp'[c] = 200,
             count'[c] \in 1 .. MaxSends, SameEmail(c, v)', NEW us, us = Later(c)'
      PROVE  /\ pc'[v] = "clear" \/ (pc'[v] = "consume" /\ req'[v].code # c) => NextCause(c, us)
             /\ Refuses(v)' /\ req'[v].code = c => NextCause(c, us \ {v})
  <2>1. pc[c] = "done" /\ Frozen(c) /\ Sent(c)
    <3>1. past'[v] = past[v] \/ past'[v] \subseteq Done
      BY BegunStay DEF KeepsBody, Frozen, Asks
    <3>2. pc[c] = "done"
      BY <3>1 DEF Bodies, Done
    <3>3. QED
      BY <1>3, <3>2, AnsweredStay DEF Frozen, Sent, Answered
  <2>0. PICK e : e = req[c].email
    OBVIOUS
  <2>2. e \in Emails /\ otp[e] \in Code \union {None} /\ req'[c].email = e /\ req'[v].email = e
    BY <1>3, <2>0, <2>1, SentCodes DEF TypeOK, SameEmail, Frozen
  <2>3. /\ Later(c) \subseteq us /\ \A w \in Later(c) : pc[w] # "idle"
        /\ IsFiniteSet(us) /\ Later(c) \subseteq Verifies
        /\ Counted(c) \subseteq Later(c)
    <3>1. /\ Later(c) \subseteq Later(c)' /\ \A w \in Later(c) : pc[w] # "idle"
          /\ IsFiniteSet(Later(c)') /\ Later(c) \subseteq Verifies
      BY <2>1, LaterGrows
    <3>2. Counted(c) \subseteq Later(c)
      BY DEF Counted
    <3>3. QED
      BY <1>3, <3>1, <3>2
  <2>4. Lives(c) \/ Cause(c, Later(c))
    BY <2>1 DEF CodesEndForACause
  <2>5. Cause(c, Later(c)) => NextCause(c, us)
    BY <2>1, <2>3, CauseStays
  <2>6. IsFiniteSet(us \ {v}) /\ us \ {v} \subseteq us
    BY <2>3, PartsAreFewer
  <2>7. CASE pc[v] # "idle"
    <3>1. /\ c \in past[v] /\ SameEmail(c, v) /\ req'[v] = req[v]
      BY <1>3, <2>1, <2>7, BegunStay, RelationsStay DEF KeepsBody
    <3>2. /\ pc[v] = "clear" \/ (pc[v] = "consume" /\ req[v].code # c) => Cause(c, Later(c))
          /\ Refuses(v) /\ req[v].code = c => Cause(c, Later(c) \ {v})
      BY <2>1, <3>1 DEF CodesEndForACause
    <3>3. ASSUME pc'[v] = "clear" PROVE NextCause(c, us)
      <4>1. CASE CountsAttempt(v)
        <5>1. /\ otp'[e] = Guessed(otp[e]) /\ count'[v] = Guessed(otp[e]).attempts
              /\ count'[v] >= MaxAttempts
          BY <2>2, <3>1, <3>3, <4>1, Domains DEF CountsAttempt, Goes, Ends
        <5>2. CASE Holds(e, c)' /\ otp'[e].attempts <= Cardinality(Counted(c)')
          <6>1. Counted(c)' \subseteq us
            BY <1>3 DEF Counted
          <6>2. /\ Cardinality(Counted(c)') \in Nat /\ Cardinality(us) \in Nat
                /\ Cardinality(Counted(c)') <= Cardinality(us)
            BY <2>3, <6>1, PartsAreFewer
          <6>3. count'[v] \in Nat
            BY VerifyFields
          <6>4. Cardinality(us) >= MaxAttempts
            BY <5>1, <5>2, <6>2, <6>3
          <6>5. QED
            BY <6>4 DEF NextCause
        <5>3. \/ Holds(e, c)' /\ otp'[e].attempts <= Cardinality(Counted(c)')
              \/ NextCause(c, us)
          BY <1>1, <1>3, <2>0, <2>1
        <5>4. QED
          BY <5>2, <5>3
      <4>2. pc[v] = "clear" \/ CountsAttempt(v)
        BY <3>3, MovesOfKind DEF Frozen, VerifyMoves, Reads, Clears, Consumes, ReadsOwner,
           DropsPrior, StoresToken, Fails, Goes, Ends
      <4>3. QED
        BY <2>5, <3>2, <4>1, <4>2
    <3>4. ASSUME pc'[v] = "consume", req'[v].code # c PROVE NextCause(c, us)
      <4>1. pc[v] = "consume"
        BY <2>7, <3>4, MovesOfKind DEF Frozen, VerifyMoves, Reads, Asks, CountsAttempt, Clears,
           Consumes, ReadsOwner, DropsPrior, StoresToken, Fails, Goes, Ends
      <4>2. QED
        BY <2>5, <3>1, <3>2, <3>4, <4>1
    <3>5. ASSUME Refuses(v)', req'[v].code = c PROVE NextCause(c, us \ {v})
      <4>1. Refuses(v)
        BY <2>7, <3>5, ClaimSteps DEF Reads, Asks
      <4>2. Cause(c, Later(c) \ {v})
        BY <3>1, <3>2, <3>5, <4>1
      <4>3. QED
        BY <2>1, <2>3, <2>6, <4>2, CauseStays
    <3>6. QED
      BY <3>3, <3>4, <3>5
  <2>8. CASE pc[v] = "idle"
    <3>1. Later(c) \subseteq us \ {v}
      BY <2>3, <2>8
    <3>2. Cause(c, Later(c)) => NextCause(c, us \ {v})
      BY <2>1, <2>3, <2>6, <3>1, CauseStays
    <3>3. CASE Reads(v)
      <4>1. found'[v] = otp[e]
        BY <2>2, <3>3 DEF Reads
      <4>2. pc'[v] # "clear"
        BY <3>3 DEF Reads, Goes, Ends
      <4>3. ASSUME pc'[v] = "consume", req'[v].code # c PROVE NextCause(c, us)
        <5>1. otp[e].code # c
          BY <3>3, <4>1, <4>3 DEF Reads, Goes, Ends
        <5>2. ~Lives(c)
          BY <2>0, <5>1 DEF Lives, Holds
        <5>3. QED
          BY <2>4, <2>5, <5>2
      <4>4. ASSUME Refuses(v)', req'[v].code = c PROVE NextCause(c, us \ {v})
        <5>1. CASE Lives(c)
          <6>1. /\ otp[e] # None /\ otp[e].code = c
                /\ otp[e].attempts <= Cardinality(Counted(c))
            BY <2>0, <5>1 DEF Lives, Holds, Counted
          <6>2. otp[e].attempts >= MaxAttempts
            <7>1. resp[v] = None
              BY <2>8, RequestTypes
            <7>2. pc'[v] # "consume"
              <8>1. pc'[v] \in {"attempt", "clear"} \/ resp'[v] = 401
                BY <4>4 DEF Refuses, Answered
              <8>2. QED
                BY <3>3, <7>1, <8>1 DEF Reads, Goes, Ends
            <7>3. QED
              BY <3>3, <4>1, <4>4, <6>1, <7>2 DEF Reads, Goes
          <6>3. /\ Cardinality(Counted(c)) \in Nat /\ Cardinality(us \ {v}) \in Nat
                /\ Cardinality(Counted(c)) <= Cardinality(us \ {v})
            <7>1. Counted(c) \subseteq us \ {v}
              BY <2>3, <3>1
            <7>2. QED
              BY <2>6, <7>1, PartsAreFewer
          <6>4. otp[e].attempts \in Nat
            BY <2>2, <6>1 DEF Code
          <6>5. Cardinality(us \ {v}) >= MaxAttempts
            BY <6>1, <6>2, <6>3, <6>4
          <6>6. QED
            BY <6>5 DEF NextCause
        <5>2. QED
          BY <2>4, <3>2, <5>1
      <4>5. QED
        BY <4>2, <4>3, <4>4
    <3>4. Reads(v)
      <4>1. pc'[v] # "idle"
        BY <1>3 DEF SameEmail
      <4>2. QED
        BY <2>8, <4>1, MovesOfKind DEF Frozen, VerifyMoves, CountsAttempt, Clears, Consumes,
           ReadsOwner, DropsPrior, StoresToken, Fails, Open
    <3>5. QED
      BY <3>3, <3>4
  <2>9. QED
    BY <2>7, <2>8
<1>4. ASSUME NEW c \in Forgots, Sent(c)' PROVE (Lives(c) \/ Cause(c, Later(c)))'
  <2>1. PICK e, us : e = req'[c].email /\ us = Later(c)'
    OBVIOUS
  <2>2. resp'[c] = 200 /\ count'[c] \in 1 .. MaxSends
    BY <1>4 DEF Sent, Answered
  <2>3. \/ Holds(e, c)' /\ otp'[e].attempts <= Cardinality(Counted(c)')
        \/ NextCause(c, us)
    <3>1. CASE Sent(c)
      <4>1. req'[c] = req[c]
        BY <3>1, SentCodes DEF Frozen
      <4>2. QED
        BY <1>1, <2>1, <3>1, <4>1
    <3>2. CASE ~Sent(c)
      BY <1>2, <2>1, <2>2, <3>2
    <3>3. QED
      BY <3>1, <3>2
  <2>4. Holds(e, c)' => otp'[e] # None /\ otp'[e].code = c
    BY DEF Holds
  <2>5. QED
    BY <2>1, <2>3, <2>4 DEF Lives, Cause, NextCause, Counted, Passed, Holds
<1>5. ASSUME NEW v \in Verifies, NEW c \in past'[v] \intersect Forgots, Sent(c)',
             SameEmail(c, v)'
      PROVE  /\ pc'[v] = "clear" \/ (pc'[v] = "consume" /\ req'[v].code # c)
                  => Cause(c, Later(c))'
             /\ Refuses(v)' /\ req'[v].code = c => Cause(c, Later(c) \ {v})'
  <2>1. PICK us : us = Later(c)'
    OBVIOUS
  <2>2. /\ pc'[v] = "clear" \/ (pc'[v] = "consume" /\ req'[v].code # c) => NextCause(c, us)
        /\ Refuses(v)' /\ req'[v].code = c => NextCause(c, us \ {v})
    BY <1>3, <1>5, <2>1 DEF Sent, Answered
  <2>3. /\ NextCause(c, us) => Cause(c, Later(c))'
        /\ NextCause(c, us \ {v}) => Cause(c, Later(c) \ {v})'
    BY <2>1 DEF Cause, NextCause, Passed
  <2>4. QED
    BY <2>2, <2>3
<1>6. QED
  BY <1>4, <1>5 DEF CodesEndForACause

-----------------------------------------------------------------------------
(* The invariant.                                                           *)

LEMMA ResetInit ==
  ASSUME Init
  PROVE  ResetInvariant
<1> USE RequestSets, ResetAssumption
<1>1. /\ \A r \in Requests : /\ pc[r] = "idle" /\ req[r] = None /\ resp[r] = None
                             /\ count[r] = 0 /\ past[r] = {}
      /\ \A e \in Emails : /\ otp[e] = None /\ cooldown[e] = FALSE
                           /\ sends[e] = [n |-> 0, ttl |-> FALSE]
      /\ \A v \in Verifies : found[v] = None /\ resetToken[v] = None
  BY DEF Init
<1>2. TypeOK
  BY <1>1 DEF Init, TypeOK
<1>3. Bodies
  <2>1. Begun = {}
    BY <1>1 DEF Begun
  <2>2. QED
    BY <1>1, <2>1, FS_EmptySet DEF Bodies
<1>4. Sendings
  BY <1>1 DEF Sendings, Passed
<1>5. \A r \in Requests : ~Answered(r, 200) /\ ~Answered(r, 401)
  BY <1>1 DEF Answered
<1>6. /\ \A v \in Verifies : ~Accepts(v) /\ ~Consumed(v) /\ ~Refuses(v)
      /\ \A s \in Resets : ~Opens(s)
  BY <1>1, <1>5 DEF Accepts, Consumed, Refuses, Opens
<1>7. Verifications
  BY <1>1, <1>5, <1>6 DEF Verifications, Verifying
<1>8. \A c \in Forgots : /\ \A e \in Emails : ~Holds(e, c)
                         /\ \A v \in Verifies : ~Read(v, c)
  BY <1>1 DEF Holds, Read
<1>9. CodesAreDrawn
  BY <1>8 DEF CodesAreDrawn
<1>10. CodesAreGone
  BY <1>5, <1>6 DEF CodesAreGone
<1>11. GuessesAreCounted
  BY <1>6, <1>8 DEF GuessesAreCounted
<1>12. CodesEndForACause
  BY <1>1, <1>5 DEF CodesEndForACause, Sent
<1>13. OnlyFailureFreezesCounter
  BY <1>1 DEF OnlyFailureFreezesCounter
<1>14. LockoutUnblocks /\ LockoutsEndCooldown
  BY <1>1, <1>5 DEF LockoutUnblocks, LockoutsEndCooldown
<1>15. TokensAreOwned
  BY <1>1 DEF TokensAreOwned
<1>16. TokensAreSpent
  BY <1>1, <1>5, <1>6 DEF TokensAreSpent
<1>17. QED
  BY <1>2, <1>3, <1>4, <1>7, <1>9, <1>10, <1>11, <1>12, <1>13, <1>14, <1>15, <1>16
     DEF ResetInvariant

LEMMA ResetStepsKeep ==
  ASSUME ResetInvariant, [Next]_vars
  PROVE  ResetInvariant'
<1>1. /\ TypeOK /\ Bodies /\ Sendings /\ Verifications
      /\ CodesAreDrawn /\ CodesAreGone /\ GuessesAreCounted /\ CodesEndForACause
      /\ OnlyFailureFreezesCounter /\ LockoutUnblocks /\ LockoutsEndCooldown
      /\ TokensAreOwned /\ TokensAreSpent
  BY DEF ResetInvariant
<1>2. TypeOK'
  BY <1>1, TypesKept
<1>3. Bodies'
  BY <1>1, BodiesKept
<1>4. Sendings'
  BY <1>1, SendingsKept
<1>5. Verifications'
  BY <1>1, <1>2, VerificationsKept
<1>6. CodesAreDrawn'
  BY <1>1, CodesAreDrawnKept
<1>7. CodesAreGone'
  BY <1>1, CodesAreGoneKept
<1>8. GuessesAreCounted'
  BY <1>1, GuessesAreCountedKept
<1>9. CodesEndForACause'
  BY <1>1, <1>2, <1>3, CodesEndForACauseKept
<1>10. OnlyFailureFreezesCounter'
  BY <1>1, FreezerKept
<1>11. LockoutUnblocks'
  BY <1>1, LockoutUnblocksKept
<1>12. LockoutsEndCooldown'
  BY <1>1, LockoutsEndCooldownKept
<1>13. TokensAreOwned'
  BY <1>1, TokensAreOwnedKept
<1>14. TokensAreSpent'
  BY <1>1, <1>2, TokensAreSpentKept
<1>15. QED
  BY <1>2, <1>3, <1>4, <1>5, <1>6, <1>7, <1>8, <1>9, <1>10, <1>11, <1>12, <1>13, <1>14
     DEF ResetInvariant

\* Every part of the invariant holds in every reachable state, for any number
\* of addresses, requests and limits.
THEOREM ResetInvariantHolds == Spec => []ResetInvariant
<1>1. Init => ResetInvariant
  BY ResetInit
<1>2. ResetInvariant /\ [Next]_vars => ResetInvariant'
  BY ResetStepsKeep
<1>3. QED
  BY <1>1, <1>2, PTL DEF Spec

\* Keys, handler positions and answers have their types; only a key that
\* HINCRBY created has no expiry (otp_service.py:47, 58, 66 and 96).
THEOREM ResetTypeCorrect == Spec => []TypeOK
<1>1. ResetInvariant => TypeOK
  BY DEF ResetInvariant
<1>2. QED
  BY <1>1, ResetInvariantHolds, PTL

\* Only the request that created an hourly counter, unfinished or failed,
\* leaves it without expiry (otp_service.py:40-42).
THEOREM CounterFrozenByFailureOnly == Spec => []OnlyFailureFreezesCounter
<1>1. ResetInvariant => OnlyFailureFreezesCounter
  BY DEF ResetInvariant
<1>2. QED
  BY <1>1, ResetInvariantHolds, PTL

\* A request for a code that arrives after a lockout was answered comes
\* through, unless another one set the cooldown again (otp_service.py:98).
THEOREM LockoutLiftsCooldown == Spec => []LockoutUnblocks
<1>1. ResetInvariant => LockoutUnblocks
  BY DEF ResetInvariant
<1>2. QED
  BY <1>1, ResetInvariantHolds, PTL

\* After MaxAttempts wrong guesses were answered, a later verification is
\* refused, the right code included (otp_service.py:89-99).
THEOREM GuessedCodeIsDead == Spec => []WrongGuessesKillCode
<1>1. ASSUME ResetInvariant, NEW v \in Verifies, Answered(v, 200)
      PROVE  Cardinality({ w \in past[v] \intersect Verifies :
                             /\ Answered(w, 401) /\ SameEmail(v, w)
                             /\ found[w] # None /\ found[w].code = req[v].code
                             /\ req[w].code # req[v].code }) < MaxAttempts
  <2>1. Cardinality(Wrong(v)) < MaxAttempts
    BY <1>1 DEF ResetInvariant, GuessesAreCounted, Accepts
  <2>2. Wrong(v) = { w \in past[v] \intersect Verifies :
                       /\ Answered(w, 401) /\ SameEmail(v, w)
                       /\ found[w] # None /\ found[w].code = req[v].code
                       /\ req[w].code # req[v].code }
    BY DEF Wrong, Read
  <2>3. QED
    BY <2>1, <2>2
<1>2. ResetInvariant => WrongGuessesKillCode
  BY <1>1 DEF WrongGuessesKillCode
<1>3. QED
  BY <1>2, ResetInvariantHolds, PTL

\* A code is accepted for the address it was drawn for, within the hourly
\* cap, and no longer once a request that accepted it, or stored another over
\* it, has been answered (otp_service.py:44, 58, 103).
THEOREM ReplacedCodeIsRefused == Spec => []OldCodeIsRefused
<1>1. ASSUME ResetInvariant, NEW v \in Verifies, Answered(v, 200), NEW c, c = req[v].code
      PROVE  /\ c \in Forgots /\ SameEmail(c, v) /\ count[c] \in 1 .. MaxSends
             /\ \A w \in past[v] \intersect Verifies : Answered(w, 200) => req[w].code # c
             /\ \A g \in past[v] \intersect Forgots :
                  Answered(g, 200) /\ SameEmail(g, v) /\ Passed(g) => c \notin past[g]
  <2>1. Accepts(v) /\ Verifying(v) /\ CodesAreDrawn /\ CodesAreGone
    BY <1>1 DEF Accepts, ResetInvariant, Verifications
  <2>2. Read(v, c) /\ c \in Forgots
    BY <1>1, <2>1 DEF Verifying
  <2>3. c \in Codes /\ SameEmail(c, v)
    BY <2>1, <2>2 DEF CodesAreDrawn
  <2>4. count[c] \in 1 .. MaxSends
    BY <2>3 DEF Codes
  <2>5. /\ \A w \in past[v] \intersect Verifies : Answered(w, 200) => req[w].code # c
        /\ \A g \in past[v] \intersect Forgots :
             Answered(g, 200) /\ SameEmail(g, v) /\ Passed(g) => c \notin past[g]
    BY <1>1, <2>1 DEF CodesAreGone
  <2>6. QED
    BY <2>2, <2>3, <2>4, <2>5
<1>2. ResetInvariant => OldCodeIsRefused
  BY <1>1 DEF OldCodeIsRefused
<1>3. QED
  BY <1>2, ResetInvariantHolds, PTL

\* A code that was stored, and is then presented for its address, is refused
\* only for a cause: it expired, was presented by another request too, was
\* replaced, was guessed at MaxAttempts times, or a verification overlapped
\* its storing (otp_service.py:99, 103).
THEOREM SentCodeWorks == Spec => []RightCodeWorks
<1>1. ASSUME ResetInvariant, NEW v \in Verifies, NEW c, c = req[v].code, Answered(v, 401),
             c \in Forgots, SameEmail(v, c), c \in past[v], Answered(c, 200),
             NEW others,
             others = { w \in Verifies \ {v} : SameEmail(v, w) /\ w \notin past[c] }
      PROVE  Cause(c, others)
  <2>1. SameEmail(c, v) /\ pc[v] # "idle"
    BY <1>1 DEF SameEmail
  <2>2. count[c] \in 1 .. MaxSends
    <3>1. c \in Codes \union {None}
      BY <1>1, <2>1 DEF ResetInvariant, Bodies
    <3>2. QED
      BY <1>1, <3>1, ResetAssumption DEF Codes
  <2>3. Refuses(v) /\ Sent(c) /\ CodesEndForACause
    BY <1>1, <2>2 DEF Refuses, Sent, ResetInvariant
  <2>4. Cause(c, Later(c) \ {v})
    BY <1>1, <2>1, <2>3 DEF CodesEndForACause
  <2>5. others = Later(c) \ {v}
    BY <1>1 DEF Later, SameEmail
  <2>6. QED
    BY <2>4, <2>5
<1>2. ResetInvariant => RightCodeWorks
  BY <1>1 DEF RightCodeWorks, Cause
<1>3. QED
  BY <1>2, ResetInvariantHolds, PTL

\* A reset token that changed a password, or that a later verification
\* replaced, opens nothing for a reset that arrives after the answer, unless
\* overlapping verifications displaced its owner entry
\* (otp_service.py:109-117, 130-135).
THEOREM UsedTokenIsRefused == Spec => []OldResetTokenIsRefused
<1>1. ASSUME ResetInvariant, NEW s \in Resets, Answered(s, 200), NEW t, t = req[s].token
      PROVE  t \in Verifies /\ Unspent(s, t)
  <2>1. Opens(s) /\ TypeOK /\ Bodies /\ TokensAreSpent
    BY <1>1 DEF Opens, ResetInvariant
  <2>2. t \in Verifies
    <3>1. pc[s] = "done"
      BY <1>1, <2>1, RequestSets, AnsweredIsDone DEF Answered
    <3>2. QED
      BY <1>1, <2>1, <3>1 DEF Bodies
  <2>3. QED
    BY <1>1, <2>1, <2>2 DEF TokensAreSpent
<1>2. ASSUME ResetInvariant PROVE SpentResetTokenIsRefused
  <2>1. SUFFICES ASSUME NEW s \in Resets, NEW r \in past[s] \intersect Resets,
                        req[r].token = req[s].token, Answered(r, 200), Answered(s, 200)
                 PROVE  FALSE
    BY DEF SpentResetTokenIsRefused
  <2>2. Unspent(s, req[s].token)
    BY <1>1, <1>2, <2>1
  <2>3. QED
    BY <2>1, <2>2 DEF Unspent
<1>3. ASSUME ResetInvariant PROVE OnlyOverlapKeepsOldToken
  <2>1. SUFFICES ASSUME NEW s \in Resets, Answered(s, 200), NEW t, t = req[s].token,
                        NEW u \in past[s] \intersect Verifies,
                        t \in past[u], Answered(u, 200), SameEmail(t, u)
                 PROVE  \E w \in Verifies \ {t, u} : SameEmail(t, w) /\ Overlap(t, w)
    BY DEF OnlyOverlapKeepsOldToken
  <2>2. Unspent(s, t)
    BY <1>1, <1>3, <2>1
  <2>3. Displaced(t)
    BY <2>1, <2>2 DEF Unspent
  <2>4. QED
    BY <2>1, <2>3 DEF Displaced, Overlap
<1>4. ResetInvariant => OldResetTokenIsRefused
  BY <1>2, <1>3 DEF OldResetTokenIsRefused
<1>5. QED
  BY <1>4, ResetInvariantHolds, PTL
=============================================================================
