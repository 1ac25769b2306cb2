---------------------------- MODULE RateLimitProofs ----------------------------
(***************************************************************************)
(* Proofs about RateLimit, for any number of requests, callers and limits: *)
(* the fallback keeps its capacity, a client exceeds its limit no further  *)
(* than the windows allow, nobody is refused on account of others, and the *)
(* breaker closes again.                                                   *)
(***************************************************************************)
EXTENDS RateLimitProperties, FiniteSetTheorems, WellFoundedInduction, TLAPS

Histories == [Requests -> Record \union {None}]
Losses    == [Requests -> 0 .. Horizon \union {None}]

-----------------------------------------------------------------------------
(* Keys                                                                     *)

\* A key names the group of its callers.
LEMMA KeyFacts ==
  ASSUME NEW c \in Callers
  PROVE  /\ Key(c) \in Keys /\ Key(c).group = c.group /\ c.group \in Groups
         /\ Window[c.group] \in Nat \ {0} /\ Limit[c.group] \in Nat \ {0}
<1>1. c.kind \in {"login", "ip", "user"} /\ c.group \in Groups /\ (c.kind = "login" => c.group = "auth")
  BY RateAssumption
<1>2. CASE c.kind = "user"
  BY <1>1, <1>2, RateAssumption DEF Key, Keys, UserKey
<1>3. CASE c.kind = "login"
  BY <1>1, <1>3, RateAssumption DEF Key, Keys, LoginKey
<1>4. CASE c.kind = "ip"
  BY <1>1, <1>4, RateAssumption DEF Key, Keys, IpKey
<1>5. QED
  BY <1>1, <1>2, <1>3, <1>4

\* What is in a record of a history.
LEMMA RecordFacts ==
  ASSUME NEW h \in Histories, NEW s \in Requests, h[s] # None
  PROVE  /\ h[s].key \in Keys /\ h[s].at \in Nat /\ h[s].at \in 0 .. Horizon
         /\ h[s].n \in Nat \ {0} /\ h[s].first \in Requests
         /\ Window[h[s].key.group] \in Nat \ {0} /\ Until(h, s) \in Nat
<1>1. h[s] \in Record
  BY DEF Histories
<1>2. /\ h[s].key \in Keys /\ h[s].at \in 0 .. Horizon
      /\ h[s].n \in Nat \ {0} /\ h[s].first \in Requests
  BY <1>1 DEF Record
<1>3. PICK c \in Callers : h[s].key = Key(c)
  BY <1>2 DEF Keys
<1>4. Window[h[s].key.group] \in Nat \ {0}
  BY <1>3, KeyFacts
<1>5. QED
  BY <1>2, <1>4, RateAssumption DEF Until

\* Two callers are meant to share a counter exactly if they have one key.
LEMMA SameIsKey ==
  ASSUME NEW r \in Requests, NEW s \in Requests, caller[r] \in Callers, caller[s] \in Callers
  PROVE  Same(r, s) <=> KeyOf(r) = KeyOf(s)
<1> DEFINE c == caller[r]
           d == caller[s]
<1>1. /\ c # None /\ d # None
      /\ c.kind \in {"login", "ip", "user"} /\ d.kind \in {"login", "ip", "user"}
      /\ c.kind = "login" => c.group = "auth"
      /\ d.kind = "login" => d.group = "auth"
  BY RateAssumption
<1>2. Same(r, s) <=> /\ c.kind = d.kind /\ c.group = d.group
                     /\ c.kind \in {"login", "ip"} => c.ip = d.ip
                     /\ c.kind = "login" => Normal[c.who] = Normal[d.who]
                     /\ c.kind = "user" => c.who = d.who
  BY <1>1 DEF Same
<1> HIDE DEF c, d
<1>3. ASSUME NEW e, e.kind \in {"login", "ip", "user"}
      PROVE  Key(e) = CASE e.kind = "user" -> UserKey(e) [] e.kind = "login" -> LoginKey(e)
                        [] e.kind = "ip" -> IpKey(e)
  BY DEF Key
<1>4. Key(c).kind = c.kind /\ Key(d).kind = d.kind
  BY <1>1 DEF Key, UserKey, LoginKey, IpKey
<1>5. CASE c.kind = "user" /\ d.kind = "user"
  <2>1. Key(c) = UserKey(c) /\ Key(d) = UserKey(d)
    BY <1>5 DEF Key
  <2>2. QED
    BY <1>2, <1>5, <2>1 DEF UserKey, KeyOf, c, d
<1>6. CASE c.kind = "login" /\ d.kind = "login"
  <2>1. Key(c) = LoginKey(c) /\ Key(d) = LoginKey(d)
    BY <1>6 DEF Key
  <2>2. QED
    BY <1>1, <1>2, <1>6, <2>1 DEF LoginKey, KeyOf, c, d
<1>7. CASE c.kind = "ip" /\ d.kind = "ip"
  <2>1. Key(c) = IpKey(c) /\ Key(d) = IpKey(d)
    BY <1>7 DEF Key
  <2>2. QED
    BY <1>2, <1>7, <2>1 DEF IpKey, KeyOf, c, d
<1>8. CASE c.kind # d.kind
  BY <1>2, <1>4, <1>8 DEF KeyOf, c, d
<1>9. QED
  BY <1>1, <1>5, <1>6, <1>7, <1>8

-----------------------------------------------------------------------------
(* What counting, losing entries and time do to a store and its history     *)

\* A store loses entries whose window has ended, or that are noted as lost,
\* while time passes.
Forgetting(store, store2, l, l2, t, t2) ==
  /\ \A k \in Keys : \/ store2[k] = store[k]
                     \/ /\ store2[k].n = 0
                        /\ store[k].n > 0 => store[k].until <= t2 \/ l2[store[k].first] = t
  /\ \A f \in Requests : \/ l2[f] = l[f]
                         \/ /\ l2[f] = t
                            /\ \E k \in Keys : /\ store[k].n > 0 /\ store[k].first = f
                                               /\ store2[k].n = 0

LEMMA StoreForgets ==
  ASSUME NEW store, NEW store2, NEW h \in Histories, NEW l \in Losses, NEW l2 \in Losses,
         NEW t \in Nat, NEW t2 \in Nat, t <= t2, Counts(store, h, l, t),
         Forgetting(store, store2, l, l2, t, t2)
  PROVE  Counts(store2, h, l2, t2)
<1> USE DEF Forgetting
<1>1. /\ \A s \in Requests : h[s] # None => CountsOnce(h, l, s, t)
      /\ \A k \in Keys : store[k].n > 0 => IsCurrent(store[k], k, h, l)
      /\ \A f \in OpenedIn(h) :
           \/ store[h[f].key].n > 0 /\ store[h[f].key].first = f
           \/ Ended(h, l, f, t)
      /\ \A f \in Requests : l[f] # None => f \in OpenedIn(h)
      /\ \A f, g \in OpenedIn(h) :
           f # g /\ h[f].key = h[g].key => Ended(h, l, f, h[g].at) \/ Ended(h, l, g, h[f].at)
  BY DEF Counts
<1>2. \A f \in Requests : /\ l[f] # None => l[f] \in Nat
                          /\ l2[f] # None => l2[f] \in Nat
  BY DEF Losses
<1>3. \A f \in OpenedIn(h) : f \in Requests /\ h[f] # None /\ h[f].first = f
  BY DEF OpenedIn
<1>4. ASSUME NEW f \in Requests, l2[f] # l[f]
      PROVE  l2[f] = t /\ l[f] = None /\ f \in OpenedIn(h) /\ store2[h[f].key].n = 0
  <2>1. PICK k \in Keys : store[k].n > 0 /\ store[k].first = f /\ store2[k].n = 0
    BY <1>4
  <2>2. IsCurrent(store[k], k, h, l)
    BY <1>1, <2>1
  <2>3. QED
    BY <1>4, <2>1, <2>2 DEF IsCurrent
<1>5. ASSUME NEW s \in Requests, h[s] # None PROVE CountsOnce(h, l2, s, t2)
  <2>1. CountsOnce(h, l, s, t)
    BY <1>1, <1>5
  <2>2. h[s].at \in Nat /\ h[s].first \in Requests /\ h[h[s].first].at \in Nat
    BY <1>3, <1>5, <2>1, RecordFacts DEF CountsOnce
  <2>3. h[s].at \in h[h[s].first].at .. t2
    BY <2>1, <2>2 DEF CountsOnce
  <2>4. l2[h[s].first] # None => h[s].at <= l2[h[s].first]
    BY <1>4, <2>1, <2>2 DEF CountsOnce
  <2>5. QED
    BY <2>1, <2>3, <2>4 DEF CountsOnce
<1>6. ASSUME NEW k \in Keys, store2[k].n > 0 PROVE IsCurrent(store2[k], k, h, l2)
  <2>1. store2[k] = store[k]
    BY <1>6
  <2>2. IsCurrent(store[k], k, h, l)
    BY <1>1, <1>6, <2>1
  <2>3. l2[store[k].first] = None
    BY <1>3, <1>4, <1>6, <2>1, <2>2 DEF IsCurrent
  <2>4. QED
    BY <2>1, <2>2, <2>3 DEF IsCurrent
<1>7. ASSUME NEW f \in OpenedIn(h), NEW u \in Nat, Ended(h, l, f, u) PROVE Ended(h, l2, f, u)
  BY <1>3, <1>4, <1>7 DEF Ended
<1>8. ASSUME NEW f \in OpenedIn(h)
      PROVE  \/ store2[h[f].key].n > 0 /\ store2[h[f].key].first = f
             \/ Ended(h, l2, f, t2)
  <2>1. f \in Requests /\ h[f].key \in Keys /\ Until(h, f) \in Nat
    BY <1>3, RecordFacts
  <2>2. CASE Ended(h, l, f, t)
    <3>1. Ended(h, l2, f, t)
      BY <1>7, <2>2
    <3>2. QED
      BY <1>2, <2>1, <3>1 DEF Ended
  <2>3. CASE store[h[f].key].n > 0 /\ store[h[f].key].first = f /\ store2[h[f].key] # store[h[f].key]
    <3>1. store[h[f].key].until = Until(h, f)
      BY <1>1, <2>1, <2>3 DEF IsCurrent
    <3>2. Until(h, f) <= t2 \/ l2[f] = t
      BY <2>1, <2>3, <3>1
    <3>3. t # None
      BY RateAssumption
    <3>4. QED
      BY <3>2, <3>3 DEF Ended
  <2>4. QED
    BY <1>1, <2>2, <2>3
<1>9. \A f \in Requests : l2[f] # None => f \in OpenedIn(h)
  BY <1>1, <1>4
<1>10. ASSUME NEW f \in OpenedIn(h), NEW g \in OpenedIn(h), f # g, h[f].key = h[g].key
       PROVE  Ended(h, l2, f, h[g].at) \/ Ended(h, l2, g, h[f].at)
  BY <1>1, <1>3, <1>7, <1>10, RecordFacts
<1>11. QED
  BY <1>5, <1>6, <1>8, <1>9, <1>10 DEF Counts

\* What a store writes to its history.
LEMMA RecordIsSome ==
  ASSUME NEW k \in Keys, NEW t \in 0 .. Horizon, NEW n \in Nat \ {0}, NEW f \in Requests
  PROVE  LET c == [key |-> k, at |-> t, n |-> n, first |-> f] IN c \in Record /\ c # None
BY RecordAssumption DEF Record

\* At time t the store counts r under k, in the window under way or in a new one.
Counting(store, store2, h, h2, t, k, r) ==
  /\ h[r] = None
  /\ \A j \in Keys \ {k} : store2[j] = store[j]
  /\ \A q \in Requests \ {r} : h2[q] = h[q]
  /\ h2[r] = [key |-> k, at |-> t, n |-> store2[k].n, first |-> store2[k].first]
Joining(e, e2, t) ==
  /\ e.n \in Nat \ {0} /\ t < e.until
  /\ e2.n = e.n + 1 /\ e2.first = e.first /\ e2.until = e.until
Opening(e, e2, t, k, r) ==
  /\ e.n > 0 => e.until <= t
  /\ e2.n = 1 /\ e2.first = r /\ e2.until = t + Window[k.group]

\* A request is counted in the window under way.
LEMMA WindowJoined ==
  ASSUME NEW store, NEW store2, NEW h \in Histories, NEW h2 \in Histories, NEW l \in Losses,
         NEW t \in 0 .. Horizon, NEW k \in Keys, NEW r \in Requests, Counts(store, h, l, t),
         Counting(store, store2, h, h2, t, k, r), Joining(store[k], store2[k], t)
  PROVE  Counts(store2, h2, l, t)
<1> USE DEF Counting, Joining
<1> DEFINE o == store[k].first
<1>1. /\ \A s \in Requests : h[s] # None => CountsOnce(h, l, s, t)
      /\ \A j \in Keys : store[j].n > 0 => IsCurrent(store[j], j, h, l)
      /\ \A f \in OpenedIn(h) :
           \/ store[h[f].key].n > 0 /\ store[h[f].key].first = f
           \/ Ended(h, l, f, t)
      /\ \A f \in Requests : l[f] # None => f \in OpenedIn(h)
      /\ \A f, g \in OpenedIn(h) :
           f # g /\ h[f].key = h[g].key => Ended(h, l, f, h[g].at) \/ Ended(h, l, g, h[f].at)
  BY DEF Counts
<1>2. /\ o \in OpenedIn(h) /\ h[o].key = k /\ store[k].until = Until(h, o) /\ l[o] = None
      /\ \A q \in Requests : Shares(h, q, o) => h[q].n <= store[k].n
      /\ \E q \in Requests : Shares(h, q, o) /\ h[q].n = store[k].n
  BY <1>1 DEF IsCurrent
<1>3. /\ o \in Requests /\ o # r /\ h[o] # None /\ h[o].first = o
      /\ CountsOnce(h, l, o, t) /\ h[o].at \in Nat /\ h[o].at <= t
  <2>1. o \in Requests /\ o # r /\ h[o] # None /\ h[o].first = o
    BY <1>2 DEF OpenedIn
  <2>2. CountsOnce(h, l, o, t) /\ h[o].at \in Nat
    BY <1>1, <2>1, RecordFacts
  <2>3. QED
    BY <2>1, <2>2 DEF CountsOnce
<1>4. /\ \A q \in Requests \ {r} : h2[q] = h[q]
      /\ h2[r].key = k /\ h2[r].at = t /\ h2[r].n = store[k].n + 1 /\ h2[r].first = o
      /\ h2[r] # None
  <2>1. h2[r] = [key |-> k, at |-> t, n |-> store[k].n + 1, first |-> o]
    OBVIOUS
  <2>2. h2[r] # None
    BY <1>3, <2>1, RecordIsSome
  <2>3. QED
    BY <2>1, <2>2
<1> HIDE DEF o
<1>5. OpenedIn(h2) = OpenedIn(h)
  BY <1>3, <1>4 DEF OpenedIn
<1>6. \A f \in OpenedIn(h) : f \in Requests /\ f # r /\ h2[f] = h[f] /\ Until(h2, f) = Until(h, f)
  BY <1>4 DEF OpenedIn, Until
<1>7. ASSUME NEW f \in OpenedIn(h), NEW u PROVE Ended(h2, l, f, u) <=> Ended(h, l, f, u)
  BY <1>6 DEF Ended
<1>8. \A q, f \in Requests : Shares(h2, q, f) <=> Shares(h, q, f) \/ (q = r /\ f = o)
  BY <1>3, <1>4 DEF Shares
<1>9. ASSUME NEW s \in Requests, s # r, h[s] # None PROVE CountsOnce(h2, l, s, t)
  <2>1. CountsOnce(h, l, s, t) /\ h2[s] = h[s]
    BY <1>1, <1>4, <1>9
  <2> DEFINE f == h[s].first
  <2>2. f \in OpenedIn(h) /\ f \in Requests /\ h2[f] = h[f] /\ Until(h2, f) = Until(h, f)
    BY <1>6, <2>1 DEF CountsOnce
  <2>3. \A q \in Requests : Shares(h2, q, f) /\ h2[q].n = h[s].n => q = s
    <3>1. ASSUME f = o PROVE h[s].n # h2[r].n
      <4>1. Shares(h, s, o)
        BY <1>9, <3>1 DEF Shares
      <4>2. h[s].n <= store[k].n /\ h[s].n \in Nat
        BY <1>2, <1>9, <4>1, RecordFacts
      <4>3. QED
        BY <1>4, <4>2
    <3>2. \A q \in Requests : Shares(h, q, f) /\ h[q].n = h[s].n => q = s
      BY <2>1 DEF CountsOnce
    <3>3. ASSUME NEW q \in Requests, Shares(h2, q, f), h2[q].n = h[s].n, q # s PROVE FALSE
      <4>1. CASE q = r
        <5>1. f = o
          BY <1>4, <4>1, <3>3 DEF Shares
        <5>2. QED
          BY <3>1, <3>3, <4>1, <5>1
      <4>2. CASE q # r
        BY <1>4, <1>8, <2>2, <3>2, <3>3, <4>2
      <4>3. QED
        BY <4>1, <4>2
    <3>4. QED
      BY <3>3
  <2>4. \A i \in 1 .. h[s].n :
          \E q \in Requests : Shares(h2, q, f) /\ h2[q].n = i /\ h2[q].at <= h[s].at
    BY <1>4, <1>8, <2>1, <2>2 DEF CountsOnce, Shares
  <2>5. QED
    BY <1>5, <2>1, <2>2, <2>3, <2>4 DEF CountsOnce
<1>10. CountsOnce(h2, l, r, t)
  <2>1. o \in OpenedIn(h2) /\ h2[o].key = k /\ h2[r].at \in h2[o].at .. t
        /\ h2[r].at < Until(h2, o)
    BY <1>2, <1>3, <1>4, <1>5, <1>6
  <2>2. \A q \in Requests : Shares(h2, q, o) /\ h2[q].n = h2[r].n => q = r
    <3>1. ASSUME NEW q \in Requests, q # r, Shares(h2, q, o) PROVE h2[q].n # h2[r].n
      <4>1. Shares(h, q, o) /\ h2[q] = h[q] /\ h[q] # None
        BY <1>3, <1>4, <1>8, <3>1 DEF Shares
      <4>2. h[q].n <= store[k].n /\ h[q].n \in Nat
        BY <1>2, <4>1, RecordFacts
      <4>3. QED
        BY <1>4, <4>1, <4>2
    <3>2. QED
      BY <3>1
  <2>3. ASSUME NEW i \in 1 .. h2[r].n
        PROVE  \E q \in Requests : Shares(h2, q, o) /\ h2[q].n = i /\ h2[q].at <= t
    <3>1. CASE i = h2[r].n
      BY <1>3, <1>4, <1>8, <3>1
    <3>2. CASE i # h2[r].n
      <4>1. PICK p \in Requests : Shares(h, p, o) /\ h[p].n = store[k].n
        BY <1>2
      <4>2. p # r /\ h[p] # None /\ h[p].first = o /\ CountsOnce(h, l, p, t) /\ h[p].at \in Nat
        BY <1>1, <4>1, RecordFacts DEF Shares
      <4>3. i \in 1 .. h[p].n
        BY <1>4, <3>2, <4>1
      <4>4. PICK q \in Requests : Shares(h, q, o) /\ h[q].n = i /\ h[q].at <= h[p].at
        BY <4>2, <4>3 DEF CountsOnce
      <4>5. q # r /\ h2[q] = h[q] /\ Shares(h2, q, o) /\ h[q].at \in Nat
        BY <1>3, <1>4, <1>8, <4>4, RecordFacts DEF Shares
      <4>6. h[p].at <= t
        BY <4>2 DEF CountsOnce
      <4>7. QED
        BY <4>2, <4>4, <4>5, <4>6
    <3>3. QED
      BY <3>1, <3>2
  <2>4. QED
    BY <1>2, <1>4, <2>1, <2>2, <2>3 DEF CountsOnce
<1>11. ASSUME NEW j \in Keys, store2[j].n > 0 PROVE IsCurrent(store2[j], j, h2, l)
  <2>1. CASE j = k
    <3>1. \A q \in Requests : Shares(h2, q, o) => h2[q].n <= store2[k].n
      <4>1. ASSUME NEW q \in Requests, Shares(h, q, o) PROVE h2[q].n <= store2[k].n
        <5>1. q # r /\ h[q] # None
          BY <4>1 DEF Shares
        <5>2. h[q].n \in Nat /\ h[q].n <= store[k].n
          BY <1>2, <4>1, <5>1, RecordFacts
        <5>3. QED
          BY <1>4, <5>1, <5>2
      <4>2. QED
        BY <1>3, <1>4, <1>8, <4>1
    <3>2. Shares(h2, r, o) /\ h2[r].n = store2[k].n
      BY <1>3, <1>4, <1>8
    <3>3. store2[k].first = o
      BY DEF o
    <3>4. QED
      BY <1>2, <1>5, <1>6, <2>1, <3>1, <3>2, <3>3 DEF IsCurrent
  <2>2. CASE j # k
    <3>1. store2[j] = store[j] /\ IsCurrent(store[j], j, h, l)
      BY <1>1, <1>11, <2>2
    <3> DEFINE f == store[j].first
    <3>2. f \in OpenedIn(h) /\ f \in Requests /\ f # o /\ h2[f] = h[f] /\ Until(h2, f) = Until(h, f)
      BY <1>2, <1>6, <2>2, <3>1 DEF IsCurrent
    <3>3. \A q \in Requests : Shares(h2, q, f) <=> Shares(h, q, f)
      BY <1>8, <3>2
    <3>4. \A q \in Requests : Shares(h, q, f) => h2[q] = h[q]
      BY <1>4 DEF Shares
    <3>5. QED
      BY <1>5, <3>1, <3>2, <3>3, <3>4 DEF IsCurrent
  <2>3. QED
    BY <2>1, <2>2
<1>12. ASSUME NEW f \in OpenedIn(h2)
       PROVE  \/ store2[h2[f].key].n > 0 /\ store2[h2[f].key].first = f
              \/ Ended(h2, l, f, t)
  <2>1. f \in OpenedIn(h) /\ f \in Requests /\ h2[f] = h[f] /\ h[f].key \in Keys
    BY <1>5, <1>6, <1>12, RecordFacts DEF OpenedIn
  <2>2. CASE h[f].key = k
    BY <1>1, <1>7, <2>1, <2>2
  <2>3. CASE h[f].key # k
    BY <1>1, <1>7, <2>1, <2>3
  <2>4. QED
    BY <2>2, <2>3
<1>13. \A f, g \in OpenedIn(h2) :
         f # g /\ h2[f].key = h2[g].key => Ended(h2, l, f, h2[g].at) \/ Ended(h2, l, g, h2[f].at)
  BY <1>1, <1>5, <1>6, <1>7
<1>14. QED
  <2>1. \A s \in Requests : h2[s] # None => CountsOnce(h2, l, s, t)
    BY <1>4, <1>9, <1>10
  <2>2. \A f \in Requests : l[f] # None => f \in OpenedIn(h2)
    BY <1>1, <1>5
  <2>3. QED
    BY <1>11, <1>12, <1>13, <2>1, <2>2 DEF Counts

\* A request opens a window, where none is under way.
LEMMA WindowOpened ==
  ASSUME NEW store, NEW store2, NEW h \in Histories, NEW h2 \in Histories, NEW l \in Losses,
         NEW t \in 0 .. Horizon, NEW k \in Keys, NEW r \in Requests, Counts(store, h, l, t),
         Counting(store, store2, h, h2, t, k, r), Opening(store[k], store2[k], t, k, r)
  PROVE  Counts(store2, h2, l, t)
<1> USE DEF Counting, Opening
<1>1. /\ \A s \in Requests : h[s] # None => CountsOnce(h, l, s, t)
      /\ \A j \in Keys : store[j].n > 0 => IsCurrent(store[j], j, h, l)
      /\ \A f \in OpenedIn(h) :
           \/ store[h[f].key].n > 0 /\ store[h[f].key].first = f
           \/ Ended(h, l, f, t)
      /\ \A f \in Requests : l[f] # None => f \in OpenedIn(h)
      /\ \A f, g \in OpenedIn(h) :
           f # g /\ h[f].key = h[g].key => Ended(h, l, f, h[g].at) \/ Ended(h, l, g, h[f].at)
  BY DEF Counts
<1>2. h2[r] # None
  BY RecordIsSome
<1>3. OpenedIn(h2) = OpenedIn(h) \union {r} /\ r \notin OpenedIn(h)
  BY <1>2 DEF OpenedIn
<1>4. l[r] = None
  BY <1>1, <1>3
<1>5. \A f \in OpenedIn(h) : /\ f \in Requests /\ f # r /\ h[f] # None /\ h2[f] = h[f]
                             /\ Until(h2, f) = Until(h, f)
  BY DEF OpenedIn, Until
<1>6. ASSUME NEW f \in OpenedIn(h), NEW u PROVE Ended(h2, l, f, u) <=> Ended(h, l, f, u)
  BY <1>5 DEF Ended
<1>7. \A s \in Requests : h[s] # None => h[s].first # r
  BY <1>1, <1>3 DEF CountsOnce
<1>8. \A q, f \in Requests : f # r => (Shares(h2, q, f) <=> Shares(h, q, f))
  BY DEF Shares
<1>9. \A q \in Requests : Shares(h2, q, r) <=> q = r
  BY <1>2, <1>7 DEF Shares
<1>10. Until(h2, r) = t + Window[k.group] /\ Window[k.group] \in Nat \ {0}
  BY <1>2, RecordFacts DEF Until
<1>11. ASSUME NEW s \in Requests, s # r, h[s] # None PROVE CountsOnce(h2, l, s, t)
  <2>1. CountsOnce(h, l, s, t) /\ h2[s] = h[s]
    BY <1>1, <1>11
  <2> DEFINE f == h[s].first
  <2>2. f \in OpenedIn(h) /\ f \in Requests /\ f # r /\ h2[f] = h[f] /\ Until(h2, f) = Until(h, f)
    BY <1>5, <2>1 DEF CountsOnce
  <2>3. \A q \in Requests : Shares(h2, q, f) <=> Shares(h, q, f)
    BY <1>8, <2>2
  <2>4. \A q \in Requests : Shares(h, q, f) => h2[q] = h[q]
    BY DEF Shares
  <2>5. \A q \in Requests : Shares(h2, q, f) /\ h2[q].n = h[s].n => q = s
    BY <2>1, <2>3, <2>4 DEF CountsOnce
  <2>6. \A i \in 1 .. h[s].n :
          \E q \in Requests : Shares(h2, q, f) /\ h2[q].n = i /\ h2[q].at <= h[s].at
    BY <2>1, <2>3, <2>4 DEF CountsOnce
  <2>7. QED
    BY <1>3, <2>1, <2>2, <2>5, <2>6 DEF CountsOnce
<1>12. CountsOnce(h2, l, r, t)
  <2>1. \A i \in 1 .. h2[r].n :
          \E q \in Requests : Shares(h2, q, r) /\ h2[q].n = i /\ h2[q].at <= h2[r].at
    BY <1>9
  <2>2. h2[r].at \in h2[r].at .. t /\ h2[r].at < Until(h2, r)
    BY <1>10
  <2>3. QED
    BY <1>3, <1>4, <1>9, <2>1, <2>2 DEF CountsOnce
<1>13. ASSUME NEW j \in Keys, store2[j].n > 0 PROVE IsCurrent(store2[j], j, h2, l)
  <2>1. CASE j = k
    BY <1>3, <1>4, <1>9, <1>10, <2>1 DEF IsCurrent
  <2>2. CASE j # k
    <3>1. store2[j] = store[j] /\ IsCurrent(store[j], j, h, l)
      BY <1>1, <1>13, <2>2
    <3> DEFINE f == store[j].first
    <3>2. f \in OpenedIn(h) /\ f \in Requests /\ f # r /\ h2[f] = h[f] /\ Until(h2, f) = Until(h, f)
      BY <1>5, <3>1 DEF IsCurrent
    <3>3. \A q \in Requests : Shares(h2, q, f) <=> Shares(h, q, f)
      BY <1>8, <3>2
    <3>4. \A q \in Requests : Shares(h, q, f) => h2[q] = h[q]
      BY DEF Shares
    <3>5. QED
      BY <1>3, <3>1, <3>2, <3>3, <3>4 DEF IsCurrent
  <2>3. QED
    BY <2>1, <2>2
\* The windows of k that were opened before have ended.
<1>14. ASSUME NEW f \in OpenedIn(h), h[f].key = k PROVE Ended(h2, l, f, t)
  <2>1. CASE Ended(h, l, f, t)
    BY <1>6, <2>1
  <2>2. CASE store[k].n > 0 /\ store[k].first = f
    BY <1>1, <1>5, <2>2 DEF IsCurrent, Ended
  <2>3. QED
    BY <1>1, <1>14, <2>1, <2>2
<1>15. ASSUME NEW f \in OpenedIn(h2)
       PROVE  \/ store2[h2[f].key].n > 0 /\ store2[h2[f].key].first = f
              \/ Ended(h2, l, f, t)
  <2>1. CASE f = r
    BY <2>1
  <2>2. CASE f # r /\ h[f].key = k
    BY <1>3, <1>14, <1>15, <2>2
  <2>3. CASE f # r /\ h[f].key # k
    <3>1. f \in OpenedIn(h) /\ h2[f] = h[f] /\ h[f].key \in Keys
      BY <1>3, <1>5, <1>15, <2>3, RecordFacts
    <3>2. QED
      BY <1>1, <1>6, <2>3, <3>1
  <2>4. QED
    BY <2>1, <2>2, <2>3
<1>16. ASSUME NEW f \in OpenedIn(h2), NEW g \in OpenedIn(h2), f # g, h2[f].key = h2[g].key
       PROVE  Ended(h2, l, f, h2[g].at) \/ Ended(h2, l, g, h2[f].at)
  <2>1. CASE f # r /\ g # r
    BY <1>1, <1>3, <1>5, <1>6, <1>16, <2>1
  <2>2. CASE g = r
    BY <1>3, <1>5, <1>14, <1>16, <2>2
  <2>3. CASE f = r
    BY <1>3, <1>5, <1>14, <1>16, <2>3
  <2>4. QED
    BY <2>1, <2>2, <2>3
<1>17. QED
  <2>1. \A s \in Requests : h2[s] # None => CountsOnce(h2, l, s, t)
    BY <1>11, <1>12
  <2>2. \A f \in Requests : l[f] # None => f \in OpenedIn(h2)
    BY <1>1, <1>3
  <2>3. QED
    BY <1>13, <1>15, <1>16, <2>1, <2>2 DEF Counts

-----------------------------------------------------------------------------
(* _InMemoryWindow.check                                                    *)

\* A set of running entries has an oldest one.
LEMMA OldestExists ==
  ASSUME TypeOK, Running # {}
  PROVE  Oldest # {}
<1> DEFINE P == { fallback[k].place : k \in Running }
<1>1. \A k \in Running : k \in Keys /\ fallback[k].place \in Nat
  BY DEF TypeOK, Running, Held
<1>2. P \subseteq Nat /\ P # {}
  BY <1>1
<1>3. PICK x \in P : \A y \in P : ~ (<<y, x>> \in OpToRel(<, Nat))
  BY <1>2, NatLessThanWellFounded, WFMin
<1>4. PICK k \in Running : fallback[k].place = x
  BY <1>3
<1>5. ASSUME NEW j \in Running PROVE fallback[k].place <= fallback[j].place
  <2>1. fallback[j].place \in P /\ fallback[j].place \in Nat /\ fallback[k].place \in Nat
    BY <1>1
  <2>2. ~ (fallback[j].place < fallback[k].place)
    BY <1>3, <1>4, <2>1 DEF OpToRel
  <2>3. QED
    BY <2>1, <2>2
<1>6. k \in Oldest
  BY <1>5 DEF Oldest
<1>7. QED
  BY <1>6

\* There is room for one more.
LEMMA RoomIsLess ==
  ASSUME TypeOK, IsFiniteSet(Held)
  PROVE  Room \subseteq Held /\ IsFiniteSet(Room) /\ Cardinality(Room) < MaxEntries
<1>1. Cardinality(Held) <= MaxEntries /\ MaxEntries \in Nat \ {0} /\ Cardinality(Held) \in Nat
  BY FS_CardinalityType, RateAssumption DEF TypeOK
<1>2. Running \subseteq Held /\ IsFiniteSet(Running) /\ Cardinality(Running) \in Nat
      /\ Cardinality(Running) <= Cardinality(Held)
  <2>1. Running \in SUBSET Held
    BY DEF Running
  <2>2. QED
    BY <2>1, FS_Subset, FS_CardinalityType
<1>3. CASE ~(Cardinality(Held) < MaxEntries) /\ ~(Cardinality(Running) < MaxEntries)
  <2>1. Room = Running \ Oldest
    BY <1>3 DEF Room
  <2>2. Running # {}
    BY <1>1, <1>3, FS_EmptySet
  <2>3. PICK k \in Running : k \in Oldest
    BY <2>2, OldestExists DEF Oldest
  <2>4. IsFiniteSet(Running \ {k}) /\ Cardinality(Running \ {k}) = Cardinality(Running) - 1
    BY <1>2, FS_RemoveElement
  <2>5. Room \in SUBSET (Running \ {k})
    BY <2>1, <2>3
  <2>6. IsFiniteSet(Room) /\ Cardinality(Room) <= Cardinality(Running \ {k})
    BY <2>4, <2>5, FS_Subset
  <2>7. Cardinality(Room) \in Nat
    BY <2>6, FS_CardinalityType
  <2>8. QED
    BY <1>1, <1>2, <2>4, <2>5, <2>6, <2>7
<1>4. QED
  BY <1>2, <1>3 DEF Room

\* What counting in memory does, for a caller c of r.
Kept(k) == IF k \in Held THEN Held ELSE Room

LEMMA MemoryWrites ==
  ASSUME TypeOK, IsFiniteSet(Held), IsFiniteSet({ s \in Requests : fell[s] # None }),
         NEW r \in Requests, NEW c \in Callers, NEW via \in {"timeout", "breaker"},
         CountInMemory(r, c, via), now' = now
  PROVE  LET k == Key(c) IN
         /\ fallback' \in [Keys -> [n : Nat, until : Nat, first : Requests \union {None}, place : Nat]]
         /\ IsFiniteSet(Held') /\ Cardinality(Held') <= MaxEntries
         /\ \A j \in Keys \ {k} : fallback'[j] = IF j \in Kept(k) THEN fallback[j] ELSE NotInMemory
         /\ fallback'[k].n \in Nat \ {0}
         /\ k \in Running => /\ fallback'[k].n = fallback[k].n + 1
                             /\ fallback'[k].first = fallback[k].first
                             /\ fallback'[k].until = fallback[k].until
         /\ k \notin Running => /\ fallback'[k].n = 1 /\ fallback'[k].first = r
                                /\ fallback'[k].until = now + Window[k.group]
         /\ lost' = [s \in Requests |-> IF \E j \in Running \ Kept(k) : fallback[j].first = s
                                        THEN now ELSE lost[s]]
         /\ lost' \in Losses
         /\ fell' = [fell EXCEPT ![r] = [key |-> k, at |-> now, n |-> fallback'[k].n,
                                         first |-> fallback'[k].first]]
         /\ Decide(r, c, fallback'[k].n, via)
<1> DEFINE k     == Key(c)
           place == IF k \in Held THEN fallback[k].place
                    ELSE Cardinality({ s \in Requests : fell[s] # None })
           new   == [n |-> 1, until |-> now + Window[c.group], first |-> r, place |-> place]
           entry == IF k \in Running THEN [fallback[k] EXCEPT !.n = @ + 1] ELSE new
           T     == [n : Nat, until : Nat, first : Requests \union {None}, place : Nat]
<1>1. /\ fallback' = [j \in Keys |-> IF j = k THEN entry
                                     ELSE IF j \in Kept(k) THEN fallback[j] ELSE NotInMemory]
      /\ Lose(Running \ Kept(k))
      /\ Decide(r, c, entry.n, via)
      /\ fell' = [fell EXCEPT ![r] = [key |-> k, at |-> now, n |-> entry.n, first |-> entry.first]]
  BY DEF CountInMemory, Kept
<1>2. k \in Keys /\ k.group = c.group /\ Window[c.group] \in Nat \ {0}
  BY KeyFacts
<1>3. /\ fallback \in [Keys -> T] /\ now \in Nat /\ now \in 0 .. Horizon
      /\ lost \in [Requests -> 0 .. Horizon \union {None}]
  BY RateAssumption DEF TypeOK
<1>4. place \in Nat
  BY <1>2, <1>3, FS_CardinalityType
<1> HIDE DEF place
<1>5. new \in T
  BY <1>2, <1>3, <1>4
<1>6. k \in Running => entry = [n |-> fallback[k].n + 1, until |-> fallback[k].until,
                                first |-> fallback[k].first, place |-> fallback[k].place]
  BY <1>2, <1>3
<1>7. entry \in T /\ entry.n \in Nat \ {0}
  <2>1. CASE k \in Running
    <3>1. fallback[k] \in T
      BY <1>2, <1>3
    <3>2. QED
      BY <1>6, <2>1, <3>1
  <2>2. CASE k \notin Running
    BY <1>5, <2>2
  <2>3. QED
    BY <2>1, <2>2
<1>8. NotInMemory \in T /\ NotInMemory.n = 0
  BY DEF NotInMemory
<1>9. fallback'[k] = entry /\ \A j \in Keys \ {k} :
        fallback'[j] = IF j \in Kept(k) THEN fallback[j] ELSE NotInMemory
  BY <1>1, <1>2
<1> HIDE DEF new, entry
<1>10. fallback' \in [Keys -> T]
  BY <1>1, <1>3, <1>7, <1>8
<1>11. Kept(k) \subseteq Held /\ IsFiniteSet(Kept(k))
  BY RoomIsLess DEF Kept
<1>12. Held' \subseteq Kept(k) \union {k}
  BY <1>8, <1>9 DEF Held
<1>13. IsFiniteSet(Held') /\ Cardinality(Held') <= MaxEntries
  <2>1. IsFiniteSet(Kept(k) \union {k}) /\ Cardinality(Kept(k) \union {k}) <= MaxEntries
    <3>1. CASE k \in Held
      <4>1. Kept(k) \union {k} = Held
        BY <3>1 DEF Kept
      <4>2. QED
        BY <4>1 DEF TypeOK
    <3>2. CASE k \notin Held
      <4>1. Kept(k) = Room
        BY <3>2 DEF Kept
      <4>2. /\ IsFiniteSet(Room) /\ Cardinality(Room) < MaxEntries /\ k \notin Room
        BY <3>2, RoomIsLess
      <4>3. IsFiniteSet(Room \union {k}) /\ Cardinality(Room \union {k}) = Cardinality(Room) + 1
        BY <4>2, FS_AddElement
      <4>4. Cardinality(Room) \in Nat /\ MaxEntries \in Nat
        BY <4>2, FS_CardinalityType, RateAssumption
      <4>5. QED
        BY <4>1, <4>2, <4>3, <4>4
    <3>3. QED
      BY <3>1, <3>2
  <2>2. Held' \in SUBSET (Kept(k) \union {k})
    BY <1>12
  <2>3. IsFiniteSet(Held') /\ Cardinality(Held') <= Cardinality(Kept(k) \union {k})
    BY <2>1, <2>2, FS_Subset
  <2>4. Cardinality(Held') \in Nat /\ Cardinality(Kept(k) \union {k}) \in Nat /\ MaxEntries \in Nat
    BY <2>1, <2>3, FS_CardinalityType, RateAssumption
  <2>5. QED
    BY <2>1, <2>3, <2>4
<1>14. /\ lost' = [s \in Requests |-> IF \E j \in Running \ Kept(k) : fallback[j].first = s
                                      THEN now ELSE lost[s]]
       /\ lost' \in Losses
  BY <1>1, <1>3 DEF Lose, Losses
<1>15. k \in Running => /\ entry.n = fallback[k].n + 1 /\ entry.first = fallback[k].first
                        /\ entry.until = fallback[k].until
  BY <1>6
<1>16. k \notin Running => entry.n = 1 /\ entry.first = r /\ entry.until = now + Window[k.group]
  BY <1>2 DEF entry, new
<1>17. QED
  BY <1>1, <1>7, <1>9, <1>10, <1>13, <1>14, <1>15, <1>16

\* Its history stays that of the store.
LEMMA MemoryKeepsCounts ==
  ASSUME TypeOK, Progress, MemoryCounts, NEW r \in Requests, NEW c \in Callers,
         NEW via \in {"timeout", "breaker"}, CountInMemory(r, c, via), now' = now, fell[r] = None,
         IsFiniteSet({ s \in Requests : fell[s] # None })
  PROVE  MemoryCounts' /\ fell' \in Histories
<1> DEFINE k   == Key(c)
           mid == [j \in Keys |-> IF j \in Kept(k) THEN fallback[j] ELSE NotInMemory]
<1>1. /\ fallback \in [Keys -> [n : Nat, until : Nat, first : Requests \union {None}, place : Nat]]
      /\ fell \in Histories /\ lost \in Losses /\ now \in 0 .. Horizon /\ now \in Nat
  BY RateAssumption DEF TypeOK, Histories, Losses
<1>2. IsFiniteSet(Held) /\ k \in Keys
  BY KeyFacts DEF Progress
<1>3. /\ IsFiniteSet(Held') /\ Cardinality(Held') <= MaxEntries
      /\ \A j \in Keys \ {k} : fallback'[j] = IF j \in Kept(k) THEN fallback[j] ELSE NotInMemory
      /\ fallback'[k].n \in Nat \ {0}
      /\ k \in Running => /\ fallback'[k].n = fallback[k].n + 1
                          /\ fallback'[k].first = fallback[k].first
                          /\ fallback'[k].until = fallback[k].until
      /\ k \notin Running => /\ fallback'[k].n = 1 /\ fallback'[k].first = r
                             /\ fallback'[k].until = now + Window[k.group]
      /\ lost' = [s \in Requests |-> IF \E j \in Running \ Kept(k) : fallback[j].first = s
                                     THEN now ELSE lost[s]]
      /\ lost' \in Losses
      /\ fell' = [fell EXCEPT ![r] = [key |-> k, at |-> now, n |-> fallback'[k].n,
                                      first |-> fallback'[k].first]]
  BY <1>2, MemoryWrites
<1>4. Counts(mid, fell, lost', now)
  <2>1. ASSUME NEW j \in Keys
        PROVE  \/ mid[j] = fallback[j]
               \/ /\ mid[j].n = 0
                  /\ fallback[j].n > 0 =>
                       fallback[j].until <= now \/ lost'[fallback[j].first] = now
    <3>1. CASE j \in Kept(k)
      BY <3>1
    <3>2. CASE j \notin Kept(k)
      <4>1. mid[j].n = 0
        BY <3>2 DEF NotInMemory
      <4>2. ASSUME fallback[j].n > 0, ~(fallback[j].until <= now)
            PROVE  lost'[fallback[j].first] = now
        <5>1. j \in Running
          BY <1>1, <4>2 DEF Running, Held
        <5>2. IsCurrent(fallback[j], j, fell, lost)
          BY <4>2 DEF MemoryCounts, Counts
        <5>3. fallback[j].first \in Requests
          BY <5>2 DEF IsCurrent, OpenedIn
        <5>4. QED
          BY <1>3, <3>2, <5>1, <5>3
      <4>3. QED
        BY <4>1, <4>2
    <3>3. QED
      BY <3>1, <3>2
  <2>2. ASSUME NEW f \in Requests, lost'[f] # lost[f]
        PROVE  /\ lost'[f] = now
               /\ \E j \in Keys : /\ fallback[j].n > 0 /\ fallback[j].first = f
                                  /\ mid[j].n = 0
    <3>1. PICK j \in Running \ Kept(k) : fallback[j].first = f
      BY <1>3, <2>2
    <3>2. j \in Keys /\ fallback[j].n > 0 /\ mid[j].n = 0
      BY <3>1 DEF Running, Held, NotInMemory
    <3>3. QED
      BY <1>3, <2>2, <3>1, <3>2
  <2> HIDE DEF mid
  <2>3. Counts(fallback, fell, lost, now) /\ now <= now
    BY <1>1 DEF MemoryCounts
  <2>4. Forgetting(fallback, mid, lost, lost', now, now)
    BY <2>1, <2>2 DEF Forgetting
  <2>5. QED
    BY <1>1, <1>3, <2>3, <2>4, StoreForgets
<1>5. /\ \A j \in Keys \ {k} : fallback'[j] = mid[j]
      /\ k \in Held => mid[k] = fallback[k]
      /\ k \notin Held => mid[k].n = 0
  BY <1>2, <1>3, RoomIsLess DEF Kept, NotInMemory
<1> HIDE DEF mid
<1>6. fallback'[k].first \in Requests
  <2>1. CASE k \in Running
    <3>1. IsCurrent(fallback[k], k, fell, lost)
      BY <1>2, <2>1 DEF MemoryCounts, Counts, Running, Held
    <3>2. QED
      BY <1>3, <2>1, <3>1 DEF IsCurrent, OpenedIn
  <2>2. QED
    BY <1>3, <2>1
<1>7. /\ \A q \in Requests \ {r} : fell'[q] = fell[q]
      /\ fell'[r] = [key |-> k, at |-> now, n |-> fallback'[k].n, first |-> fallback'[k].first]
      /\ fell' \in Histories
  <2>1. [key |-> k, at |-> now, n |-> fallback'[k].n, first |-> fallback'[k].first] \in Record
    BY <1>1, <1>2, <1>3, <1>6, RecordIsSome
  <2>2. QED
    BY <1>1, <1>3, <2>1 DEF Histories
<1>8. Counting(mid, fallback', fell, fell', now, k, r)
  BY <1>5, <1>7 DEF Counting
<1>9. CASE k \in Running
  <2>1. mid[k] = fallback[k] /\ fallback[k].n \in Nat \ {0} /\ now < fallback[k].until
    BY <1>1, <1>2, <1>5, <1>9 DEF Running, Held
  <2>2. Joining(mid[k], fallback'[k], now)
    BY <1>3, <1>9, <2>1 DEF Joining
  <2> HIDE DEF k
  <2>3. Counts(fallback', fell', lost', now)
    BY <1>1, <1>2, <1>3, <1>4, <1>7, <1>8, <2>2, WindowJoined
  <2>4. QED
    BY <1>7, <2>3 DEF MemoryCounts
<1>10. CASE k \notin Running
  <2>1. mid[k].n > 0 => mid[k].until <= now
    BY <1>1, <1>2, <1>5, <1>10 DEF Running, Held
  <2>2. Opening(mid[k], fallback'[k], now, k, r)
    BY <1>3, <1>10, <2>1 DEF Opening
  <2> HIDE DEF k
  <2>3. Counts(fallback', fell', lost', now)
    BY <1>1, <1>2, <1>3, <1>4, <1>7, <1>8, <2>2, WindowOpened
  <2>4. QED
    BY <1>7, <2>3 DEF MemoryCounts
<1>11. QED
  BY <1>9, <1>10

-----------------------------------------------------------------------------
(* The steps                                                                *)

Sound == TypeOK /\ Progress /\ RedisCounts /\ MemoryCounts

LEMMA StandingStays ==
  ASSUME NEW r \in Requests, Standing(r),
         pc'[r] = pc[r], caller'[r] = caller[r], r \in queued' <=> r \in queued,
         ran'[r] = ran[r], fell'[r] = fell[r], reply'[r] = reply[r], verdict'[r] = verdict[r]
  PROVE  Standing(r)'
<1>1. KeyOf(r)' = KeyOf(r) /\ LimitOf(r)' = LimitOf(r)
  BY DEF KeyOf, LimitOf
<1>2. (Decided(r)' <=> Decided(r)) /\ (ByRedis(r)' <=> ByRedis(r))
  BY DEF Decided, ByRedis
<1>3. Store(r)'[r] = Store(r)[r]
  BY <1>2 DEF Store
<1>4. QED
  BY <1>1, <1>2, <1>3 DEF Standing

\* The types that the lemmas about stores need.
LEMMA SoundTypes ==
  ASSUME Sound
  PROVE  /\ now \in 0 .. Horizon /\ now \in Nat
         /\ ran \in Histories /\ fell \in Histories /\ lost \in Losses
         /\ Nothing \in Losses
         /\ IsFiniteSet(Held) /\ IsFiniteSet({ s \in Requests : pc[s] # "idle" })
         /\ IsFiniteSet({ s \in Requests : fell[s] # None })
         /\ \A r \in Requests : Standing(r)
<1>1. /\ now \in 0 .. Horizon /\ now \in Nat
      /\ ran \in Histories /\ fell \in Histories /\ lost \in Losses
      /\ Nothing \in Losses
  BY RateAssumption DEF Sound, TypeOK, Histories, Losses, Nothing
<1>2. /\ IsFiniteSet(Held) /\ IsFiniteSet({ s \in Requests : pc[s] # "idle" })
      /\ \A r \in Requests : Standing(r)
  BY DEF Sound, Progress
<1>3. { s \in Requests : fell[s] # None } \in SUBSET { s \in Requests : pc[s] # "idle" }
  BY <1>2 DEF Standing
<1>4. IsFiniteSet({ s \in Requests : fell[s] # None })
  BY <1>2, <1>3, FS_Subset
<1>5. QED
  BY <1>1, <1>2, <1>4

\* A request that has begun leaves finitely many begun.
LEMMA BegunStaysFinite ==
  ASSUME IsFiniteSet({ s \in Requests : pc[s] # "idle" }), NEW r \in Requests,
         \A s \in Requests \ {r} : pc[s] = "idle" => pc'[s] = "idle"
  PROVE  IsFiniteSet({ s \in Requests : pc'[s] # "idle" })
<1>1. IsFiniteSet({ s \in Requests : pc[s] # "idle" } \union {r})
  BY FS_AddElement
<1>2. { s \in Requests : pc'[s] # "idle" } \in SUBSET ({ s \in Requests : pc[s] # "idle" } \union {r})
  OBVIOUS
<1>3. QED
  BY <1>1, <1>2, FS_Subset

\* A request counted in memory is judged there.
LEMMA MemoryStep ==
  ASSUME Sound, NEW r \in Requests, NEW c \in Callers, NEW via \in {"timeout", "breaker"},
         CountInMemory(r, c, via), pc[r] # "done", pc[r] # "idle" => caller[r] = c,
         caller' = [caller EXCEPT ![r] = c], reply' = [reply EXCEPT ![r] = 0],
         UNCHANGED <<now, redis, queued, ran>>, downUntil' \in Nat
  PROVE  Sound'
<1> DEFINE k == Key(c)
<1>1. /\ now \in 0 .. Horizon /\ now \in Nat /\ IsFiniteSet(Held)
      /\ ran \in Histories /\ fell \in Histories
      /\ IsFiniteSet({ s \in Requests : pc[s] # "idle" })
      /\ IsFiniteSet({ s \in Requests : fell[s] # None })
      /\ \A q \in Requests : Standing(q)
  BY SoundTypes
<1>2. /\ fallback' \in [Keys -> [n : Nat, until : Nat, first : Requests \union {None}, place : Nat]]
      /\ IsFiniteSet(Held') /\ Cardinality(Held') <= MaxEntries
      /\ fallback'[k].n \in Nat \ {0}
      /\ lost' \in Losses
      /\ fell' = [fell EXCEPT ![r] = [key |-> k, at |-> now, n |-> fallback'[k].n,
                                      first |-> fallback'[k].first]]
      /\ Decide(r, c, fallback'[k].n, via)
  BY <1>1, MemoryWrites DEF Sound
<1>3. fell[r] = None
  BY <1>1 DEF Standing
<1>4. MemoryCounts' /\ fell' \in Histories
  BY <1>1, <1>3, MemoryKeepsCounts DEF Sound
<1> DEFINE o == IF fallback'[k].n <= Limit[c.group] THEN "pass" ELSE "reject"
<1>5. /\ pc' = [pc EXCEPT ![r] = "done"]
      /\ verdict' = [verdict EXCEPT ![r] = [outcome |-> o, via |-> via]]
  BY <1>2 DEF Decide
<1>6. o \in {"pass", "reject"} /\ (o = "pass" <=> fallback'[k].n <= Limit[c.group])
  OBVIOUS
<1> HIDE DEF o
<1>7. [outcome |-> o, via |-> via] \in Verdict /\ [outcome |-> o, via |-> via] # None
  BY <1>6, RecordAssumption DEF Verdict
<1>8. TypeOK'
  BY <1>2, <1>4, <1>5, <1>7 DEF Sound, TypeOK, Histories, Losses
<1>9. RedisCounts'
  BY DEF Sound, RedisCounts
<1>10. ASSUME NEW q \in Requests PROVE Standing(q)'
  <2>1. CASE q # r
    <3>1. /\ pc'[q] = pc[q] /\ caller'[q] = caller[q] /\ fell'[q] = fell[q]
          /\ reply'[q] = reply[q] /\ verdict'[q] = verdict[q]
      BY <1>2, <1>5, <2>1 DEF Sound, TypeOK
    <3>2. QED
      BY <1>1, <3>1, StandingStays
  <2>2. CASE q = r
    <3>1. /\ pc'[r] = "done" /\ caller'[r] = c /\ reply'[r] = 0
          /\ verdict'[r] = [outcome |-> o, via |-> via]
          /\ fell'[r] = [key |-> k, at |-> now, n |-> fallback'[k].n,
                         first |-> fallback'[k].first]
      BY <1>2, <1>5 DEF Sound, TypeOK
    <3>2. ~ByRedis(r)' /\ Decided(r)' /\ Store(r)' = fell'
      BY <1>7, <3>1 DEF ByRedis, Decided, Store
    <3>3. fell'[r].key = KeyOf(r)' /\ LimitOf(r)' = Limit[c.group]
      BY <3>1 DEF KeyOf, LimitOf
    <3>4. fell'[r] # None
      <4>0. k \in Keys /\ fallback'[k].n > 0
        BY <1>2, KeyFacts
      <4>1. IsCurrent(fallback'[k], k, fell', lost')
        <5> HIDE DEF k
        <5>1. Counts(fallback', fell', lost', now')
          BY <1>4 DEF MemoryCounts
        <5>2. QED
          BY <4>0, <5>1 DEF Counts
      <4>2. fallback'[k].first \in Requests
        BY <4>1 DEF IsCurrent, OpenedIn
      <4>3. QED
        BY <1>1, <1>2, <3>1, <4>2, KeyFacts, RecordIsSome
    <3>5. /\ r \in queued' => ran'[r] = None
          /\ ran'[r] # None => ran'[r].key = KeyOf(r)'
      BY <1>1, <3>1 DEF Standing, KeyOf
    <3>6. QED
      BY <1>6, <2>2, <3>1, <3>2, <3>3, <3>4, <3>5 DEF Standing
  <2>3. QED
    BY <2>1, <2>2
<1>11. IsFiniteSet({ s \in Requests : pc'[s] # "idle" })
  BY <1>1, <1>5, BegunStaysFinite
<1>12. QED
  BY <1>2, <1>4, <1>8, <1>9, <1>10, <1>11 DEF Sound, Progress

LEMMA ArriveStep ==
  ASSUME Sound, NEW r \in Requests, NEW c \in Callers, Arrive(r, c)
  PROVE  Sound'
<1>1. pc[r] = "idle" /\ caller' = [caller EXCEPT ![r] = c] /\ UNCHANGED <<now, redis, reply, downUntil, ran>>
  BY DEF Arrive
<1>2. /\ IsFiniteSet(Held) /\ IsFiniteSet({ s \in Requests : pc[s] # "idle" })
      /\ \A q \in Requests : Standing(q)
  BY SoundTypes
<1>3. CASE CountInMemory(r, c, "breaker") /\ UNCHANGED queued
  <2>1. reply[r] = 0
    BY <1>1, <1>2 DEF Standing, Sound, TypeOK
  <2>2. reply' = [reply EXCEPT ![r] = 0] /\ downUntil' \in Nat
    BY <1>1, <2>1 DEF Sound, TypeOK
  <2>3. QED
    BY <1>1, <1>3, <2>2, MemoryStep
<1>4. CASE /\ pc' = [pc EXCEPT ![r] = "waiting"] /\ queued' = queued \union {r}
           /\ UNCHANGED <<fallback, lost, verdict, fell>>
  <2>1. TypeOK'
    <3>1. Held' = Held
      BY <1>4 DEF Held
    <3>2. QED
      BY <1>1, <1>4, <3>1 DEF Sound, TypeOK
  <2>2. RedisCounts' /\ MemoryCounts'
    BY <1>1, <1>4 DEF Sound, RedisCounts, MemoryCounts
  <2>3. ASSUME NEW q \in Requests PROVE Standing(q)'
    <3>1. CASE q # r
      <4>1. /\ pc'[q] = pc[q] /\ caller'[q] = caller[q] /\ (q \in queued' <=> q \in queued)
        BY <1>1, <1>4, <3>1 DEF Sound, TypeOK
      <4>2. QED
        BY <1>1, <1>2, <1>4, <4>1, StandingStays
    <3>2. CASE q = r
      <4>1. pc'[r] = "waiting" /\ caller'[r] = c
        BY <1>1, <1>4 DEF Sound, TypeOK
      <4>2. ran[r] = None /\ fell[r] = None /\ ~Decided(r) /\ ~(reply[r] > 0)
        BY <1>1, <1>2 DEF Standing
      <4>3. QED
        BY <1>1, <1>4, <3>2, <4>1, <4>2 DEF Standing, Decided
    <3>3. QED
      BY <3>1, <3>2
  <2>4. IsFiniteSet({ s \in Requests : pc'[s] # "idle" })
    BY <1>2, <1>4, BegunStaysFinite
  <2>5. IsFiniteSet(Held')
    BY <1>2, <1>4 DEF Held
  <2>6. QED
    BY <2>1, <2>2, <2>3, <2>4, <2>5 DEF Sound, Progress
<1>5. QED
  BY <1>3, <1>4 DEF Arrive

LEMMA GiveUpStep ==
  ASSUME Sound, NEW r \in Requests, GiveUp(r)
  PROVE  Sound'
<1>1. /\ pc[r] = "waiting" /\ downUntil' = now + Cooldown
      /\ CountInMemory(r, caller[r], "timeout") /\ reply' = [reply EXCEPT ![r] = 0]
      /\ UNCHANGED <<now, redis, queued, caller, ran>>
  BY DEF GiveUp
<1>2. caller[r] \in Callers /\ now \in Nat
  BY <1>1, SoundTypes DEF Standing
<1>3. downUntil' \in Nat /\ caller' = [caller EXCEPT ![r] = caller[r]]
  BY <1>1, <1>2, RateAssumption DEF Sound, TypeOK
<1>4. QED
  BY <1>1, <1>2, <1>3, MemoryStep

LEMMA ReceiveStep ==
  ASSUME Sound, NEW r \in Requests, Receive(r)
  PROVE  Sound'
<1> DEFINE o == IF reply[r] <= Limit[caller[r].group] THEN "pass" ELSE "reject"
<1>1. /\ pc[r] = "waiting" /\ reply[r] > 0
      /\ pc' = [pc EXCEPT ![r] = "done"]
      /\ verdict' = [verdict EXCEPT ![r] = [outcome |-> o, via |-> "redis"]]
      /\ reply' = [reply EXCEPT ![r] = 0]
      /\ UNCHANGED <<now, redis, fallback, downUntil, queued, caller, ran, fell, lost>>
  BY DEF Receive, Decide
<1>2. o \in {"pass", "reject"} /\ (o = "pass" <=> reply[r] <= Limit[caller[r].group])
  OBVIOUS
<1> HIDE DEF o
<1>3. [outcome |-> o, via |-> "redis"] \in Verdict /\ [outcome |-> o, via |-> "redis"] # None
  BY <1>2, RecordAssumption DEF Verdict
<1>4. /\ IsFiniteSet(Held) /\ IsFiniteSet({ s \in Requests : pc[s] # "idle" })
      /\ \A q \in Requests : Standing(q)
  BY SoundTypes
<1>5. Held' = Held
  BY <1>1 DEF Held
<1>6. TypeOK'
  BY <1>1, <1>3, <1>5 DEF Sound, TypeOK
<1>7. RedisCounts' /\ MemoryCounts'
  BY <1>1 DEF Sound, RedisCounts, MemoryCounts
<1>8. ASSUME NEW q \in Requests PROVE Standing(q)'
  <2>1. CASE q # r
    <3>1. pc'[q] = pc[q] /\ reply'[q] = reply[q] /\ verdict'[q] = verdict[q]
      BY <1>1, <2>1 DEF Sound, TypeOK
    <3>2. QED
      BY <1>1, <1>4, <3>1, StandingStays
  <2>2. CASE q = r
    <3>1. /\ pc'[r] = "done" /\ reply'[r] = 0
          /\ verdict'[r] = [outcome |-> o, via |-> "redis"]
      BY <1>1 DEF Sound, TypeOK
    <3>2. ByRedis(r)' /\ Decided(r)' /\ Store(r)' = ran
      BY <1>1, <1>3, <3>1 DEF ByRedis, Decided, Store
    <3>3. KeyOf(r)' = KeyOf(r) /\ LimitOf(r)' = Limit[caller[r].group]
      BY <1>1 DEF KeyOf, LimitOf
    <3>4. ran[r] # None /\ ran[r].n = reply[r]
      BY <1>1, <1>4 DEF Standing
    <3>5. QED
      BY <1>1, <1>2, <1>4, <2>2, <3>1, <3>2, <3>3, <3>4 DEF Standing
  <2>3. QED
    BY <2>1, <2>2
<1>9. IsFiniteSet({ s \in Requests : pc'[s] # "idle" })
  BY <1>1, <1>4, BegunStaysFinite
<1>10. QED
  BY <1>4, <1>5, <1>6, <1>7, <1>8, <1>9 DEF Sound, Progress

LEMMA RedisRunsStep ==
  ASSUME Sound, NEW r \in Requests, RedisRuns(r)
  PROVE  Sound'
<1> DEFINE k == KeyOf(r)
           e == Counted(redis[k], r, caller[r])
           W == Window[caller[r].group]
<1>1. /\ r \in queued /\ queued' = queued \ {r}
      /\ redis' = [redis EXCEPT ![k] = e]
      /\ reply' = [reply EXCEPT ![r] = IF pc[r] = "waiting" THEN e.n ELSE 0]
      /\ ran' = [ran EXCEPT ![r] = [key |-> k, at |-> now, n |-> e.n, first |-> e.first]]
      /\ UNCHANGED <<now, fallback, downUntil, pc, caller, verdict, fell, lost>>
  BY DEF RedisRuns
<1>2. /\ now \in 0 .. Horizon /\ now \in Nat /\ ran \in Histories /\ Nothing \in Losses
      /\ IsFiniteSet(Held) /\ IsFiniteSet({ s \in Requests : pc[s] # "idle" })
      /\ \A q \in Requests : Standing(q)
  BY SoundTypes
<1>3. pc[r] # "idle" /\ ran[r] = None /\ caller[r] \in Callers
  BY <1>1, <1>2 DEF Standing
<1>4. k \in Keys /\ k.group = caller[r].group /\ W \in Nat \ {0}
  BY <1>3, KeyFacts DEF KeyOf
<1> HIDE DEF k
<1>5. redis[k] \in Entry /\ redis[k].n \in Nat /\ redis[k].until \in Nat
  BY <1>4 DEF Sound, TypeOK, Entry
<1>6. Counts(redis, ran, Nothing, now) /\ \A j \in Keys : redis[j].n > 0 => now < redis[j].until
  BY DEF Sound, RedisCounts
<1>7. redis[k].n # 0 =>
        /\ e.n = redis[k].n + 1 /\ e.first = redis[k].first /\ e.until = redis[k].until
        /\ e.first \in Requests /\ now < redis[k].until /\ e \in Entry
  <2>1. SUFFICES ASSUME redis[k].n # 0
                 PROVE  /\ e.n = redis[k].n + 1 /\ e.first = redis[k].first
                        /\ e.until = redis[k].until
                        /\ e.first \in Requests /\ now < redis[k].until /\ e \in Entry
    OBVIOUS
  <2>2. e = [redis[k] EXCEPT !.n = @ + 1]
    BY <2>1 DEF Counted
  <2>3. e = [n |-> redis[k].n + 1, until |-> redis[k].until, first |-> redis[k].first]
    BY <1>5, <2>2 DEF Entry
  <2>4. redis[k].n > 0
    BY <1>5, <2>1
  <2>5. IsCurrent(redis[k], k, ran, Nothing)
    BY <1>4, <1>6, <2>4 DEF Counts
  <2>6. redis[k].first \in Requests
    BY <2>5 DEF IsCurrent, OpenedIn
  <2> HIDE DEF e
  <2>7. QED
    BY <1>4, <1>5, <1>6, <2>3, <2>4, <2>6 DEF Entry
<1>8. redis[k].n = 0 => /\ e.n = 1 /\ e.first = r /\ e.until = now + W /\ e \in Entry
  BY <1>2, <1>4 DEF Counted, Entry
<1>9. e.n \in Nat \ {0} /\ e.first \in Requests /\ e.until \in Nat /\ now < e.until /\ e \in Entry
  <2> HIDE DEF e, W
  <2>1. QED
    BY <1>2, <1>4, <1>5, <1>7, <1>8
<1> HIDE DEF e
<1>10. [key |-> k, at |-> now, n |-> e.n, first |-> e.first] \in Record
       /\ [key |-> k, at |-> now, n |-> e.n, first |-> e.first] # None
  BY <1>2, <1>4, <1>9, RecordIsSome
<1>11. /\ ran'[r] = [key |-> k, at |-> now, n |-> e.n, first |-> e.first]
       /\ \A q \in Requests \ {r} : ran'[q] = ran[q]
       /\ ran' \in Histories
  BY <1>1, <1>2, <1>10 DEF Histories
<1>12. redis'[k] = e /\ \A j \in Keys \ {k} : redis'[j] = redis[j]
  BY <1>1, <1>4 DEF Sound, TypeOK
<1>13. Held' = Held
  BY <1>1 DEF Held
<1>14. TypeOK'
  <2>1. redis' \in [Keys -> Entry]
    BY <1>1, <1>9 DEF Sound, TypeOK
  <2>2. reply' \in [Requests -> Nat] /\ queued' \subseteq Requests
    BY <1>1, <1>9 DEF Sound, TypeOK
  <2>3. QED
    BY <1>1, <1>11, <1>13, <2>1, <2>2 DEF Sound, TypeOK, Histories
<1>15. Counting(redis, redis', ran, ran', now, k, r)
  BY <1>3, <1>11, <1>12 DEF Counting
<1>16. Counts(redis', ran', Nothing, now)
  <2>1. CASE redis[k].n # 0
    <3>1. Joining(redis[k], redis'[k], now)
      BY <1>5, <1>7, <1>12, <2>1 DEF Joining
    <3>2. QED
      BY <1>2, <1>4, <1>6, <1>11, <1>15, <3>1, WindowJoined
  <2>2. CASE redis[k].n = 0
    <3>1. Opening(redis[k], redis'[k], now, k, r)
      BY <1>4, <1>8, <1>12, <2>2 DEF Opening
    <3>2. QED
      BY <1>2, <1>4, <1>6, <1>11, <1>15, <3>1, WindowOpened
  <2>3. QED
    BY <2>1, <2>2
<1>17. RedisCounts'
  <2>1. \A j \in Keys : redis'[j].n > 0 => now < redis'[j].until
    BY <1>6, <1>9, <1>12
  <2>2. Nothing' = Nothing
    BY DEF Nothing
  <2>3. QED
    BY <1>1, <1>16, <2>1, <2>2 DEF RedisCounts
<1>18. MemoryCounts'
  BY <1>1 DEF Sound, MemoryCounts
<1>19. ASSUME NEW q \in Requests PROVE Standing(q)'
  <2>1. CASE q # r
    <3>1. ran'[q] = ran[q] /\ reply'[q] = reply[q] /\ (q \in queued' <=> q \in queued)
      BY <1>1, <1>11, <2>1 DEF Sound, TypeOK
    <3>2. QED
      BY <1>1, <1>2, <3>1, StandingStays
  <2>2. CASE q = r
    <3>1. r \notin queued' /\ ran'[r] # None /\ ran'[r].key = k /\ ran'[r].n = e.n
      BY <1>1, <1>10, <1>11
    <3>2. reply'[r] = e.n \/ reply'[r] = 0
      BY <1>1 DEF Sound, TypeOK
    <3>3. KeyOf(r)' = k /\ LimitOf(r)' = LimitOf(r)
      BY <1>1 DEF KeyOf, LimitOf, k
    <3>4. Decided(r) => ~ByRedis(r)
      BY <1>2, <1>3 DEF Standing, Store
    <3>5. Decided(r)' => Decided(r) /\ ~ByRedis(r) /\ ~ByRedis(r)' /\ verdict' = verdict
      BY <1>1, <3>4 DEF Decided, ByRedis
    <3>6. Decided(r)' => /\ Store(r)'[r] = fell[r] /\ Store(r)[r] = fell[r]
      BY <1>1, <3>5 DEF Store
    <3>7. Decided(r)' => /\ Store(r)'[r] # None
                         /\ verdict'[r].outcome = "pass" <=> Store(r)'[r].n <= LimitOf(r)'
      BY <1>2, <3>3, <3>5, <3>6 DEF Standing
    <3>8. reply'[r] > 0 => ran'[r] # None /\ ran'[r].n = reply'[r]
      BY <3>1, <3>2
    <3>9. /\ fell'[r] # None \/ Decided(r)' => pc'[r] = "done"
          /\ fell'[r] # None => fell'[r].key = KeyOf(r)'
          /\ pc'[r] # "idle" /\ caller'[r] \in Callers
      BY <1>1, <1>2, <1>3, <3>3, <3>5 DEF Standing, k
    <3>10. QED
      BY <2>2, <3>1, <3>3, <3>7, <3>8, <3>9 DEF Standing
  <2>3. QED
    BY <2>1, <2>2
<1>20. QED
  BY <1>1, <1>2, <1>13, <1>14, <1>17, <1>18, <1>19 DEF Sound, Progress

LEMMA RestartStep ==
  ASSUME Sound, Restart
  PROVE  Sound'
<1>1. /\ fallback' = [j \in Keys |-> NotInMemory] /\ downUntil' = 0
      /\ lost' = [s \in Requests |-> IF \E j \in Running : fallback[j].first = s
                                     THEN now ELSE lost[s]]
      /\ pc' = [q \in Requests |-> IF pc[q] = "waiting" THEN "done" ELSE pc[q]]
      /\ reply' = [q \in Requests |-> 0]
      /\ UNCHANGED <<now, redis, queued, caller, verdict, ran, fell>>
  BY DEF Restart, Lose
<1>2. /\ now \in 0 .. Horizon /\ now \in Nat /\ fell \in Histories /\ lost \in Losses
      /\ IsFiniteSet({ s \in Requests : pc[s] # "idle" })
      /\ \A q \in Requests : Standing(q)
  BY SoundTypes
<1>3. \A j \in Keys : fallback'[j].n = 0
  BY <1>1 DEF NotInMemory
<1>4. Held' = {}
  BY <1>3 DEF Held
<1>5. lost' \in Losses
  BY <1>1, <1>2 DEF Losses
<1>6. TypeOK'
  <2>1. fallback' \in [Keys -> [n : Nat, until : Nat, first : Requests \union {None}, place : Nat]]
    BY <1>1 DEF NotInMemory
  <2>2. Cardinality(Held') <= MaxEntries
    BY <1>4, FS_EmptySet, RateAssumption
  <2>3. /\ pc' \in [Requests -> {"idle", "waiting", "done"}] /\ reply' \in [Requests -> Nat]
        /\ downUntil' \in Nat
    BY <1>1 DEF Sound, TypeOK
  <2>4. QED
    BY <1>1, <1>5, <2>1, <2>2, <2>3 DEF Sound, TypeOK, Losses
<1>7. Forgetting(fallback, fallback', lost, lost', now, now)
  <2>1. ASSUME NEW j \in Keys, fallback[j].n > 0, ~(fallback[j].until <= now)
        PROVE  lost'[fallback[j].first] = now
    <3>1. j \in Running
      BY <1>2, <2>1 DEF Running, Held, Sound, TypeOK
    <3>2. IsCurrent(fallback[j], j, fell, lost)
      BY <2>1 DEF Sound, MemoryCounts, Counts
    <3>3. fallback[j].first \in Requests
      BY <3>2 DEF IsCurrent, OpenedIn
    <3>4. QED
      BY <1>1, <3>1, <3>3
  <2>2. ASSUME NEW f \in Requests, lost'[f] # lost[f]
        PROVE  /\ lost'[f] = now
               /\ \E j \in Keys : /\ fallback[j].n > 0 /\ fallback[j].first = f
                                  /\ fallback'[j].n = 0
    <3>1. PICK j \in Running : fallback[j].first = f
      BY <1>1, <2>2
    <3>2. j \in Keys /\ fallback[j].n > 0
      BY <3>1 DEF Running, Held
    <3>3. QED
      BY <1>1, <1>3, <2>2, <3>1, <3>2
  <2>3. QED
    BY <1>3, <2>1, <2>2 DEF Forgetting
<1>8. MemoryCounts'
  <2>1. Counts(fallback, fell, lost, now) /\ now <= now
    BY <1>2 DEF Sound, MemoryCounts
  <2>2. Counts(fallback', fell, lost', now)
    BY <1>2, <1>5, <1>7, <2>1, StoreForgets
  <2>3. QED
    BY <1>1, <2>2 DEF MemoryCounts
<1>9. RedisCounts'
  BY <1>1 DEF Sound, RedisCounts
<1>10. ASSUME NEW q \in Requests PROVE Standing(q)'
  <2>1. /\ reply'[q] = 0 /\ pc'[q] = IF pc[q] = "waiting" THEN "done" ELSE pc[q]
    BY <1>1
  <2>2. KeyOf(q)' = KeyOf(q) /\ LimitOf(q)' = LimitOf(q) /\ Decided(q)' = Decided(q)
        /\ Store(q)' = Store(q)
    BY <1>1 DEF KeyOf, LimitOf, Decided, Store, ByRedis
  <2>3. Standing(q)
    BY <1>2
  <2>4. QED
    BY <1>1, <2>1, <2>2, <2>3 DEF Standing
<1>11. IsFiniteSet({ s \in Requests : pc'[s] # "idle" })
  <2>1. { s \in Requests : pc'[s] # "idle" } = { s \in Requests : pc[s] # "idle" }
    BY <1>1
  <2>2. QED
    BY <1>2, <2>1
<1>12. QED
  BY <1>4, <1>6, <1>8, <1>9, <1>10, <1>11, FS_EmptySet DEF Sound, Progress

LEMMA TickStep ==
  ASSUME Sound, Tick
  PROVE  Sound'
<1>1. /\ now < Horizon /\ now' = now + 1
      /\ redis' = [k \in Keys |-> IF redis[k].until <= now + 1 THEN Absent ELSE redis[k]]
      /\ UNCHANGED <<fallback, downUntil, queued, reply, pc, caller, verdict, ran, fell, lost>>
  BY DEF Tick
<1>2. /\ now \in 0 .. Horizon /\ now \in Nat /\ fell \in Histories /\ lost \in Losses
      /\ ran \in Histories /\ Nothing \in Losses
      /\ IsFiniteSet(Held) /\ IsFiniteSet({ s \in Requests : pc[s] # "idle" })
      /\ \A q \in Requests : Standing(q)
  BY SoundTypes
<1>3. now + 1 \in 0 .. Horizon /\ now + 1 \in Nat /\ now <= now + 1
  BY <1>1, <1>2, RateAssumption
<1>4. Held' = Held
  BY <1>1 DEF Held
<1>5. TypeOK'
  <2>1. redis' \in [Keys -> Entry]
    <3>1. Absent \in Entry
      BY DEF Absent, Entry
    <3>2. redis \in [Keys -> Entry]
      BY DEF Sound, TypeOK
    <3>3. QED
      BY <1>1, <3>1, <3>2
  <2>2. QED
    BY <1>1, <1>3, <1>4, <2>1 DEF Sound, TypeOK
<1>6. MemoryCounts'
  <2>1. Forgetting(fallback, fallback, lost, lost, now, now + 1)
    BY DEF Forgetting
  <2>2. Counts(fallback, fell, lost, now)
    BY DEF Sound, MemoryCounts
  <2>3. Counts(fallback, fell, lost, now + 1)
    BY <1>2, <1>3, <2>1, <2>2, StoreForgets
  <2>4. QED
    BY <1>1, <2>3 DEF MemoryCounts
<1>7. RedisCounts'
  <2>1. Forgetting(redis, redis', Nothing, Nothing, now, now + 1)
    BY <1>1 DEF Forgetting, Absent
  <2>2. Counts(redis, ran, Nothing, now)
    BY DEF Sound, RedisCounts
  <2>3. Counts(redis', ran, Nothing, now + 1)
    BY <1>2, <1>3, <2>1, <2>2, StoreForgets
  <2>4. \A k \in Keys : redis'[k].n > 0 => now + 1 < redis'[k].until
    <3>1. \A k \in Keys : redis[k].until \in Nat
      BY DEF Sound, TypeOK, Entry
    <3>2. QED
      BY <1>1, <1>3, <3>1 DEF Absent
  <2>5. Nothing' = Nothing
    BY DEF Nothing
  <2>6. QED
    BY <1>1, <2>3, <2>4, <2>5 DEF RedisCounts
<1>8. ASSUME NEW q \in Requests PROVE Standing(q)'
  BY <1>1, <1>2, StandingStays
<1>9. QED
  BY <1>1, <1>2, <1>4, <1>5, <1>6, <1>7, <1>8 DEF Sound, Progress

LEMMA SoundStep ==
  ASSUME Sound, [Next]_vars
  PROVE  Sound'
<1>1. CASE UNCHANGED vars
  <2>1. UNCHANGED <<now, redis, fallback, downUntil, queued, reply, pc, caller, verdict, ran, fell, lost>>
    BY <1>1 DEF vars
  <2>2. Held' = Held
    BY <2>1 DEF Held
  <2>3. TypeOK' /\ RedisCounts' /\ MemoryCounts'
    BY <2>1, <2>2 DEF Sound, TypeOK, RedisCounts, MemoryCounts
  <2>4. \A q \in Requests : Standing(q)'
    BY <2>1, SoundTypes, StandingStays
  <2>5. QED
    BY <2>1, <2>2, <2>3, <2>4 DEF Sound, Progress
<1>2. QED
  BY <1>1, ArriveStep, RedisRunsStep, ReceiveStep, GiveUpStep, RestartStep, TickStep DEF Next

-----------------------------------------------------------------------------
(* The breaker                                                              *)

\* What counting in memory does to the request, whatever the store holds.
LEMMA MemoryJudges ==
  ASSUME NEW r \in Requests, NEW c \in Callers, NEW via, CountInMemory(r, c, via)
  PROVE  /\ \E n : Decide(r, c, n, via)
         /\ \E e : e.at = now /\ fell' = [fell EXCEPT ![r] = e]
BY DEF CountInMemory

\* Steps that judge a request, or leave every judgement as it is.
Judges(r) ==
  /\ r \in Requests /\ pc[r] # "done" /\ now' = now
  /\ \E n, c : \/ Decide(r, c, n, "breaker") /\ now < downUntil
                  /\ downUntil' = downUntil /\ \E e : e.at = now /\ fell' = [fell EXCEPT ![r] = e]
               \/ Decide(r, c, n, "redis") /\ downUntil' = downUntil /\ fell' = fell
               \/ /\ Decide(r, c, n, "timeout") /\ downUntil' = now + Cooldown
                  /\ \E e : e.at = now /\ fell' = [fell EXCEPT ![r] = e]
Spares ==
  /\ verdict' = verdict /\ fell' = fell
  /\ \A q \in Requests : pc[q] = "done" => pc'[q] = "done"
  /\ \/ now' = now /\ downUntil' \in {downUntil, 0}
     \/ now' = now + 1 /\ downUntil' = downUntil

LEMMA JudgementSteps ==
  ASSUME Sound, [Next]_vars
  PROVE  /\ Spares \/ \E r \in Requests : Judges(r)
         /\ pc' \in [Requests -> {"idle", "waiting", "done"}]
<1>0. pc \in [Requests -> {"idle", "waiting", "done"}]
  BY DEF Sound, TypeOK
<1>1. ASSUME NEW r \in Requests, NEW c \in Callers, Arrive(r, c)
      PROVE  /\ Spares \/ Judges(r)
             /\ pc' \in [Requests -> {"idle", "waiting", "done"}]
  <2>1. pc[r] = "idle" /\ now' = now /\ downUntil' = downUntil
    BY <1>1 DEF Arrive
  <2>2. CASE now < downUntil /\ CountInMemory(r, c, "breaker")
    <3>1. (\E n : Decide(r, c, n, "breaker")) /\ \E e : e.at = now /\ fell' = [fell EXCEPT ![r] = e]
      BY <2>2, MemoryJudges
    <3>2. Judges(r)
      BY <2>1, <2>2, <3>1 DEF Judges
    <3>3. pc' \in [Requests -> {"idle", "waiting", "done"}]
      BY <1>0, <3>1 DEF Decide
    <3>4. QED
      BY <3>2, <3>3
  <2>3. CASE /\ pc' = [pc EXCEPT ![r] = "waiting"] /\ verdict' = verdict /\ fell' = fell
    BY <1>0, <2>1, <2>3 DEF Spares
  <2>4. QED
    BY <1>1, <2>2, <2>3 DEF Arrive
<1>2. ASSUME NEW r \in Requests, RedisRuns(r)
      PROVE  Spares /\ pc' \in [Requests -> {"idle", "waiting", "done"}]
  BY <1>0, <1>2 DEF RedisRuns, Spares
<1>3. ASSUME NEW r \in Requests, Receive(r)
      PROVE  Judges(r) /\ pc' \in [Requests -> {"idle", "waiting", "done"}]
  <2>1. pc[r] = "waiting" /\ now' = now /\ downUntil' = downUntil /\ fell' = fell
        /\ \E n, c : Decide(r, c, n, "redis")
    BY <1>3 DEF Receive
  <2>2. QED
    BY <1>0, <2>1 DEF Judges, Decide
<1>4. ASSUME NEW r \in Requests, GiveUp(r)
      PROVE  Judges(r) /\ pc' \in [Requests -> {"idle", "waiting", "done"}]
  <2>1. /\ pc[r] = "waiting" /\ now' = now /\ downUntil' = now + Cooldown
        /\ CountInMemory(r, caller[r], "timeout")
    BY <1>4 DEF GiveUp
  <2>2. (\E n, c : Decide(r, c, n, "timeout")) /\ \E e : e.at = now /\ fell' = [fell EXCEPT ![r] = e]
    BY <2>1 DEF CountInMemory
  <2>3. Judges(r)
    BY <2>1, <2>2 DEF Judges
  <2>4. pc' \in [Requests -> {"idle", "waiting", "done"}]
    BY <1>0, <2>2 DEF Decide
  <2>5. QED
    BY <2>3, <2>4
<1>5. ASSUME Restart \/ Tick \/ UNCHANGED vars
      PROVE  Spares /\ pc' \in [Requests -> {"idle", "waiting", "done"}]
  BY <1>0, <1>5 DEF Restart, Tick, vars, Spares
<1>6. QED
  BY <1>1, <1>2, <1>3, <1>4, <1>5 DEF Next

\* The judged request stays judged, as it is.
LEMMA JudgedStays ==
  ASSUME Sound, [Next]_vars, NEW s \in Requests, Decided(s)
  PROVE  /\ verdict'[s] = verdict[s] /\ fell'[s] = fell[s] /\ Decided(s)'
<1>1. pc[s] = "done"
  BY SoundTypes DEF Standing
<1>2. ASSUME NEW r \in Requests, Judges(r) PROVE verdict'[s] = verdict[s] /\ fell'[s] = fell[s]
  <2>1. r # s
    BY <1>1, <1>2 DEF Judges
  <2>2. DOMAIN verdict = Requests /\ DOMAIN fell = Requests
    BY DEF Sound, TypeOK
  <2>3. QED
    BY <1>2, <2>1, <2>2 DEF Judges, Decide
<1>3. QED
  BY <1>2, JudgementSteps DEF Spares, Decided

\* What a judgement writes.
LEMMA JudgesRequest ==
  ASSUME Sound, NEW r \in Requests, Judges(r)
  PROVE  /\ verdict'[r] \in Verdict /\ Decided(r)' /\ pc'[r] = "done" /\ now' = now
         /\ \/ /\ verdict'[r].via = "breaker" /\ now < downUntil /\ downUntil' = downUntil
               /\ fell'[r].at = now
            \/ verdict'[r].via = "redis" /\ downUntil' = downUntil
            \/ verdict'[r].via = "timeout" /\ downUntil' = now + Cooldown /\ fell'[r].at = now
         /\ \A q \in Requests \ {r} : verdict'[q] = verdict[q] /\ pc'[q] = pc[q]
<1>1. /\ now \in Nat /\ downUntil \in Nat /\ pc \in [Requests -> {"idle", "waiting", "done"}]
      /\ verdict \in [Requests -> Verdict \union {None}] /\ DOMAIN fell = Requests
  BY SoundTypes DEF Sound, TypeOK
<1>2. PICK v \in Verdict : /\ verdict' = [verdict EXCEPT ![r] = v]
                           /\ pc' = [pc EXCEPT ![r] = "done"]
                           /\ \/ /\ v.via = "breaker" /\ now < downUntil /\ downUntil' = downUntil
                                 /\ \E e : e.at = now /\ fell' = [fell EXCEPT ![r] = e]
                              \/ v.via = "redis" /\ downUntil' = downUntil /\ fell' = fell
                              \/ /\ v.via = "timeout" /\ downUntil' = now + Cooldown
                                 /\ \E e : e.at = now /\ fell' = [fell EXCEPT ![r] = e]
  <2>1. ASSUME NEW n, NEW c, NEW via \in {"redis", "timeout", "breaker"}, Decide(r, c, n, via)
        PROVE  \E v \in Verdict : /\ verdict' = [verdict EXCEPT ![r] = v] /\ v.via = via
                                  /\ pc' = [pc EXCEPT ![r] = "done"]
    <3> DEFINE o == IF n <= Limit[c.group] THEN "pass" ELSE "reject"
    <3>1. o \in {"pass", "reject"}
      OBVIOUS
    <3>2. /\ verdict' = [verdict EXCEPT ![r] = [outcome |-> o, via |-> via]]
          /\ pc' = [pc EXCEPT ![r] = "done"]
      BY <2>1 DEF Decide
    <3> HIDE DEF o
    <3>3. [outcome |-> o, via |-> via] \in Verdict
      BY <3>1 DEF Verdict
    <3>4. QED
      BY <3>2, <3>3
  <2>2. QED
    BY <2>1 DEF Judges
<1>3. verdict'[r] = v /\ v # None
  BY <1>1, <1>2, RecordAssumption
<1>4. QED
  BY <1>1, <1>2, <1>3 DEF Judges, Decided

LEMMA BreakerStep ==
  ASSUME Sound, BreakerIsTripped, DegradedIsTemporary, [Next]_vars
  PROVE  BreakerIsTripped' /\ DegradedIsTemporary'
<1> USE RateAssumption
<1>1. Sound /\ BreakerIsTripped /\ DegradedIsTemporary
  OBVIOUS
<1>2. now \in Nat /\ downUntil \in Nat
  BY SoundTypes DEF Sound, TypeOK
\* One that gave up stays so.
<1>4. ASSUME NEW s \in Requests, NEW t, TimedOutAt(s, t) PROVE TimedOutAt(s, t)'
  BY <1>1, <1>4, JudgedStays DEF TimedOutAt
<1>5. BreakerIsTripped'
  <2>1. SUFFICES ASSUME now' < downUntil'
                 PROVE  \E s \in Requests, t \in 0 .. now' :
                          TimedOutAt(s, t)' /\ downUntil' = t + Cooldown
    BY DEF BreakerIsTripped
  <2>2. CASE downUntil' = downUntil /\ (now' = now \/ now' = now + 1)
    <3>1. now < downUntil
      BY <1>2, <2>1, <2>2
    <3>2. PICK s \in Requests, t \in 0 .. now : TimedOutAt(s, t) /\ downUntil = t + Cooldown
      BY <1>1, <3>1 DEF BreakerIsTripped
    <3>3. TimedOutAt(s, t)' /\ t \in 0 .. now'
      BY <1>2, <1>4, <2>2, <3>2
    <3>4. QED
      BY <2>2, <3>2, <3>3
  <2>3. ASSUME NEW r \in Requests, Judges(r), downUntil' # downUntil
        PROVE  \E s \in Requests, t \in 0 .. now' :
                 TimedOutAt(s, t)' /\ downUntil' = t + Cooldown
    <3>1. PICK t : t = now
      OBVIOUS
    <3>2. TimedOutAt(r, t)' /\ downUntil' = t + Cooldown /\ t \in 0 .. now'
      BY <1>1, <1>2, <2>3, <3>1, JudgesRequest DEF TimedOutAt
    <3>3. QED
      BY <3>2
  <2>4. CASE downUntil' = 0 /\ now' = now
    BY <1>2, <2>1, <2>4
  <2>5. CASE Spares
    BY <2>2, <2>4, <2>5 DEF Spares
  <2>6. ASSUME NEW r \in Requests, Judges(r) PROVE now' = now
    BY <2>6 DEF Judges
  <2>7. QED
    BY <1>1, <2>2, <2>3, <2>5, <2>6, JudgementSteps
<1>6. DegradedIsTemporary'
  <2>1. SUFFICES ASSUME NEW r \in Requests, Decided(r)', verdict'[r].via = "breaker"
                 PROVE  \E s \in Requests :
                          /\ Decided(s)' /\ verdict'[s].via = "timeout"
                          /\ fell'[s].at \in fell'[r].at - Cooldown + 1 .. fell'[r].at
    BY DEF DegradedIsTemporary
  <2>2. CASE Decided(r)
    <3>1. PICK s \in Requests : /\ Decided(s) /\ verdict[s].via = "timeout"
                                /\ fell[s].at \in fell[r].at - Cooldown + 1 .. fell[r].at
      <4>1. verdict[r].via = "breaker"
        BY <1>1, <2>1, <2>2, JudgedStays
      <4>2. QED
        BY <1>1, <2>2, <4>1 DEF DegradedIsTemporary
    <3>2. QED
      BY <1>1, <2>2, <3>1, JudgedStays
  <2>3. CASE ~Decided(r)
    <3>1. Judges(r)
      <4>1. ~Spares
        BY <2>1, <2>3 DEF Spares, Decided
      <4>2. ASSUME NEW q \in Requests, Judges(q), q # r PROVE FALSE
        BY <1>1, <2>1, <2>3, <4>2, JudgesRequest DEF Decided
      <4>3. QED
        BY <1>1, <4>1, <4>2, JudgementSteps
    <3>2. now < downUntil /\ fell'[r].at = now
      BY <1>1, <2>1, <3>1, JudgesRequest
    <3>3. PICK s \in Requests, t \in 0 .. now : TimedOutAt(s, t) /\ downUntil = t + Cooldown
      BY <1>1, <3>2 DEF BreakerIsTripped
    <3>4. Decided(s)' /\ verdict'[s].via = "timeout" /\ fell'[s].at = t
      BY <1>1, <3>3, JudgedStays DEF TimedOutAt
    <3>5. t \in now - Cooldown + 1 .. now
      BY <1>2, <3>2, <3>3
    <3>6. QED
      BY <3>2, <3>4, <3>5
  <2>4. QED
    BY <2>2, <2>3
<1>7. QED
  BY <1>5, <1>6

-----------------------------------------------------------------------------
(* How many are admitted                                                    *)

\* Bound on the pairs of a window and a number.
LEMMA Multiples ==
  ASSUME NEW a \in Nat, NEW b \in Nat, a <= b, NEW L \in Nat \ {0}
  PROVE  a * L \in Nat /\ b * L \in Nat /\ a * L <= b * L /\ (1 + b) * L < (2 + b) * L
<1>1. PICK c \in Nat : b = a + c
  <2>1. b - a \in Nat /\ b = a + (b - a)
    OBVIOUS
  <2>2. QED
    BY <2>1
<1>2. c * L \in Nat /\ a * L \in Nat /\ (a + c) * L = a * L + c * L
  OBVIOUS
<1>3. (2 + b) * L = (1 + b) * L + L /\ (1 + b) * L \in Nat
  OBVIOUS
<1>4. QED
  BY <1>1, <1>2, <1>3

\* A stretch of one window's length, what is admitted in it and which windows
\* are lost in it.
Stretch(K, t) == t .. t + Window[K.group] - 1
Taken(h, K, L, t) ==
  { s \in Requests : h[s] # None /\ h[s].key = K /\ h[s].n <= L /\ h[s].at \in Stretch(K, t) }
Losing(h, l, K, t) ==
  { f \in OpenedIn(h) : h[f].key = K /\ l[f] # None /\ l[f] \in Stretch(K, t) }

\* The windows that reach into a stretch of one window's length: no more than
\* two were not lost in it, and of two one was opened before it.
LEMMA WindowsThatReach ==
  ASSUME NEW h \in Histories, NEW l \in Losses, NEW u, NEW K \in Keys, NEW t \in Nat,
         NEW store, Counts(store, h, l, u),
         NEW L \in Nat \ {0}, NEW s1 \in Taken(h, K, L, t), NEW s2 \in Taken(h, K, L, t),
         Ended(h, l, h[s1].first, h[h[s2].first].at), h[s1].first \notin Losing(h, l, K, t)
  PROVE  h[h[s1].first].at < t /\ t <= h[h[s2].first].at
<1> DEFINE f == h[s1].first
           g == h[s2].first
           W == Window[K.group]
<1>0. /\ s1 \in Requests /\ h[s1] # None /\ h[s1].key = K /\ h[s1].at \in t .. t + W - 1
      /\ s2 \in Requests /\ h[s2] # None /\ h[s2].key = K /\ h[s2].at \in t .. t + W - 1
  BY DEF Taken, Stretch
<1>1. CountsOnce(h, l, s1, u) /\ CountsOnce(h, l, s2, u)
  BY <1>0 DEF Counts
<1>2. f \in OpenedIn(h) /\ g \in OpenedIn(h) /\ f \in Requests /\ g \in Requests
      /\ h[f] # None /\ h[g] # None /\ h[f].key = K /\ h[g].key = K
  BY <1>0, <1>1 DEF CountsOnce, OpenedIn
<1>3. /\ W \in Nat \ {0} /\ h[f].at \in Nat /\ h[g].at \in Nat
      /\ h[s1].at \in Nat /\ h[s2].at \in Nat
      /\ Until(h, f) = h[f].at + W
  BY <1>0, <1>2, RecordFacts DEF Until
<1>4. /\ h[s1].at < Until(h, f) /\ h[g].at <= h[s2].at
      /\ l[f] # None => h[s1].at <= l[f]
  BY <1>1, <1>3 DEF CountsOnce
<1>5. l[f] # None => l[f] \in Nat
  BY <1>2 DEF Losses
<1>6. ~(l[f] # None /\ l[f] <= h[g].at)
  <2>1. SUFFICES ASSUME l[f] # None, l[f] <= h[g].at PROVE FALSE
    OBVIOUS
  <2>2. t <= h[s1].at /\ h[s2].at <= t + W - 1
    BY <1>0, <1>3
  <2>3. l[f] \in t .. t + W - 1
    BY <1>3, <1>4, <1>5, <2>1, <2>2
  <2>4. QED
    BY <1>2, <2>1, <2>3 DEF Losing, Stretch
<1>7. Until(h, f) <= h[g].at
  BY <1>6 DEF Ended
<1>8. QED
  BY <1>0, <1>3, <1>4, <1>7

\* Pairs of a window and a number, one for each member of A: at most one
\* window is not in D.
LEMMA OneMoreWindow ==
  ASSUME NEW A, NEW D, NEW F, NEW f, F \subseteq D \union {f},
         IsFiniteSet(A), IsFiniteSet(D), IsFiniteSet(F), NEW L \in Nat \ {0},
         NEW phi \in [A -> F \X (1 .. L)], \A a, b \in A : phi[a] = phi[b] => a = b
  PROVE  Cardinality(A) < (2 + Cardinality(D)) * L
<1>1. IsFiniteSet(F \X (1 .. L)) /\ Cardinality(F \X (1 .. L)) = Cardinality(F) * L
  <2>1. IsFiniteSet(1 .. L) /\ Cardinality(1 .. L) = L
    BY FS_Interval
  <2>2. QED
    BY <2>1, FS_Product
<1>2. phi \in Injection(A, F \X (1 .. L))
  BY DEF Injection, IsInjective
<1>3. Cardinality(A) <= Cardinality(F) * L
  BY <1>1, <1>2, FS_Injection
<1>4. PICK a \in Nat, d \in Nat, n \in Nat :
        a = Cardinality(A) /\ d = Cardinality(D) /\ n = Cardinality(F)
  BY FS_CardinalityType
<1>5. IsFiniteSet(D \union {f}) /\ Cardinality(D \union {f}) \in {d, d + 1}
  BY <1>4, FS_AddElement
<1>6. n <= d + 1
  <2>1. n <= Cardinality(D \union {f})
    BY <1>4, <1>5, FS_Subset
  <2>2. QED
    BY <1>4, <1>5, <2>1
<1>7. PICK m \in Nat, x \in Nat, y \in Nat : m = n * L /\ x = (1 + d) * L /\ y = (2 + d) * L
  BY <1>4
<1>8. m <= x /\ x < y
  <2>1. 1 + d \in Nat /\ n <= 1 + d
    BY <1>4, <1>6
  <2>2. QED
    BY <1>4, <1>7, <2>1, Multiples
<1>9. a <= m
  BY <1>3, <1>4, <1>7
<1>10. a < y
  BY <1>4, <1>7, <1>8, <1>9
<1>11. QED
  BY <1>4, <1>7, <1>10

\* At most two are not in D, and one pair of one of them is nobody's.
LEMMA TwoMoreWindows ==
  ASSUME NEW A, NEW D, NEW F, NEW f \in F, NEW g, F \subseteq (D \union {f}) \union {g},
         IsFiniteSet(A), IsFiniteSet(D), IsFiniteSet(F), NEW L \in Nat \ {0},
         NEW phi \in [A -> F \X (1 .. L)], \A a, b \in A : phi[a] = phi[b] => a = b,
         \A a \in A : phi[a] # <<f, 1>>
  PROVE  Cardinality(A) < (2 + Cardinality(D)) * L
<1> DEFINE P == F \X (1 .. L)
           T == P \ {<<f, 1>>}
<1>1. IsFiniteSet(P) /\ Cardinality(P) = Cardinality(F) * L
  <2>1. IsFiniteSet(1 .. L) /\ Cardinality(1 .. L) = L
    BY FS_Interval
  <2>2. QED
    BY <2>1, FS_Product
<1>2. phi \in Injection(A, T)
  <2>1. phi \in [A -> T]
    OBVIOUS
  <2>2. QED
    BY <2>1 DEF Injection, IsInjective
<1>3. <<f, 1>> \in P
  OBVIOUS
<1> HIDE DEF P
<1>4. IsFiniteSet(T) /\ Cardinality(T) = Cardinality(P) - 1
  BY <1>1, <1>3, FS_RemoveElement
<1>5. Cardinality(A) <= Cardinality(T)
  BY <1>2, <1>4, FS_Injection
<1>6. PICK a \in Nat, d \in Nat, n \in Nat :
        a = Cardinality(A) /\ d = Cardinality(D) /\ n = Cardinality(F)
  BY FS_CardinalityType
<1>7. IsFiniteSet(D \union {f}) /\ Cardinality(D \union {f}) \in {d, d + 1}
  BY <1>6, FS_AddElement
<1> DEFINE E == D \union {f}
<1>8. IsFiniteSet(E) /\ Cardinality(E) \in {d, d + 1} /\ F \subseteq E \union {g}
  BY <1>7
<1> HIDE DEF E
<1>9. IsFiniteSet(E \union {g}) /\ Cardinality(E \union {g}) \in {Cardinality(E), Cardinality(E) + 1}
  BY <1>8, FS_AddElement
<1>10. n <= 2 + d
  <2>1. n <= Cardinality(E \union {g})
    BY <1>6, <1>8, <1>9, FS_Subset
  <2>2. QED
    BY <1>6, <1>8, <1>9, <2>1
<1>11. PICK m \in Nat, y \in Nat : m = n * L /\ y = (2 + d) * L
  BY <1>6
<1>12. m <= y
  <2>1. 2 + d \in Nat
    BY <1>6
  <2>2. QED
    BY <1>6, <1>10, <1>11, <2>1, Multiples
<1>13. a <= m - 1
  BY <1>1, <1>4, <1>5, <1>6, <1>11
<1>14. a < y
  BY <1>6, <1>11, <1>12, <1>13
<1>15. QED
  BY <1>6, <1>11, <1>14

LEMMA WindowsBound ==
  ASSUME NEW h \in Histories, NEW l \in Losses, NEW u, NEW K \in Keys, NEW t \in Nat,
         NEW L \in Nat \ {0},
         NEW store, Counts(store, h, l, u),
         IsFiniteSet({ s \in Requests : h[s] # None })
  PROVE  /\ IsFiniteSet(Taken(h, K, L, t)) /\ IsFiniteSet(Losing(h, l, K, t))
         /\ Cardinality(Taken(h, K, L, t)) < (2 + Cardinality(Losing(h, l, K, t))) * L
<1> DEFINE A == Taken(h, K, L, t)
           D == Losing(h, l, K, t)
           F == { h[s].first : s \in A }
           C == { s \in Requests : h[s] # None }
           phi == [s \in A |-> <<h[s].first, h[s].n>>]
<1>1. ASSUME NEW s \in A
      PROVE  /\ s \in Requests /\ h[s] # None /\ h[s].key = K /\ h[s].n \in 1 .. L
             /\ h[s].at \in Stretch(K, t)
             /\ CountsOnce(h, l, s, u)
             /\ h[s].first \in OpenedIn(h) /\ h[s].first \in C /\ h[h[s].first].key = K
             /\ h[h[s].first].at \in Nat
  <2>1. /\ s \in Requests /\ h[s] # None /\ CountsOnce(h, l, s, u)
        /\ h[s].key = K /\ h[s].n <= L /\ h[s].at \in Stretch(K, t)
    BY DEF Taken, Counts
  <2>2. h[s].first \in OpenedIn(h) /\ h[s].first \in C /\ h[h[s].first].key = K
    BY <2>1 DEF CountsOnce, OpenedIn
  <2>3. h[s].n \in 1 .. L
    BY <2>1, RecordFacts
  <2>4. h[h[s].first].at \in Nat
    BY <2>2, RecordFacts
  <2>5. QED
    BY <2>1, <2>2, <2>3, <2>4
<1>2. A \in SUBSET C /\ D \in SUBSET C /\ F \in SUBSET C
  BY <1>1 DEF OpenedIn, Losing
<1>3. IsFiniteSet(A) /\ IsFiniteSet(D) /\ IsFiniteSet(F)
  BY <1>2, FS_Subset
<1>4. phi \in [A -> F \X (1 .. L)] /\ \A a \in A : phi[a] = <<h[a].first, h[a].n>>
  BY <1>1
<1>5. \A a, b \in A : phi[a] = phi[b] => a = b
  <2>1. SUFFICES ASSUME NEW a \in A, NEW b \in A, phi[a] = phi[b] PROVE a = b
    BY Zenon
  <2>2. h[a].first = h[b].first /\ h[a].n = h[b].n
    BY <1>4, <2>1
  <2>3. Shares(h, a, h[b].first) /\ a \in Requests /\ CountsOnce(h, l, b, u)
    BY <1>1, <2>2 DEF Shares
  <2>4. QED
    BY <2>2, <2>3 DEF CountsOnce
\* Of two windows that were not lost one was opened before t, and the other not.
<1>6. ASSUME NEW f \in F \ D, NEW g \in F \ D, f # g, h[f].at < t <=> h[g].at < t
      PROVE  FALSE
  <2>1. PICK a \in A : h[a].first = f
    OBVIOUS
  <2>2. PICK b \in A : h[b].first = g
    OBVIOUS
  <2>3. /\ f \in OpenedIn(h) /\ g \in OpenedIn(h) /\ h[f].key = h[g].key
        /\ h[f].at \in Nat /\ h[g].at \in Nat
    BY <1>1, <1>2, <1>6, <2>1, <2>2
  <2>4. ASSUME Ended(h, l, f, h[g].at) PROVE h[f].at < t /\ t <= h[g].at
    BY <2>1, <2>2, <2>4, WindowsThatReach
  <2>5. ASSUME Ended(h, l, g, h[f].at) PROVE h[g].at < t /\ t <= h[f].at
    BY <2>1, <2>2, <2>5, WindowsThatReach
  <2>6. Ended(h, l, f, h[g].at) \/ Ended(h, l, g, h[f].at)
    BY <1>6, <2>3 DEF Counts
  <2>7. QED
    BY <1>6, <2>3, <2>4, <2>5, <2>6
\* Who opened f was counted before t.
<1>7. ASSUME NEW f \in F, h[f].at < t, NEW a \in A PROVE phi[a] # <<f, 1>>
  <2>1. SUFFICES ASSUME h[a].first = f, h[a].n = 1 PROVE FALSE
    BY <1>4, Zenon
  <2>2. CountsOnce(h, l, a, u) /\ f \in OpenedIn(h)
    BY <1>1, <2>1
  <2>3. f \in Requests /\ h[f] # None /\ h[f].first = f
    BY <2>2 DEF OpenedIn
  <2>4. CountsOnce(h, l, f, u) /\ 1 \in 1 .. h[f].n
    BY <2>3, RecordFacts DEF Counts
  <2>5. PICK q \in Requests : Shares(h, q, f) /\ h[q].n = 1 /\ h[q].at <= h[f].at
    BY <2>3, <2>4 DEF CountsOnce
  <2>6. q = a
    BY <2>1, <2>2, <2>5 DEF CountsOnce
  <2>7. a \in Requests /\ h[a] # None /\ h[a].at \in t .. t + Window[K.group] - 1
    BY <1>1 DEF Stretch
  <2>8. h[a].at \in Nat /\ h[f].at \in Nat
    BY <2>3, <2>7, RecordFacts
  <2>9. h[a].at <= h[f].at /\ t <= h[a].at
    BY <2>5, <2>6, <2>7, <2>8
  <2>10. QED
    BY <1>7, <2>8, <2>9
<1> HIDE DEF A, D, F, phi
<1>8. CASE \E f : F \subseteq D \union {f}
  BY <1>3, <1>4, <1>5, <1>8, OneMoreWindow DEF A, D
<1>9. ASSUME NEW f \in F \ D, NEW g \in F \ D, h[f].at < t, ~(h[g].at < t)
      PROVE  Cardinality(A) < (2 + Cardinality(D)) * L
  <2>1. F \subseteq (D \union {f}) \union {g}
    BY <1>6, <1>9
  <2>2. \A a \in A : phi[a] # <<f, 1>>
    BY <1>7, <1>9
  <2>3. QED
    BY <1>3, <1>4, <1>5, <2>1, <2>2, TwoMoreWindows
<1>10. CASE ~ \E f : F \subseteq D \union {f}
  <2>1. PICK f \in F : f \notin D
    BY <1>10
  <2>2. PICK g \in F : g \notin D \union {f}
    BY <1>10
  <2>3. (h[f].at < t /\ ~(h[g].at < t)) \/ (h[g].at < t /\ ~(h[f].at < t))
    BY <1>6, <2>1, <2>2
  <2>4. Cardinality(A) < (2 + Cardinality(D)) * L
    BY <1>9, <2>1, <2>2, <2>3
  <2>5. QED
    BY <1>3, <2>4 DEF A, D
<1>11. QED
  BY <1>8, <1>10
\* Where a request was counted that r is compared with.
LossesOf(r) == IF ByRedis(r) THEN Nothing ELSE lost

LEMMA CountedFacts ==
  ASSUME Sound, NEW r \in Requests, Decided(r)
  PROVE  /\ Store(r) \in Histories /\ LossesOf(r) \in Losses
         /\ \E store : Counts(store, Store(r), LossesOf(r), now)
         /\ IsFiniteSet({ s \in Requests : Store(r)[s] # None })
         /\ \A s \in Requests : Store(r)[s] # None =>
              caller[s] \in Callers /\ Store(r)[s].key = KeyOf(s)
         /\ Store(r)[r] # None /\ KeyOf(r) \in Keys
         /\ Window[KeyOf(r).group] = WindowOf(r) /\ WindowOf(r) \in Nat \ {0}
         /\ LimitOf(r) \in Nat \ {0}
<1>1. /\ ran \in Histories /\ fell \in Histories /\ lost \in Losses /\ Nothing \in Losses
      /\ \A s \in Requests : Standing(s)
      /\ IsFiniteSet({ s \in Requests : pc[s] # "idle" })
  BY SoundTypes
<1>2. RedisCounts /\ MemoryCounts /\ pc \in [Requests -> {"idle", "waiting", "done"}]
  BY DEF Sound, TypeOK
<1>3. Store(r) \in {ran, fell}
  BY DEF Store
<1>4. ASSUME NEW s \in Requests, Store(r)[s] # None
      PROVE  pc[s] # "idle" /\ caller[s] \in Callers /\ Store(r)[s].key = KeyOf(s)
  <2>1. Standing(s)
    BY <1>1
  <2>2. pc[s] # "idle"
    BY <1>3, <1>4, <2>1 DEF Standing
  <2>3. QED
    BY <1>3, <1>4, <2>1, <2>2 DEF Standing
<1>5. IsFiniteSet({ s \in Requests : Store(r)[s] # None })
  <2>1. { s \in Requests : Store(r)[s] # None } \in SUBSET { s \in Requests : pc[s] # "idle" }
    BY <1>4
  <2>2. QED
    BY <1>1, <2>1, FS_Subset
<1>6. \E store : Counts(store, Store(r), LossesOf(r), now)
  <2>1. CASE ByRedis(r)
    BY <1>2, <2>1 DEF RedisCounts, Store, LossesOf
  <2>2. CASE ~ByRedis(r)
    BY <1>2, <2>2 DEF MemoryCounts, Store, LossesOf
  <2>3. QED
    BY <2>1, <2>2
<1>7. Store(r)[r] # None
  BY <1>1 DEF Standing
<1>8. /\ caller[r] \in Callers /\ KeyOf(r) \in Keys
      /\ Window[KeyOf(r).group] = WindowOf(r) /\ WindowOf(r) \in Nat \ {0}
      /\ LimitOf(r) \in Nat \ {0}
  BY <1>4, <1>7, KeyFacts DEF KeyOf, WindowOf, LimitOf
<1>9. QED
  BY <1>1, <1>3, <1>4, <1>5, <1>6, <1>7, <1>8 DEF LossesOf

LEMMA SoundAdmits ==
  ASSUME Sound
  PROVE  AdmittedWithinBound
<1>1. SUFFICES ASSUME NEW r \in Requests, Decided(r)
               PROVE  LET t        == Store(r)[r].at
                          last     == t + WindowOf(r) - 1
                          admitted == { s \in CountedIn(r, t, last) :
                                          Decided(s) /\ verdict[s].outcome = "pass" /\ ByRedis(s) = ByRedis(r) }
                          drops    == { s \in Requests : /\ ~ByRedis(r) /\ Same(r, s)
                                                         /\ lost[s] # None /\ lost[s] \in t .. last }
                      IN  Cardinality(admitted) < (2 + Cardinality(drops)) * LimitOf(r)
  BY Zenon DEF AdmittedWithinBound
<1> DEFINE h == Store(r)
           l == LossesOf(r)
           t == Store(r)[r].at
           last == t + WindowOf(r) - 1
           K == KeyOf(r)
           L == LimitOf(r)
           admitted == { s \in CountedIn(r, t, last) :
                           Decided(s) /\ verdict[s].outcome = "pass" /\ ByRedis(s) = ByRedis(r) }
           drops == { s \in Requests : /\ ~ByRedis(r) /\ Same(r, s)
                                       /\ lost[s] # None /\ lost[s] \in t .. last }
           A == Taken(h, K, L, t)
           D == Losing(h, l, K, t)
<1>2. /\ h \in Histories /\ l \in Losses
      /\ IsFiniteSet({ s \in Requests : h[s] # None })
      /\ \A s \in Requests : h[s] # None => caller[s] \in Callers /\ h[s].key = KeyOf(s)
      /\ h[r] # None /\ K \in Keys /\ caller[r] \in Callers
      /\ Window[K.group] = WindowOf(r) /\ WindowOf(r) \in Nat \ {0} /\ L \in Nat \ {0}
  BY <1>1, CountedFacts
<1>3. PICK store : Counts(store, h, l, now)
  BY <1>1, CountedFacts
<1>4. t \in Nat
  BY <1>2, RecordFacts
<1>5. /\ IsFiniteSet(A) /\ IsFiniteSet(D)
      /\ Cardinality(A) < (2 + Cardinality(D)) * L
  BY <1>2, <1>3, <1>4, WindowsBound
<1>6. ASSUME NEW s \in Requests, h[s] # None PROVE Same(r, s) <=> h[s].key = K
  BY <1>2, <1>6, SameIsKey
<1>7. admitted \in SUBSET A
  <2>1. SUFFICES ASSUME NEW s \in admitted PROVE s \in A
    OBVIOUS
  <2>2. /\ s \in Requests /\ Same(r, s) /\ h[s] # None /\ h[s].at \in t .. last
        /\ Decided(s) /\ verdict[s].outcome = "pass" /\ ByRedis(s) = ByRedis(r)
    BY DEF CountedIn
  <2>3. h[s].key = K /\ h[s].key = KeyOf(s) /\ caller[s] \in Callers
    BY <1>2, <1>6, <2>2
  <2>4. Store(s) = h
    BY <2>2 DEF Store
  <2>5. h[s].n <= LimitOf(s)
    BY <2>2, <2>4, SoundTypes DEF Standing
  <2>6. LimitOf(s) = L
    BY <1>2, <2>3, KeyFacts DEF LimitOf, KeyOf
  <2>7. QED
    BY <1>2, <2>2, <2>3, <2>5, <2>6 DEF Taken, Stretch
<1>8. D \in SUBSET drops
  <2>1. SUFFICES ASSUME NEW f \in D PROVE f \in drops
    OBVIOUS
  <2>2. f \in Requests /\ h[f] # None /\ h[f].key = K /\ l[f] # None /\ l[f] \in t .. last
    BY <1>2 DEF Losing, OpenedIn, Stretch
  <2>3. ~ByRedis(r) /\ l = lost
    BY <2>2 DEF LossesOf, Nothing
  <2>4. QED
    BY <1>6, <2>2, <2>3
<1>9. IsFiniteSet(drops)
  <2>1. CASE ByRedis(r)
    <3>1. drops = {}
      BY <2>1
    <3>2. QED
      BY <3>1, FS_EmptySet
  <2>2. CASE ~ByRedis(r)
    <3>1. l = lost
      BY <2>2 DEF LossesOf
    <3>2. drops \in SUBSET { s \in Requests : h[s] # None }
      BY <1>3, <3>1 DEF Counts, OpenedIn
    <3>3. QED
      BY <1>2, <3>2, FS_Subset
  <2>3. QED
    BY <2>1, <2>2
<1> HIDE DEF A, D, admitted, drops, L
<1>10. IsFiniteSet(admitted) /\ Cardinality(admitted) <= Cardinality(A)
  BY <1>5, <1>7, FS_Subset
<1>11. Cardinality(D) <= Cardinality(drops)
  BY <1>8, <1>9, FS_Subset
<1>12. PICK a \in Nat, b \in Nat, d \in Nat, e \in Nat :
         /\ a = Cardinality(admitted) /\ b = Cardinality(A)
         /\ d = Cardinality(D) /\ e = Cardinality(drops)
  BY <1>5, <1>9, <1>10, FS_CardinalityType
<1>13. PICK x \in Nat, y \in Nat : x = (2 + d) * L /\ y = (2 + e) * L
  BY <1>2, <1>12
<1>14. x <= y
  <2>1. 2 + d \in Nat /\ 2 + e \in Nat /\ 2 + d <= 2 + e
    BY <1>11, <1>12
  <2>2. QED
    BY <1>2, <1>13, <2>1, Multiples
<1>15. a <= b /\ b < x
  BY <1>5, <1>10, <1>12, <1>13
<1>16. a < y
  BY <1>12, <1>13, <1>14, <1>15
<1>17. Cardinality(admitted) < (2 + Cardinality(drops)) * L
  BY <1>12, <1>13, <1>16
<1>18. QED
  BY <1>17 DEF admitted, drops, L

-----------------------------------------------------------------------------
(* Who is refused                                                           *)

\* The numbers below that of a counted request went to others, within the
\* length of its window.
LEMMA LowerNumbers ==
  ASSUME NEW h \in Histories, NEW l, NEW u, NEW r \in Requests, h[r] # None,
         NEW store, Counts(store, h, l, u), NEW i \in Nat \ {0}, i < h[r].n
  PROVE  \E q \in Requests :
           /\ q # r /\ h[q] # None /\ h[q].n = i /\ h[q].key = h[r].key
           /\ h[q].at \in h[r].at - Window[h[r].key.group] + 1 .. h[r].at
<1> DEFINE f == h[r].first
<1>1. /\ CountsOnce(h, l, r, u) /\ h[r].at \in Nat /\ h[r].n \in Nat
      /\ Window[h[r].key.group] \in Nat
  BY RecordFacts DEF Counts
<1>2. /\ f \in Requests /\ h[f] # None /\ h[f].key = h[r].key /\ h[f].at \in Nat
      /\ h[r].at < Until(h, f)
  BY <1>1, RecordFacts DEF CountsOnce, OpenedIn
<1>3. i \in 1 .. h[r].n
  BY <1>1
<1>4. PICK q \in Requests : Shares(h, q, f) /\ h[q].n = i /\ h[q].at <= h[r].at
  BY <1>1, <1>3 DEF CountsOnce
<1>5. h[q] # None /\ h[q].first = f /\ h[q].at \in Nat
  BY <1>4, RecordFacts DEF Shares
<1>6. CountsOnce(h, l, q, u)
  BY <1>5 DEF Counts
<1>7. h[q].key = h[r].key /\ h[f].at <= h[q].at
  BY <1>2, <1>5, <1>6 DEF CountsOnce
<1>8. h[q].at \in h[r].at - Window[h[r].key.group] + 1 .. h[r].at
  BY <1>1, <1>2, <1>4, <1>5, <1>7 DEF Until
<1>9. QED
  BY <1>1, <1>4, <1>5, <1>7, <1>8

LEMMA SoundRefuses ==
  ASSUME Sound
  PROVE  RefusedForACause
<1>1. SUFFICES ASSUME NEW r \in Requests, Decided(r), verdict[r].outcome = "reject"
               PROVE  LET t == Store(r)[r].at IN
                      Cardinality(CountedIn(r, t - WindowOf(r) + 1, t) \ {r}) >= LimitOf(r)
  BY Zenon DEF RefusedForACause
<1> DEFINE h == Store(r)
           t == Store(r)[r].at
           L == LimitOf(r)
           B == CountedIn(r, t - WindowOf(r) + 1, t) \ {r}
<1>2. /\ h \in Histories
      /\ IsFiniteSet({ s \in Requests : h[s] # None })
      /\ \A s \in Requests : h[s] # None => caller[s] \in Callers /\ h[s].key = KeyOf(s)
      /\ h[r] # None /\ caller[r] \in Callers /\ h[r].key = KeyOf(r)
      /\ Window[KeyOf(r).group] = WindowOf(r) /\ L \in Nat \ {0}
  BY <1>1, CountedFacts
<1>3. PICK store : Counts(store, h, LossesOf(r), now)
  BY <1>1, CountedFacts
<1>4. L < h[r].n
  <2>1. Standing(r)
    BY SoundTypes
  <2>2. ~(h[r].n <= L)
    BY <1>1, <2>1 DEF Standing
  <2>3. QED
    BY <1>2, <2>2, RecordFacts
<1>5. \A i \in 1 .. L : \E q \in B : h[q].n = i
  <2>1. SUFFICES ASSUME NEW i \in 1 .. L PROVE \E q \in B : h[q].n = i
    OBVIOUS
  <2>2. i \in Nat \ {0} /\ i < h[r].n
    BY <1>2, <1>4, RecordFacts
  <2>3. PICK q \in Requests :
          /\ q # r /\ h[q] # None /\ h[q].n = i /\ h[q].key = h[r].key
          /\ h[q].at \in h[r].at - Window[h[r].key.group] + 1 .. h[r].at
    BY <1>2, <1>3, <2>2, LowerNumbers
  <2>4. Same(r, q)
    BY <1>2, <2>3, SameIsKey
  <2>5. QED
    BY <1>2, <2>3, <2>4 DEF CountedIn
<1>6. IsFiniteSet(B)
  <2>1. B \in SUBSET { s \in Requests : h[s] # None }
    BY DEF CountedIn
  <2>2. QED
    BY <1>2, <2>1, FS_Subset
<1> HIDE DEF B, h, L
<1> DEFINE phi == [i \in 1 .. L |-> CHOOSE q \in B : h[q].n = i]
<1>7. \A i \in 1 .. L : phi[i] \in B /\ h[phi[i]].n = i
  BY <1>5
<1>8. phi \in Injection(1 .. L, B)
  <2>1. phi \in [1 .. L -> B]
    BY <1>7
  <2>2. \A i, j \in 1 .. L : phi[i] = phi[j] => i = j
    BY <1>7
  <2>3. QED
    BY <2>1, <2>2 DEF Injection, IsInjective
<1>9. Cardinality(1 .. L) <= Cardinality(B)
  BY <1>6, <1>8, FS_Injection
<1>10. Cardinality(1 .. L) = L
  <2>1. 1 \in Int /\ L \in Int /\ Cardinality(1 .. L) = IF 1 > L THEN 0 ELSE L - 1 + 1
    BY <1>2, FS_Interval
  <2>2. QED
    BY <1>2, <2>1
<1>11. Cardinality(B) >= L
  BY <1>2, <1>6, <1>9, <1>10, FS_CardinalityType
<1>12. QED
  BY <1>11 DEF B, L

-----------------------------------------------------------------------------
(* The theorems                                                             *)

LEMMA LimiterInit ==
  ASSUME Init
  PROVE  LimiterInvariant
<1> USE RateAssumption DEF Init, Absent, NotInMemory
<1>1. Held = {} /\ { r \in Requests : pc[r] # "idle" } = {}
  BY DEF Held
<1>2. IsFiniteSet({}) /\ Cardinality({}) = 0
  BY FS_EmptySet
<1>3. TypeOK
  BY <1>1, <1>2 DEF TypeOK, Entry
<1>4. Progress
  <2>1. ASSUME NEW r \in Requests PROVE Standing(r)
    <3>1. /\ pc[r] = "idle" /\ r \notin queued /\ ran[r] = None /\ fell[r] = None
          /\ verdict[r] = None /\ reply[r] = 0
      OBVIOUS
    <3>2. ~Decided(r)
      BY <3>1 DEF Decided
    <3>3. QED
      BY <3>1, <3>2 DEF Standing
  <2>2. QED
    BY <1>1, <1>2, <2>1 DEF Progress
<1>5. RedisCounts /\ MemoryCounts
  BY DEF RedisCounts, MemoryCounts, Counts, OpenedIn, Nothing
<1>6. BreakerIsTripped /\ DegradedIsTemporary
  BY DEF BreakerIsTripped, DegradedIsTemporary, Decided
<1>7. QED
  BY <1>3, <1>4, <1>5, <1>6 DEF LimiterInvariant

\* Each store numbers the requests of a window from one on, and ends it before
\* it opens the key's next one, or loses it (rate_limit.py:28-48, 77-80).
THEOREM LimiterInvariantHolds == Spec => []LimiterInvariant
<1>1. LimiterInvariant /\ [Next]_vars => LimiterInvariant'
  <2>1. SUFFICES ASSUME LimiterInvariant, [Next]_vars PROVE LimiterInvariant'
    OBVIOUS
  <2>2. Sound /\ BreakerIsTripped /\ DegradedIsTemporary
    BY <2>1 DEF LimiterInvariant, Sound
  <2>3. Sound'
    BY <2>1, <2>2, SoundStep
  <2>4. BreakerIsTripped' /\ DegradedIsTemporary'
    BY <2>1, <2>2, BreakerStep
  <2>5. QED
    BY <2>3, <2>4 DEF LimiterInvariant, Sound
<1>2. QED
  BY <1>1, LimiterInit, PTL DEF Spec

\* Types, and a fallback that keeps its capacity (rate_limit.py:38-43).
THEOREM LimiterTypes == Spec => []TypeOK
<1>1. LimiterInvariant => TypeOK
  BY DEF LimiterInvariant
<1>2. QED
  BY <1>1, LimiterInvariantHolds, PTL

\* A store admits less than twice the limit within the length of a window, and
\* up to the limit more for each running entry of the client that it lost
\* (rate_limit.py:41-43, 82 and 106).
THEOREM AdmissionIsBounded == Spec => []AdmittedWithinBound
<1>1. LimiterInvariant => AdmittedWithinBound
  BY SoundAdmits DEF LimiterInvariant, Sound
<1>2. QED
  BY <1>1, LimiterInvariantHolds, PTL

\* Who is refused shared a window with the limit's number of requests of the
\* same client (rate_limit.py:28-48, 82).
THEOREM RefusalHasACause == Spec => []RefusedForACause
<1>1. LimiterInvariant => RefusedForACause
  BY SoundRefuses DEF LimiterInvariant, Sound
<1>2. QED
  BY <1>1, LimiterInvariantHolds, PTL

\* Requests that find the breaker open do not hold it open (rate_limit.py:73
\* and 96).
THEOREM BreakerCloses == Spec => []DegradedIsTemporary
<1>1. LimiterInvariant => DegradedIsTemporary
  BY DEF LimiterInvariant
<1>2. QED
  BY <1>1, LimiterInvariantHolds, PTL
=============================================================================
