------------------------- MODULE RateLimitProperties -------------------------
(***************************************************************************)
(* How far the limiter may be off, when each request is counted in one of  *)
(* two places that know nothing of each other, and what nevertheless holds.*)
(***************************************************************************)
EXTENDS RateLimit

Entry  == [n : Nat, until : Nat, first : Requests \union {None}]
Record == [key : Keys, at : 0 .. Horizon, n : Nat \ {0}, first : Requests]
Verdict == [outcome : {"pass", "reject"}, via : {"redis", "timeout", "breaker"}]

\* Types; the fallback has one entry per key and never more than it may hold
\* (rate_limit.py:39-45), whoever asks and however often.
TypeOK ==
  /\ now \in 0 .. Horizon /\ downUntil \in Nat
  /\ redis \in [Keys -> Entry]
  /\ fallback \in [Keys -> [n : Nat, until : Nat, first : Requests \union {None}, place : Nat]]
  /\ Cardinality(Held) <= MaxEntries
  /\ queued \subseteq Requests
  /\ reply \in [Requests -> Nat]
  /\ pc \in [Requests -> {"idle", "waiting", "done"}]
  /\ caller \in [Requests -> Callers \union {None}]
  /\ verdict \in [Requests -> Verdict \union {None}]
  /\ ran \in [Requests -> Record \union {None}]
  /\ fell \in [Requests -> Record \union {None}]
  /\ lost \in [Requests -> 0 .. Horizon \union {None}]

\* Two requests that are meant to share a counter: of one user; for one
\* account, however its email is spelled, from one address; or from one
\* address (FR-2, FR-3 and login_rate_limit in app/api/rate_limit.py).
Same(r, s) ==
  LET c == caller[r]
      d == caller[s] IN
  /\ c # None /\ d # None
  /\ c.kind = d.kind /\ c.group = d.group
  /\ c.kind \in {"login", "ip"} => c.ip = d.ip
  /\ c.kind = "login" => Normal[c.who] = Normal[d.who]
  /\ c.kind = "user" => c.who = d.who

\* When the store that decided r counted s.
ByRedis(r) == verdict[r].via = "redis"
Store(r) == IF ByRedis(r) THEN ran ELSE fell
CountedIn(r, first, last) ==
  { s \in Requests : Same(r, s) /\ Store(r)[s] # None /\ Store(r)[s].at \in first .. last }
Decided(r) == verdict[r] # None
WindowOf(r) == Window[caller[r].group]
LimitOf(r)  == Limit[caller[r].group]

\* Within the length of a window each store admits less than twice the limit:
\* the end of one window, whose first request came before, and the start of
\* the next may fall into it.  The fallback admits up to the limit more for
\* each time it dropped the client's running entry, by eviction or restart.  A
\* client whose requests reach both stores gets at most the sum
\* (rate_limit.py:41-43, 82 and 106).
AdmittedWithinBound ==
  \A r \in Requests : Decided(r) =>
    LET t        == Store(r)[r].at
        last     == t + WindowOf(r) - 1
        admitted == { s \in CountedIn(r, t, last) :
                        Decided(s) /\ verdict[s].outcome = "pass" /\ ByRedis(s) = ByRedis(r) }
        drops    == { s \in Requests : /\ ~ByRedis(r) /\ Same(r, s)
                                       /\ lost[s] # None /\ lost[s] \in t .. last }
    IN  Cardinality(admitted) < (2 + Cardinality(drops)) * LimitOf(r)

\* Nobody is refused on account of others: the store that refused a request
\* had counted the limit's number of requests of the same client within the
\* last window, among them those that were given up and counted twice.
RefusedForACause ==
  \A r \in Requests : Decided(r) /\ verdict[r].outcome = "reject" =>
    LET t == Store(r)[r].at IN
    Cardinality(CountedIn(r, t - WindowOf(r) + 1, t) \ {r}) >= LimitOf(r)

\* A request is judged without asking Redis only within the cooldown of one
\* that asked and gave up: requests that find the breaker open do not hold it
\* open (rate_limit.py:73, 96).
DegradedIsTemporary ==
  \A r \in Requests : Decided(r) /\ verdict[r].via = "breaker" =>
    \E s \in Requests :
      /\ Decided(s) /\ verdict[s].via = "timeout"
      /\ fell[s].at \in fell[r].at - Cooldown + 1 .. fell[r].at

-----------------------------------------------------------------------------
(* Why these hold: an inductive invariant, part by part.                    *)

ASSUME RecordAssumption == None \notin Verdict \union Record

\* How far a request is, who asked, and what its count says of its verdict.
Standing(r) ==
  /\ IF pc[r] = "idle" THEN r \notin queued /\ ran[r] = None ELSE caller[r] \in Callers
  /\ fell[r] # None \/ Decided(r) => pc[r] = "done"
  /\ r \in queued => ran[r] = None
  /\ ran[r] # None => ran[r].key = KeyOf(r)
  /\ fell[r] # None => fell[r].key = KeyOf(r)
  /\ reply[r] > 0 => ran[r] # None /\ ran[r].n = reply[r]
  /\ Decided(r) => /\ Store(r)[r] # None
                   /\ verdict[r].outcome = "pass" <=> Store(r)[r].n <= LimitOf(r)
Progress ==
  /\ IsFiniteSet({ r \in Requests : pc[r] # "idle" }) /\ IsFiniteSet(Held)
  /\ \A r \in Requests : Standing(r)

\* A store and its history of counts h, at time t: l says when it lost the
\* running entry that a request had opened.
OpenedIn(h)       == { f \in Requests : h[f] # None /\ h[f].first = f }
Until(h, f)       == h[f].at + Window[h[f].key.group]
Ended(h, l, f, t) == Until(h, f) <= t \/ (l[f] # None /\ l[f] <= t)
Shares(h, q, f)   == h[q] # None /\ h[q].first = f

\* A request is counted while its window is open, under a number of its own;
\* the lower numbers went to others before it.
CountsOnce(h, l, s, t) ==
  LET f == h[s].first IN
  /\ f \in OpenedIn(h) /\ h[f].key = h[s].key
  /\ h[s].at \in h[f].at .. t /\ h[s].at < Until(h, f)
  /\ l[f] # None => h[s].at <= l[f]
  /\ \A q \in Requests : Shares(h, q, f) /\ h[q].n = h[s].n => q = s
  /\ \A i \in 1 .. h[s].n :
       \E q \in Requests : Shares(h, q, f) /\ h[q].n = i /\ h[q].at <= h[s].at

\* An entry is that of the window its first request opened, and its number the
\* last that was given in it.
IsCurrent(e, k, h, l) ==
  /\ e.first \in OpenedIn(h) /\ h[e.first].key = k
  /\ e.until = Until(h, e.first) /\ l[e.first] = None
  /\ \A q \in Requests : Shares(h, q, e.first) => h[q].n <= e.n
  /\ \E q \in Requests : Shares(h, q, e.first) /\ h[q].n = e.n

\* Of a key's windows all but the one in the store have ended, each before the
\* next was opened.
Counts(store, h, l, t) ==
  /\ \A s \in Requests : h[s] # None => CountsOnce(h, l, s, t)
  /\ \A k \in Keys : store[k].n > 0 => IsCurrent(store[k], k, h, l)
  /\ \A f \in OpenedIn(h) :
       \/ store[h[f].key].n > 0 /\ store[h[f].key].first = f
       \/ Ended(h, l, f, t)
  /\ \A f \in Requests : l[f] # None => f \in OpenedIn(h)
  /\ \A f, g \in OpenedIn(h) :
       f # g /\ h[f].key = h[g].key => Ended(h, l, f, h[g].at) \/ Ended(h, l, g, h[f].at)

Nothing == [r \in Requests |-> None]
RedisCounts ==
  /\ Counts(redis, ran, Nothing, now)
  /\ \A k \in Keys : redis[k].n > 0 => now < redis[k].until
MemoryCounts == Counts(fallback, fell, lost, now)

\* The breaker is open until a cooldown after some request gave up.
TimedOutAt(s, t) == Decided(s) /\ verdict[s].via = "timeout" /\ fell[s].at = t
BreakerIsTripped ==
  now < downUntil => \E s \in Requests, t \in 0 .. now : TimedOutAt(s, t) /\ downUntil = t + Cooldown

LimiterInvariant ==
  /\ TypeOK /\ Progress /\ RedisCounts /\ MemoryCounts
  /\ BreakerIsTripped /\ DegradedIsTemporary
=============================================================================
