------------------------------ MODULE RateLimit ------------------------------
(***************************************************************************)
(* The rate limiter: check() of app/core/rate_limit.py, called with the    *)
(* keys that app/api/rate_limit.py builds.  A request is counted in Redis  *)
(* by one MULTI pipeline; when its reply takes too long, or an error comes *)
(* instead, it is counted in the server's own memory, and so is every      *)
(* request of the next Cooldown, without asking Redis.  Giving up does not *)
(* undo the pipeline: Redis may run it before, after, or never.            *)
(*                                                                         *)
(* Time passes in seconds, the unit of every lifetime, with any number of  *)
(* steps in each.  The value of Retry-After is left out.                   *)
(***************************************************************************)
EXTENDS Integers, FiniteSets

CONSTANTS
  Requests,
  Callers,      \* who may ask: [kind, group, ip, who]
  Normal,       \* the stripped lower-case form of an email
  Groups, Limit, Window,  \* per group: RATE_LIMIT_<group>_MAX, _WINDOW_SECONDS
  Cooldown,     \* RATE_LIMIT_BREAKER_COOLDOWN_SECONDS
  MaxEntries,   \* _MAX_FALLBACK_ENTRIES
  Horizon,      \* bound: the last tick
  None

ASSUME RateAssumption ==
  /\ \A c \in Callers : c.kind \in {"login", "ip", "user"} /\ c.group \in Groups
  /\ \A c \in Callers : c.kind = "login" => c.group = "auth"
  /\ Limit \in [Groups -> Nat \ {0}] /\ Window \in [Groups -> Nat \ {0}]
  /\ Cooldown \in Nat \ {0} /\ MaxEntries \in Nat \ {0} /\ Horizon \in Nat
  /\ None \notin Callers \union Nat

\* rl:<group>:u:<id>
UserKey(c) == [kind |-> "user", group |-> c.group, ip |-> None, who |-> c.who]

\* Mutant: the email is used as it was typed.
LoginKey_AsTyped(c) == [kind |-> "login", group |-> "auth", ip |-> c.ip, who |-> c.who]

\* rl:auth:login:<ip>:<hash of the email, stripped and in lower case>
LoginKey(c) == [kind |-> "login", group |-> "auth", ip |-> c.ip, who |-> Normal[c.who]]

\* rl:<group>:ip:<ip>
IpKey(c) == [kind |-> "ip", group |-> c.group, ip |-> c.ip, who |-> None]

Key(c) ==
  CASE c.kind = "user" -> UserKey(c) [] c.kind = "login" -> LoginKey(c)
    [] c.kind = "ip" -> IpKey(c)
Keys == { Key(c) : c \in Callers }

VARIABLES
  now,        \* the clock
  redis,      \* per key: [n, until, first]; n = 0 if there is none
  fallback,   \* _store, likewise, with the place of the key in the dict
  downUntil,  \* _redis_unavailable_until
  queued,     \* requests whose pipeline Redis may still run
  reply,      \* per request: the count its pipeline returned, or 0
  pc, caller, \* per request: "idle", "waiting" or "done", and who asked
  verdict,    \* per request: [outcome, via], or None
  ran, fell,  \* history: how Redis and the fallback counted a request:
              \* [key, at, n, first], or None
  lost        \* history: when the fallback dropped the running entry that a
              \* request had opened, or None

vars == <<now, redis, fallback, downUntil, queued, reply, pc, caller, verdict,
          ran, fell, lost>>

Absent      == [n |-> 0, until |-> 0, first |-> None]
NotInMemory == [n |-> 0, until |-> 0, first |-> None, place |-> 0]

Init ==
  /\ now = 0 /\ redis = [k \in Keys |-> Absent]
  /\ fallback = [k \in Keys |-> NotInMemory] /\ downUntil = 0 /\ queued = {}
  /\ reply = [r \in Requests |-> 0] /\ pc = [r \in Requests |-> "idle"]
  /\ caller = [r \in Requests |-> None] /\ verdict = [r \in Requests |-> None]
  /\ ran = [r \in Requests |-> None] /\ fell = [r \in Requests |-> None]
  /\ lost = [r \in Requests |-> None]

KeyOf(r) == Key(caller[r])

\* The dependency lets the request pass, or answers 429.
Decide(r, c, n, via) ==
  /\ pc' = [pc EXCEPT ![r] = "done"]
  /\ verdict' = [verdict EXCEPT ![r] =
       [outcome |-> IF n <= Limit[c.group] THEN "pass" ELSE "reject", via |-> via]]

-----------------------------------------------------------------------------
(* _InMemoryWindow.check                                                    *)

Held    == { k \in Keys : fallback[k].n > 0 }
Running == { k \in Held : now < fallback[k].until }
Oldest  == { k \in Running : \A j \in Running : fallback[k].place <= fallback[j].place }

\* Mutant: nothing is dropped once every entry is still running.
Room_Unbounded == IF Cardinality(Held) < MaxEntries THEN Held ELSE Running

\* What stays when there must be room for one more: at capacity expired entries
\* go, and if that does not help the one inserted first.
Room ==
  IF Cardinality(Held) < MaxEntries THEN Held
  ELSE IF Cardinality(Running) < MaxEntries THEN Running
  ELSE Running \ Oldest

Lose(ks) ==
  lost' = [s \in Requests |-> IF \E k \in ks : fallback[k].first = s THEN now ELSE lost[s]]

CountInMemory(r, c, via) ==
  LET k     == Key(c)
      kept  == IF k \in Held THEN Held ELSE Room
      entry == IF k \in Running THEN [fallback[k] EXCEPT !.n = @ + 1]
               ELSE [n |-> 1, until |-> now + Window[c.group], first |-> r,
                     place |-> IF k \in Held THEN fallback[k].place
                               ELSE Cardinality({ s \in Requests : fell[s] # None })]
  IN
  /\ fallback' = [j \in Keys |-> IF j = k THEN entry
                                 ELSE IF j \in kept THEN fallback[j] ELSE NotInMemory]
  /\ Lose(Running \ kept)
  /\ Decide(r, c, entry.n, via)
  /\ fell' = [fell EXCEPT ![r] = [key |-> k, at |-> now, n |-> entry.n, first |-> entry.first]]

-----------------------------------------------------------------------------
(* check                                                                    *)

\* Mutant: every request that finds the breaker open holds it open.
Arrive_Rearms(r, c) ==
  /\ pc[r] = "idle" /\ caller' = [caller EXCEPT ![r] = c]
  /\ \/ /\ now < downUntil
        /\ CountInMemory(r, c, "breaker")
        /\ downUntil' = now + Cooldown
        /\ UNCHANGED queued
     \/ /\ now >= downUntil
        /\ pc' = [pc EXCEPT ![r] = "waiting"]
        /\ queued' = queued \union {r}
        /\ UNCHANGED <<fallback, lost, verdict, fell, downUntil>>
  /\ UNCHANGED <<now, redis, reply, ran>>

Arrive(r, c) ==
  /\ pc[r] = "idle" /\ caller' = [caller EXCEPT ![r] = c]
  /\ \/ now < downUntil /\ CountInMemory(r, c, "breaker") /\ UNCHANGED queued
     \/ /\ now >= downUntil
        /\ pc' = [pc EXCEPT ![r] = "waiting"]
        /\ queued' = queued \union {r}
        /\ UNCHANGED <<fallback, lost, verdict, fell>>
  /\ UNCHANGED <<now, redis, reply, downUntil, ran>>

\* Mutant: EXPIRE without NX, which starts the window anew every time.
Counted_Sliding(e, r, c) ==
  [n |-> e.n + 1, until |-> now + Window[c.group], first |-> IF e.n = 0 THEN r ELSE e.first]

\* INCR and EXPIRE NX.
Counted(e, r, c) ==
  IF e.n = 0 THEN [n |-> 1, until |-> now + Window[c.group], first |-> r]
  ELSE [e EXCEPT !.n = @ + 1]

RedisRuns(r) ==
  LET k == KeyOf(r)
      e == Counted(redis[k], r, caller[r]) IN
  /\ r \in queued /\ queued' = queued \ {r}
  /\ redis' = [redis EXCEPT ![k] = e]
  /\ reply' = [reply EXCEPT ![r] = IF pc[r] = "waiting" THEN e.n ELSE 0]
  /\ ran' = [ran EXCEPT ![r] = [key |-> k, at |-> now, n |-> e.n, first |-> e.first]]
  /\ UNCHANGED <<now, fallback, downUntil, pc, caller, verdict, fell, lost>>

Receive(r) ==
  /\ pc[r] = "waiting" /\ reply[r] > 0
  /\ Decide(r, caller[r], reply[r], "redis")
  /\ reply' = [reply EXCEPT ![r] = 0]
  /\ UNCHANGED <<now, redis, fallback, downUntil, queued, caller, ran, fell, lost>>

\* The timeout, or an error in place of the reply.
GiveUp(r) ==
  /\ pc[r] = "waiting"
  /\ downUntil' = now + Cooldown
  /\ CountInMemory(r, caller[r], "timeout")
  /\ reply' = [reply EXCEPT ![r] = 0]
  /\ UNCHANGED <<now, redis, queued, caller, ran>>

-----------------------------------------------------------------------------

\* The server process starts anew; Redis goes on.
Restart ==
  /\ Held # {} \/ \E r \in Requests : pc[r] = "waiting"
  /\ fallback' = [k \in Keys |-> NotInMemory] /\ downUntil' = 0
  /\ Lose(Running)
  /\ pc' = [r \in Requests |-> IF pc[r] = "waiting" THEN "done" ELSE pc[r]]
  /\ reply' = [r \in Requests |-> 0]
  /\ UNCHANGED <<now, redis, queued, caller, verdict, ran, fell>>

Tick ==
  /\ now < Horizon /\ now' = now + 1
  /\ redis' = [k \in Keys |-> IF redis[k].until <= now + 1
                              THEN Absent ELSE redis[k]]
  /\ UNCHANGED <<fallback, downUntil, queued, reply, pc, caller, verdict, ran, fell, lost>>

Next ==
  \/ \E r \in Requests : \/ \E c \in Callers : Arrive(r, c)
                         \/ RedisRuns(r) \/ Receive(r) \/ GiveUp(r)
  \/ Restart
  \/ Tick

Spec == Init /\ [][Next]_vars
=============================================================================
