----------------------------- MODULE MCRateLimit -----------------------------
(***************************************************************************)
(* Instances of RateLimit for TLC: from one address, one account logs in   *)
(* with its email in two spellings, and a user reads.  MaxEntries = 1      *)
(* makes the two counters displace each other.                             *)
(***************************************************************************)
EXTENDS RateLimitProperties, TLC

Caller(kind, group, ip, who) == [kind |-> kind, group |-> group, ip |-> ip, who |-> who]

MCCallers ==
  { Caller("login", "auth", "ip1", "ann"), Caller("login", "auth", "ip1", "Ann"),
    Caller("user", "read", "ip1", "u1") }
MCNormal == [ann |-> "ann", Ann |-> "ann"]
MCLimit  == [auth |-> 1, read |-> 2]
MCWindow == [auth |-> 3, read |-> 3]

SymmetricRequests == Permutations(Requests)
=============================================================================
