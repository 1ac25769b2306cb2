---------------------------- MODULE TokenLedger ----------------------------
(***************************************************************************)
(* What refresh tokens promise, whatever interleaves or fails: a token is  *)
(* granted with nothing before it or in exchange for one token, which is   *)
(* revoked in the same instant; tokens are revoked in groups, for good.    *)
(* TokenSessions implements this.                                          *)
(***************************************************************************)
CONSTANTS Tokens, None

VARIABLES
  status,   \* status[t]: "absent", "live" or "revoked"
  source    \* source[t]: the token t was exchanged for, or None

vars == <<status, source>>

Init ==
  /\ status = [t \in Tokens |-> "absent"]
  /\ source = [t \in Tokens |-> None]

Grant(t) ==
  /\ status[t] = "absent"
  /\ status' = [status EXCEPT ![t] = "live"]
  /\ UNCHANGED source

Exchange(old, new) ==
  /\ status[old] # "absent" /\ status[new] = "absent"
  /\ status' = [status EXCEPT ![old] = "revoked", ![new] = "live"]
  /\ source' = [source EXCEPT ![new] = old]

Revoke(group) ==
  /\ \A t \in group : status[t] # "absent"
  /\ status' = [t \in Tokens |-> IF t \in group THEN "revoked" ELSE status[t]]
  /\ UNCHANGED source

Next ==
  \/ \E t \in Tokens : Grant(t)
  \/ \E old, new \in Tokens : Exchange(old, new)
  \/ \E group \in SUBSET Tokens : Revoke(group)

Spec == Init /\ [][Next]_vars
=============================================================================
