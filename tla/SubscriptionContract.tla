------------------------- MODULE SubscriptionContract -------------------------
(***************************************************************************)
(* What subscribe, psubscribe and the Unsubscribe they return promise      *)
(* their callers (src/src/server/services/pubsub.service.ts:112-123 and    *)
(* :250-257), without entries, counts, commands or reconnections: a call   *)
(* is told it is subscribed only when its target is served, and a target   *)
(* somebody holds stays served as long as there is a connection.           *)
(***************************************************************************)
CONSTANTS
  Calls,     \* the subscribe / psubscribe calls
  Targets,   \* channels and patterns
  TargetOf   \* the argument of each call

VARIABLES
  call,      \* each call as its caller sees it: idle, asking, held, ended
  served,    \* targets the connection serves, across reconnections
  live       \* FALSE once the connection is closed for good

vars == <<call, served, live>>

Init ==
  /\ call = [c \in Calls |-> "idle"]
  /\ served = {}
  /\ live = TRUE

Ask(c) ==
  /\ call[c] = "idle"
  /\ call' = [call EXCEPT ![c] = "asking"]
  /\ UNCHANGED <<served, live>>

Grant(c) ==
  /\ call[c] = "asking"
  /\ live => TargetOf[c] \in served
  /\ call' = [call EXCEPT ![c] = "held"]
  /\ UNCHANGED <<served, live>>

(* Refused at once, or rejected after waiting.                             *)
Deny(c) ==
  /\ call[c] \in {"idle", "asking"}
  /\ call' = [call EXCEPT ![c] = "ended"]
  /\ UNCHANGED <<served, live>>

Release(c) ==
  /\ call[c] = "held"
  /\ call' = [call EXCEPT ![c] = "ended"]
  /\ UNCHANGED <<served, live>>

Serve(t) ==
  /\ served' = served \union {t}
  /\ UNCHANGED <<call, live>>

(* A target is given up only when no call holds it.                        *)
GiveUp(t) ==
  /\ \A c \in Calls : TargetOf[c] = t => call[c] # "held"
  /\ served' = served \ {t}
  /\ UNCHANGED <<call, live>>

Close ==
  /\ live
  /\ live' = FALSE
  /\ UNCHANGED <<call, served>>

Next ==
  \/ \E c \in Calls : Ask(c) \/ Grant(c) \/ Deny(c) \/ Release(c)
  \/ \E t \in Targets : Serve(t) \/ GiveUp(t)
  \/ Close

Spec == Init /\ [][Next]_vars
===============================================================================
