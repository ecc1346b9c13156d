--------------------------- MODULE PubSubRefinement ---------------------------
(* PubSubService implements SubscriptionContract: entries, counts, the     *)
(* command queue and the reactions are hidden; what the caller of a call   *)
(* has been told, the targets on the connection and its end remain.        *)
EXTENDS PubSubService

CallerView == [c \in Calls |->
  CASE phase[c] = "idle" -> "idle"
    [] phase[c] = "waiting" -> "asking"
    [] phase[c] = "subscribed" -> "held"
    [] OTHER -> "ended"]

Contract == INSTANCE SubscriptionContract WITH
  call <- CallerView,
  served <- recorded,
  live <- (link # "end")

(* Whatever interleaving of calls, replies, timeouts, drops and shutdown   *)
(* happens, callers only see behaviours of the contract: they are told     *)
(* they are subscribed once the server accepted, and nobody's unsubscribe, *)
(* late command or cleanup takes a target from another listener.           *)
ImplementsContract == Contract!Spec
===============================================================================
