-------------------------- MODULE MCPubSubRefinement --------------------------
(* Small instance of PubSubRefinement: c1 and c2 share a channel, p1       *)
(* psubscribes to a pattern.                                               *)
EXTENDS PubSubRefinement

CONSTANTS c1, c2, p1, channel, pattern

MCTargetOf == [c \in Calls |-> IF c = p1 THEN pattern ELSE channel]
===============================================================================
