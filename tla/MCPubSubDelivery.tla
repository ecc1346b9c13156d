-------------------------- MODULE MCPubSubDelivery --------------------------
(* A small instance of PubSubDelivery: two listeners of a channel and one  *)
(* of a pattern that matches the channel as well as another one.           *)
EXTENDS PubSubListeners, TLC

CONSTANTS l1, l2, p1, channel, other, pattern

MCTopicOf == [l \in Listeners |-> IF l = p1 THEN pattern ELSE channel]

MCMatches == [ch \in Channels |-> IF ch = channel THEN {channel, pattern} ELSE {pattern}]

Symmetry == Permutations({l1, l2})
=============================================================================
