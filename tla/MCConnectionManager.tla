------------------------- MODULE MCConnectionManager -------------------------
(* Small instances of ConnectionManager: a client for each choice of       *)
(* lazyConnect and enableOfflineQueue.                                     *)
EXTENDS ConnectionManager

CONSTANTS eager, queueing, lazy, lazyQueueing, u1, u2, h1, h2
=============================================================================
