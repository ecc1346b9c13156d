-------------------------- MODULE MCAdminKeyspace --------------------------
(* A small instance of AdminKeyspace: of the readable scope open, k1 and   *)
(* k2 share a bucket; k4 is in the withheld scope secret.                 *)
EXTENDS AdminKeyspace
CONSTANTS k1, k2, k3, k4, open, secret, r1
MCBucketOf == [k \in Keys |-> IF k \in {k1, k2} THEN 1 ELSE 2]
MCInScope  == [s \in Scopes |-> IF s = open THEN {k1, k2, k3} ELSE {k4}]
MCWritten ==
  {[type |-> "string", length |-> 2], [type |-> "list", length |-> 1], [type |-> "stream", length |-> 1]}
MCInitialStores ==
  {[k \in Keys |-> IF k = k1 THEN e ELSE [type |-> "list", length |-> 2]] :
     e \in {Absent, [type |-> "hash", length |-> 1]}}
=============================================================================
