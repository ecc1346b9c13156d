-------------------------- MODULE MCCacheCommands --------------------------
(* Small instances of CacheCommands: two calls over the keys x and y.      *)
EXTENDS CacheCommands, TLC
CONSTANTS c1, c2, x, y, v, raw, field1, member1

MCBatches == {<<>>, <<x, y>>, <<x, EmptyId>>}
MCTtls    == {0, 1, NotAnInteger}

(* One of every kind of argument.                                          *)
MCWrites ==
  {Write(x, v, NoTtl), Write(x, v, 1), Write(x, v, 0), Write(x, 0, NoTtl),
   Write(x, Unencodable, 1)}
MCRawWrites == {Write(x, raw, NoTtl), Write(x, raw, NotAnInteger)}

(* x may hold a counter or a set, y nothing yet.                           *)
MCInitialStores ==
  {[k \in Ids |-> IF k = x THEN e ELSE Absent] :
     e \in {Absent, Entry("string", -3, 1), Entry("set", {member1}, NoTtl)}}

(* The calls are interchangeable.                                          *)
Symmetry == Permutations(Calls)
=============================================================================
