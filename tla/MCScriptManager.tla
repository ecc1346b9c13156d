--------------------------- MODULE MCScriptManager ---------------------------
(* Small instances of ScriptManager: every name is seeded from             *)
(* options.scripts, n1 with e1 and n2 with e2; where there is one name, e2 *)
(* is registered over it later.                                            *)
EXTENDS ScriptManager, TLC

CONSTANTS n1, n2, e1, e2, c1, c2, l1, b1, b2, bodyA, bodyB

MCLuaOf == [e \in Entries |-> IF e = e1 THEN bodyA ELSE bodyB]

MCSeedOf == [n \in Names |-> IF n = n1 THEN e1 ELSE e2]

MCNameOf == [c \in Evals \union Loads |-> n1]

MCBootLoad == [n \in Names |-> IF n = n1 THEN b1 ELSE b2]

(* The two evals are interchangeable.                                      *)
Symmetry == Permutations({c1, c2})
=============================================================================
