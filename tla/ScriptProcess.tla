---------------------------- MODULE ScriptProcess ----------------------------
(* One command of src/scripts in a working tree: which script it is and    *)
(* how its process ended.                                                  *)
EXTENDS Integers, FiniteSets, SequencesExt

Scripts == {"mutate-const-tables", "strip-bundle-comments", "check-published-surface",
            "check-api-surface", "dogfood-smoke-test", "check-file-length"}

VARIABLES
  script,  \* the script that runs
  exit     \* "running", the exit status, or "signal"

(* The script runs, and goes on.                                           *)
Runs(name) == script = name /\ exit = "running" /\ UNCHANGED script
Ends(status) == exit' = status
Continues == exit' = exit

(* The numbers of a finite set in order, and what a sequence has at them.  *)
InOrder(P) == [n \in 1..Cardinality(P) |-> CHOOSE p \in P : Cardinality({q \in P : q <= p}) = n]
Picked(s, P) == [n \in DOMAIN InOrder(P) |-> s[InOrder(P)[n]]]
=============================================================================
