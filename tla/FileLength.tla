----------------------------- MODULE FileLength -----------------------------
(***************************************************************************)
(* src/scripts/check-file-length.mjs: no tracked source file is over the   *)
(* limit, but for those on a baseline that may only shrink.  A pull        *)
(* request brings its own baseline, and is held against the one of its     *)
(* base as well.                                                           *)
(***************************************************************************)
EXTENDS ScriptProcess, FiniteSets

CONSTANTS
  Sources,     \* paths
  LIMIT,
  MaxLines,    \* bound on lengths
  NoBaseline   \* a base revision without a baseline file

VARIABLES
  lengths,     \* the lengths of the tracked sources of the change
  baseline,    \* its baseline
  base         \* lengths and baseline of the base revision

lengthVars == <<lengths, baseline, base>>

(* A table from some of the paths to lengths.                              *)
Tables(values) == UNION {[P -> values] : P \in SUBSET Sources}

-----------------------------------------------------------------------------
Oversize(lines) == {f \in DOMAIN lines : lines[f] > LIMIT}

Parses(table) == \A f \in DOMAIN table : table[f] > LIMIT

(* Each file over the limit is recorded with its length, and only those.   *)
ProblemsOf(lines, table) ==
  {f \in Oversize(lines) : f \notin DOMAIN table \/ lines[f] # table[f]}
    \union (DOMAIN table \ Oversize(lines))

(* The baseline may only lose or lower entries.                            *)
Widening(table, baseTable) ==
  {f \in DOMAIN table : f \notin DOMAIN baseTable \/ table[f] > baseTable[f]}

Gate(lines, table, baseTable) ==
  /\ Parses(table)
  /\ ProblemsOf(lines, table) = {}
  /\ baseTable # NoBaseline => Parses(baseTable) /\ Widening(table, baseTable) = {}

-----------------------------------------------------------------------------
(* The base passed the gate, or has none yet; the change is any.           *)
LengthInit ==
  /\ lengths \in Tables(1..MaxLines)
  /\ baseline \in Tables(LIMIT..MaxLines)
  /\ base \in [lengths : Tables(1..MaxLines), baseline : Tables((LIMIT + 1)..MaxLines) \union {NoBaseline}]
  /\ base.baseline # NoBaseline => ProblemsOf(base.lengths, base.baseline) = {}

LengthIdle == lengths = <<>> /\ baseline = <<>> /\ base = <<>>

CheckFileLength ==
  /\ Runs("check-file-length")
  /\ Ends(IF Gate(lengths, baseline, base.baseline) THEN "0" ELSE "1")
  /\ UNCHANGED lengthVars

-----------------------------------------------------------------------------
(* Properties.                                                             *)

(* From one green revision to the next no file grows over the limit, one   *)
(* that is over it never grows, and a green revision is a base that passes *)
(* in its turn: so it holds along any history of green changes.            *)
OffendersOnlyShrink ==
  script = "check-file-length" /\ exit = "0" =>
    /\ ProblemsOf(lengths, baseline) = {} /\ Parses(baseline)
    /\ base.baseline # NoBaseline =>
         \A f \in Oversize(lengths) : f \in Oversize(base.lengths) /\ lengths[f] <= base.lengths[f]
=============================================================================
