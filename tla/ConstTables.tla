----------------------------- MODULE ConstTables -----------------------------
(***************************************************************************)
(* src/scripts/mutate-const-tables.mjs: it writes every mutant of every    *)
(* `as const` table into its source file, runs the test command on it and  *)
(* puts the file back.                                                     *)
(*                                                                         *)
(* The text of a file is a sequence of tables, an outer table before the   *)
(* tables in it.  A table is a record of its tokens (entries and commas)   *)
(* and of the entry that holds it.  An entry has an id, unique in its      *)
(* file, and a number, or NoNumber when it is no plain decimal integer.    *)
(***************************************************************************)
EXTENDS ScriptProcess, FiniteSets, FiniteSetsExt

CONSTANTS
  Files,       \* the tracked files that may hold a table, as git lists them
  Original,    \* the text of each
  Pinned,      \* entries the tests read, <<file, id>>
  MaxSafe      \* Number.MAX_SAFE_INTEGER

NoNumber == -1
Comma    == [id |-> 0, number |-> NoNumber]
TopLevel == 0

(* git names a file once; the entries of a list are apart by a comma each. *)
Alternate(tokens) ==
  /\ tokens \in Seq(ToSet(tokens))
  /\ \A p \in DOMAIN tokens : tokens[p] = Comma <=> p % 2 = 0

ASSUME ConstTablesAssumption ==
  /\ MaxSafe \in Nat
  /\ Files \in Seq(ToSet(Files)) /\ IsInjective(Files)
  /\ Original = [f \in ToSet(Files) |-> Original[f]]
  /\ \A f \in ToSet(Files) : \A t \in DOMAIN Original[f] : Alternate(Original[f][t].tokens)

VARIABLES
  tree,       \* the text of each file on disk
  at,         \* the index in Files of the file being mutated
  original,   \* its text as it was read
  mutant,     \* the mutant whose test command runs, or NoMutant
  todo,       \* its mutants that have had no turn yet
  survivors,  \* mutants the command did not kill
  unspawned   \* mutants whose command could not be started

mutationVars == <<tree, at, original, mutant, todo, survivors, unspawned>>

NoMutant == [file |-> 0]

-----------------------------------------------------------------------------
(* The mutants of a text.                                                  *)

EntryPlaces(tokens) == {p \in DOMAIN tokens : tokens[p] # Comma}
Positions(tokens) == InOrder(EntryPlaces(tokens))
Entries(tokens) == Picked(tokens, EntryPlaces(tokens))

(* An entry starts after the comma before it; the list ends after its      *)
(* trailing comma.                                                         *)
WithoutEntry(tokens, i) ==
  LET ends == Positions(tokens)
      Start(j) == IF j = 1 THEN 1 ELSE ends[j - 1] + 2
      last == IF i = 1 THEN 0 ELSE ends[i - 1]
  IN  IF i < Len(ends)
      THEN SubSeq(tokens, 1, Start(i) - 1) \o SubSeq(tokens, Start(i + 1), Len(tokens))
      ELSE SubSeq(tokens, 1, last)

WithNumberBumped(tokens, i) ==
  [tokens EXCEPT ![Positions(tokens)[i]].number = @ + 1]

Bumps(entry) == entry.number # NoNumber /\ entry.number + 1 <= MaxSafe

(* What is left of a text: a table goes with the entry that holds it.      *)
Remaining(text) ==
  LET left[t \in DOMAIN text] ==
        \/ text[t].within = TopLevel
        \/ \E u \in 1..(t - 1) : left[u] /\ \E tok \in ToSet(text[u].tokens) : tok.id = text[t].within
  IN  {t \in DOMAIN text : left[t]}

EntriesIn(text) == UNION {ToSet(Entries(text[t].tokens)) : t \in Remaining(text)}

(* A removal for each entry of each table, and a bump for a number.        *)
MutantsOf(f, text) ==
  {mt \in [file : {f}, kind : {"remove", "bump"}, table : DOMAIN text,
           index : 1..Max({0} \union {Len(text[t].tokens) : t \in DOMAIN text})] :
     LET entries == Entries(text[mt.table].tokens)
     IN  /\ mt.index \in DOMAIN entries
         /\ mt.kind = "bump" => Bumps(entries[mt.index])}

Mutated(text, mt) ==
  [text EXCEPT ![mt.table].tokens =
     IF mt.kind = "remove" THEN WithoutEntry(@, mt.index) ELSE WithNumberBumped(@, mt.index)]

-----------------------------------------------------------------------------
(* The test command: it passes when the entries it reads are as they were. *)
Passes(files) ==
  \A pin \in Pinned :
    {e \in EntriesIn(files[pin[1]]) : e.id = pin[2]} =
    {e \in EntriesIn(Original[pin[1]]) : e.id = pin[2]}

(* It may also be stopped by a signal, or not start at all.                *)
Outcomes == {IF Passes(tree) THEN "passed" ELSE "failed", "signal", "unspawned"}

-----------------------------------------------------------------------------
MutationInit ==
  /\ tree = Original
  /\ at = 0
  /\ original = <<>>
  /\ mutant = NoMutant
  /\ todo = {}
  /\ survivors = {}
  /\ unspawned = {}

Restored == [tree EXCEPT ![Files[at]] = original]

(* main, to the start of the baseline: without a command it is a usage     *)
(* error.                                                                  *)
NoCommand ==
  /\ Runs("mutate-const-tables")
  /\ at = 0
  /\ Ends("2")
  /\ UNCHANGED mutationVars

(* The next mutant of the file is written and its command started.         *)
WriteMutant(files, text, left) ==
  \E mt \in left :
    /\ tree' = [files EXCEPT ![mt.file] = Mutated(text, mt)]
    /\ mutant' = mt
    /\ todo' = left \ {mt}
    /\ original' = text

(* The next file that has a mutant, or the verdict.                        *)
NextFile(files, from) ==
  LET ahead == {i \in from..Len(Files) : MutantsOf(Files[i], files[Files[i]]) # {}}
  IN  IF ahead # {}
      THEN LET f == Files[Min(ahead)]
           IN  /\ at' = Min(ahead)
               /\ WriteMutant(files, files[f], MutantsOf(f, files[f]))
               /\ Continues
      ELSE /\ tree' = files
           /\ mutant' = NoMutant
           /\ Ends(IF survivors' = {} THEN "0" ELSE "1")
           /\ UNCHANGED <<at, original, todo>>

(* The command on the unmutated tree.                                      *)
Baseline ==
  /\ Runs("mutate-const-tables")
  /\ at = 0
  /\ \E outcome \in Outcomes :
       IF outcome = "passed"
       THEN UNCHANGED <<survivors, unspawned>> /\ NextFile(tree, 1)
       ELSE Ends("2") /\ UNCHANGED mutationVars

(* The command on a mutant has ended; the file is put back before the next *)
(* file and before an error leaves survivorsOf.                            *)
MutantTested ==
  /\ Runs("mutate-const-tables")
  /\ mutant # NoMutant
  /\ \E outcome \in Outcomes :
       IF outcome = "signal"
       THEN /\ tree' = Restored
            /\ mutant' = NoMutant
            /\ Ends("2")
            /\ UNCHANGED <<at, original, todo, survivors, unspawned>>
       ELSE /\ survivors' = IF outcome = "passed" THEN survivors \union {mutant} ELSE survivors
            /\ unspawned' = IF outcome = "unspawned" THEN unspawned \union {mutant} ELSE unspawned
            /\ IF todo # {}
               THEN WriteMutant(tree, original, todo) /\ Continues /\ UNCHANGED at
               ELSE NextFile(Restored, at + 1)

(* Mutant: the handler leaves the file as it is.                           *)
InterruptUnhandled ==
  /\ Runs("mutate-const-tables")
  /\ Ends("2")
  /\ UNCHANGED mutationVars

(* SIGINT or SIGTERM: before survivorsOf the process just dies.            *)
Interrupt ==
  /\ Runs("mutate-const-tables")
  /\ IF mutant = NoMutant
     THEN Ends("signal") /\ UNCHANGED tree
     ELSE Ends("2") /\ tree' = Restored
  /\ UNCHANGED <<at, original, mutant, todo, survivors, unspawned>>

MutationNext == NoCommand \/ Baseline \/ MutantTested \/ Interrupt

-----------------------------------------------------------------------------
(* Properties.                                                             *)

(* However the script ends, in a usage error, a verdict, an error or an    *)
(* interrupt, every source file is as it was; and never more than one file *)
(* is changed meanwhile.                                                   *)
SourcesRestored ==
  /\ exit # "running" => tree = Original
  /\ Cardinality({f \in DOMAIN tree : tree[f] # Original[f]}) <= 1

Killed(mt) == ~Passes([Original EXCEPT ![mt.file] = Mutated(@, mt)])

(* Status 0 says that a test pins every entry of every table, status 1     *)
(* that the reported entries are the ones no test pins; a command that     *)
(* could not be started counts as a test that failed.                      *)
SurvivorsAreReal ==
  script = "mutate-const-tables" /\ exit \in {"0", "1"} =>
    LET all == UNION {MutantsOf(f, Original[f]) : f \in ToSet(Files)}
    IN  /\ survivors = {mt \in all \ unspawned : ~Killed(mt)}
        /\ (exit = "0") = (survivors = {})

(* A removal takes out its entry alone, and leaves a list.                 *)
RemovalsAreLists ==
  \A f \in ToSet(Files) : \A t \in DOMAIN Original[f] :
    LET tokens == Original[f][t].tokens
    IN  \A i \in DOMAIN Entries(tokens) :
          LET cut == WithoutEntry(tokens, i)
          IN  /\ Entries(cut) = RemoveAt(Entries(tokens), i)
              /\ \A p \in DOMAIN cut : cut[p] = Comma => p > 1 /\ cut[p - 1] # Comma
              /\ \A p \in DOMAIN cut : cut[p] # Comma /\ p > 1 => cut[p - 1] = Comma
=============================================================================
