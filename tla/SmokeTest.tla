------------------------------ MODULE SmokeTest ------------------------------
(***************************************************************************)
(* src/scripts/dogfood-smoke-test.mjs: the built package is loaded, packed *)
(* and installed in a consumer of its own.                                 *)
(***************************************************************************)
EXTENDS ScriptProcess, FiniteSets

CONSTANTS
  Subpaths,    \* the subpaths the test knows
  Formats,     \* their builds: ESM and CJS
  Packages     \* what may have been built: see package

VARIABLES
  package,     \* [files, loads, exports, packed, resolves]
  section,     \* the section of the test that is next
  failures,    \* sections that recorded a failure
  consumerDir, \* "none", "there", "removed", or "undeletable"
  sound        \* npm, pnpm and the file system have worked so far

smokeVars == <<package, section, failures, consumerDir, sound>>

Bundles == Subpaths \X Formats

Section(name, next) ==
  /\ Runs("dogfood-smoke-test")
  /\ section = name
  /\ section' = next
  /\ UNCHANGED package

Records(found) == failures' = IF found THEN failures \union {section} ELSE failures

-----------------------------------------------------------------------------
SmokeInit ==
  /\ package \in Packages
  /\ section = "artifacts"
  /\ failures = {}
  /\ consumerDir = "none"
  /\ sound = TRUE

SmokeIdle ==
  package = <<>> /\ section = "artifacts" /\ failures = {} /\ consumerDir = "none" /\ sound = TRUE

(* 1. Every bundle and its declarations are there, or nothing else runs.   *)
Artifacts ==
  /\ Section("artifacts", "exports")
  /\ IF Bundles \subseteq package.files THEN Continues ELSE Ends("2")
  /\ UNCHANGED <<failures, consumerDir, sound>>

(* 2 to 4b. Every bundle loads, or the process dies, and has its exports.  *)
Exports ==
  /\ Section("exports", "tarball")
  /\ IF Bundles \subseteq package.loads
     THEN Continues /\ Records(\E b \in Bundles : b \notin package.exports)
     ELSE Ends("1") /\ UNCHANGED failures
  /\ UNCHANGED <<consumerDir, sound>>

(* 5. npm pack lists the files, or fails.                                  *)
Tarball ==
  /\ Section("tarball", "consumer")
  /\ \E packs \in BOOLEAN :
       /\ Records(~packs \/ "stray" \in package.packed)
       /\ sound' = (sound /\ packs)
  /\ Continues
  /\ UNCHANGED consumerDir

(* 6. The consumer is scaffolded; a failure is recorded.                   *)
Scaffold ==
  /\ Section("consumer", "install")
  /\ consumerDir' = "there"
  /\ Continues
  /\ UNCHANGED <<failures, sound>>

ScaffoldFails ==
  /\ Section("consumer", "cleanup")
  /\ consumerDir' \in {"none", "there"}
  /\ Records(TRUE)
  /\ sound' = FALSE
  /\ Continues

(* pnpm installs it within 60 s; then every subpath is in its node_modules *)
(* and its specifier resolves, within 30 s, through the exports map.       *)
Install ==
  /\ Section("install", "cleanup")
  /\ \E works \in BOOLEAN :
       /\ Records(~works \/ ~(Subpaths \subseteq package.resolves))
       /\ sound' = (sound /\ works)
  /\ Continues
  /\ UNCHANGED consumerDir

(* finally: a directory that was created goes; an error there is ignored.  *)
Cleanup ==
  /\ Section("cleanup", "done")
  /\ consumerDir' \in (IF consumerDir = "there" THEN {"removed", "undeletable"} ELSE {consumerDir})
  /\ Ends(IF failures = {} THEN "0" ELSE "1")
  /\ UNCHANGED <<failures, sound>>

SmokeNext ==
  Artifacts \/ Exports \/ Tarball \/ Scaffold \/ ScaffoldFails \/ Install \/ Cleanup

-----------------------------------------------------------------------------
(* Properties.                                                             *)

(* A consumer can use what passed: every subpath loads in every format,    *)
(* with its exports, and resolves from outside; nothing else is packed.    *)
SmokePassesUsable ==
  script = "dogfood-smoke-test" /\ exit = "0" =>
    /\ Bundles \subseteq package.files \intersect package.loads \intersect package.exports
    /\ Subpaths \subseteq package.resolves
    /\ "stray" \notin package.packed

(* A usable package is refused only when a tool failed.                    *)
SmokeRefusesBroken ==
  script = "dogfood-smoke-test" /\ exit \in {"1", "2"} /\ sound =>
    \/ ~(Bundles \subseteq package.files \intersect package.loads \intersect package.exports)
    \/ ~(Subpaths \subseteq package.resolves)
    \/ "stray" \in package.packed

(* Whatever failed before, the consumer is removed: one is left only when  *)
(* its removal was tried and itself failed.                                *)
ConsumerRemoved == exit # "running" => consumerDir # "there"
=============================================================================
