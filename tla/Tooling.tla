------------------------------- MODULE Tooling -------------------------------
(***************************************************************************)
(* The scripts of src/scripts, one at a time in a working tree: each is a  *)
(* process that starts from what it may find there, may be failed by the   *)
(* network, the file system or another tool, and ends with a status.       *)
(***************************************************************************)
EXTENDS ConstTables, BundleComments, PublishedSurface, ApiSurface, SmokeTest, FileLength

(* What the script that runs does not use is at rest.                      *)
Init ==
  /\ script \in Scripts
  /\ exit = "running"
  /\ MutationInit
  /\ IF script = "strip-bundle-comments" THEN StripInit ELSE StripIdle
  /\ IF script = "check-published-surface" THEN SurfaceInit ELSE SurfaceIdle
  /\ IF script = "check-api-surface" THEN ApiInit ELSE ApiIdle
  /\ IF script = "dogfood-smoke-test" THEN SmokeInit ELSE SmokeIdle
  /\ IF script = "check-file-length" THEN LengthInit ELSE LengthIdle

Mutate == MutationNext /\ UNCHANGED <<stripVars, surfaceVars, apiVars, smokeVars, lengthVars>>
StripBundles == StripNext /\ UNCHANGED <<mutationVars, surfaceVars, apiVars, smokeVars, lengthVars>>
CheckSurface == SurfaceNext /\ UNCHANGED <<mutationVars, stripVars, apiVars, smokeVars, lengthVars>>
CheckApi == ApiNext /\ UNCHANGED <<mutationVars, stripVars, surfaceVars, smokeVars, lengthVars>>
Smoke == SmokeNext /\ UNCHANGED <<mutationVars, stripVars, surfaceVars, apiVars, lengthVars>>
CheckLength == CheckFileLength /\ UNCHANGED <<mutationVars, stripVars, surfaceVars, apiVars, smokeVars>>

Next == Mutate \/ StripBundles \/ CheckSurface \/ CheckApi \/ Smoke \/ CheckLength

vars == <<script, exit, mutationVars, stripVars, surfaceVars, apiVars, smokeVars, lengthVars>>

Spec == Init /\ [][Next]_vars

(* The published-surface gate goes on: its lookups, its requests and its   *)
(* git fetch have time limits, and it waits for nothing else outside.      *)
Fairness == WF_vars(CheckSurface)

FairSpec == Spec /\ Fairness

-----------------------------------------------------------------------------
(* Properties.                                                             *)

(* The status of a script is true: what it lets pass is as it says, what   *)
(* it reports is there, and the strip refuses a build only when there is   *)
(* none or a write fails.  Each part says what its script can know.        *)
VerdictsHold ==
  /\ SurvivorsAreReal
  /\ StripIsSafe
  /\ RequestsAreChecked /\ LinkVerdicts /\ GreenMeansPublishable
  /\ ChangesAreNoted /\ DifferencesAreNamed
  /\ SmokePassesUsable /\ SmokeRefusesBroken
  /\ OffendersOnlyShrink

(* However a script ends, the working tree is as it should be: sources as  *)
(* they were, also after an interrupt; bundles the programs that were      *)
(* built, but for one whose write was cut; .docs-gate and the consumer of  *)
(* the smoke test gone, unless they could not be filled or removed.        *)
TreeLeftAsPromised ==
  /\ SourcesRestored /\ RemovalsAreLists
  /\ BundlesKeepProgram
  /\ GateDirRemoved
  /\ ConsumerRemoved

(* Whatever the web answers, or does not, the gate of a release ends: a    *)
(* chain of redirects that never ends does not keep it waiting.            *)
GateEnds == script = "check-published-surface" ~> exit # "running"
=============================================================================
