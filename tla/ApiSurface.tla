------------------------------ MODULE ApiSurface ------------------------------
(***************************************************************************)
(* src/scripts/check-api-surface.mjs: a release whose public declarations  *)
(* differ from those of the version before says so in its CHANGELOG.       *)
(*                                                                         *)
(* A declaration file is [directives, module, statements].  A statement is *)
(* [name, body] or a local export list [typeOnly, elements], an element    *)
(* [typeOnly, local, name].  A stable version is a triple of numbers, any   *)
(* other one NoTriple.  Its two temporary directories, made outside the    *)
(* working tree and never removed, are left out.                           *)
(***************************************************************************)
EXTENDS ScriptProcess, FiniteSets, FiniteSetsExt

CONSTANT Releases  \* what may be released: see release

NoTriple == <<>>
IsLocalNamedExport(st) == "elements" \in DOMAIN st

(* What is published has its declarations; a file is a list of statements. *)
ASSUME ReleasesAssumption ==
  \A r \in Releases :
    /\ r.published \union {r.version} \subseteq (Nat \X Nat \X Nat) \union {NoTriple}
    /\ (r.published \union r.against) \ {NoTriple} \subseteq DOMAIN r.dists
    /\ \A d \in {r.dist} \union {r.dists[v] : v \in DOMAIN r.dists} : \A f \in DOMAIN d :
         /\ d[f].statements \in Seq(ToSet(d[f].statements))
         /\ \A st \in ToSet(d[f].statements) :
              ~IsLocalNamedExport(st) => st = [name |-> st.name, body |-> st.body]

VARIABLES
  release,  \* [version, dist, against, published, dists, sections]
  answer    \* the differences found, and the version they were found against

apiVars == <<release, answer>>

-----------------------------------------------------------------------------
(* Declarations.                                                           *)

Specifiers(st) ==
  {<<st.typeOnly \/ el.typeOnly, el.local, el.name>> : el \in ToSet(st.elements)}

Kept(file) ==
  Picked(file.statements, {i \in DOMAIN file.statements : ~IsLocalNamedExport(file.statements[i])})
Exported(file) ==
  UNION {Specifiers(st) : st \in {s \in ToSet(file.statements) : IsLocalNamedExport(s)}}

NormalizeDeclarations(file) ==
  [directives |-> file.directives, module |-> file.module,
   kept |-> [i \in DOMAIN Kept(file) |-> Kept(file)[i].body], exports |-> Exported(file)]

(* The texts of each name, in the order of the source.                     *)
DeclarationsByName(file) ==
  LET Bodies(n) == Picked(Kept(file), {i \in DOMAIN Kept(file) : Kept(file)[i].name = n})
  IN  [n \in {st.name : st \in ToSet(Kept(file))} |->
         [i \in DOMAIN Bodies(n) |-> Bodies(n)[i].body]]

ExportsByName(file) ==
  [n \in {x[3] : x \in Exported(file)} |-> {x \in Exported(file) : x[3] = n}]

(* The keys of f and g where they differ.                                  *)
Differing(f, g) ==
  {n \in DOMAIN f \union DOMAIN g : n \notin DOMAIN f \/ n \notin DOMAIN g \/ f[n] # g[n]}

ChangedNames(before, after) ==
  {<<"", n>> : n \in Differing(DeclarationsByName(before), DeclarationsByName(after))}
    \union {<<"export", n>> : n \in Differing(ExportsByName(before), ExportsByName(after))}
    \union (IF before.directives = after.directives THEN {} ELSE {<<"", "reference directives">>})
    \union (IF before.module = after.module THEN {} ELSE {<<"", "module or script kind">>})

(* A line diff along a longest common subsequence; "+" before "-" when     *)
(* both are as good.                                                       *)
LineDiff(a, b) ==
  LET places == (1..(Len(a) + 1)) \X (1..(Len(b) + 1))
      lcs[at \in places] ==
        LET i == at[1] j == at[2]
        IN  IF i > Len(a) \/ j > Len(b) THEN 0
            ELSE IF a[i] = b[j] THEN lcs[<<i + 1, j + 1>>] + 1
            ELSE Max({lcs[<<i + 1, j>>], lcs[<<i, j + 1>>]})
      lines[at \in places] ==
        LET i == at[1] j == at[2]
        IN  IF i > Len(a) /\ j > Len(b) THEN <<>>
            ELSE IF i <= Len(a) /\ j <= Len(b) /\ a[i] = b[j] THEN lines[<<i + 1, j + 1>>]
            ELSE IF j <= Len(b) /\ (i > Len(a) \/ lcs[<<i, j + 1>>] >= lcs[<<i + 1, j>>])
            THEN <<<<"+", b[j]>>>> \o lines[<<i, j + 1>>]
            ELSE <<<<"-", a[i]>>>> \o lines[<<i + 1, j>>]
  IN  lines[<<1, 1>>]

(* Files on one side only differ as well; they name no declaration.  The   *)
(* diff is that of the statements: the lines of directives, kind and       *)
(* exports around them are left out of it.                                 *)
CompareDist(previous, current) ==
  LET both == DOMAIN previous \intersect DOMAIN current
      texts(dist, f) == NormalizeDeclarations(dist[f]).kept
  IN  [f \in {g \in DOMAIN previous \union DOMAIN current :
                g \in both => NormalizeDeclarations(previous[g]) # NormalizeDeclarations(current[g])} |->
         IF f \in both
         THEN [diff |-> LineDiff(texts(previous, f), texts(current, f)),
               changed |-> ChangedNames(previous[f], current[f])]
         ELSE [diff |-> <<>>, changed |-> {}]]

-----------------------------------------------------------------------------
(* Versions.                                                               *)

Stable(v) == v # NoTriple

Below(a, b) ==
  \/ a[1] < b[1]
  \/ a[1] = b[1] /\ a[2] < b[2]
  \/ a[1] = b[1] /\ a[2] = b[2] /\ a[3] < b[3]

Earlier(published, current) ==
  IF Stable(current) THEN {v \in published : Stable(v) /\ Below(v, current)} ELSE {}

(* Mutant: the sorted versions are read from the wrong end.                *)
LowestVersion(published, current) ==
  CHOOSE v \in Earlier(published, current) :
    \A w \in Earlier(published, current) : w = v \/ Below(v, w)

PreviousVersion(published, current) ==
  CHOOSE v \in Earlier(published, current) :
    \A w \in Earlier(published, current) : w = v \/ Below(w, v)

ClassifyBump(previous, current) ==
  IF previous[1] # current[1] THEN "major" ELSE IF previous[2] # current[2] THEN "minor" ELSE "patch"

-----------------------------------------------------------------------------
(* The CHANGELOG: sections [version, note] in its order.                   *)
ChangelogSection(version) ==
  Picked(release.sections, {i \in DOMAIN release.sections : release.sections[i].version = version})

NoteFound ==
  ChangelogSection(release.version) # <<>> /\ ChangelogSection(release.version)[1].note

-----------------------------------------------------------------------------
ApiInit == release \in Releases /\ answer = <<>>
ApiIdle == release = <<>> /\ answer = <<>>

(* npm view, npm pack or tar fails, and the script with it.                *)
Unresolved ==
  /\ Runs("check-api-surface")
  /\ Ends("1")
  /\ UNCHANGED apiVars

(* The version to compare with: that of the directory or tarball given, or *)
(* the highest stable version below this one, or none.                     *)
ResolvePrevious ==
  IF release.against # {} THEN release.against
  ELSE {v \in Earlier(release.published, release.version) :
          v = PreviousVersion(release.published, release.version)}

(* parseVersion throws: on this version when it meets a stable one, or on  *)
(* the one of the directory or tarball.                                    *)
Unparsable ==
  IF release.against = {}
  THEN ~Stable(release.version) /\ \E v \in release.published : Stable(v)
  ELSE \E v \in release.against \union {release.version} : ~Stable(v)

Compare ==
  /\ Runs("check-api-surface")
  /\ IF Unparsable THEN Ends("1") /\ UNCHANGED answer
     ELSE IF ResolvePrevious = {} THEN Ends("0") /\ UNCHANGED answer
     ELSE \E previous \in ResolvePrevious :
            LET found == CompareDist(release.dists[previous], release.dist)
            IN  /\ answer' = [previous |-> previous, differences |-> found,
                              bump |-> ClassifyBump(previous, release.version)]
                /\ Ends(IF DOMAIN found = {} \/ NoteFound THEN "0" ELSE "1")
  /\ UNCHANGED release

ApiNext == Unresolved \/ Compare

-----------------------------------------------------------------------------
(* Properties.                                                             *)

(* Two sequences of the same statements.                                   *)
IsPermutation(s, t) ==
  \A x \in ToSet(s) \union ToSet(t) :
    Cardinality({i \in DOMAIN s : s[i] = x}) = Cardinality({i \in DOMAIN t : t[i] = x})

SameTypes(f, g) ==
  /\ DOMAIN f = DOMAIN g
  /\ \A name \in DOMAIN f : NormalizeDeclarations(f[name]) = NormalizeDeclarations(g[name])

(* A consumer who reads the notes of a green release learns of every       *)
(* change of the types since the version he has, the one published last    *)
(* before it.                                                              *)
ChangesAreNoted ==
  script = "check-api-surface" /\ exit = "0" /\ release.against = {} =>
    \/ NoteFound
    \/ \A v \in {w \in release.published : Stable(w) /\ Below(w, release.version)} :
         \/ \E w \in release.published : Stable(w) /\ Below(v, w) /\ Below(w, release.version)
         \/ SameTypes(release.dists[v], release.dist)

(* What a red gate prints helps to write the note.  A file names what      *)
(* changed in it, unless only the order of its names did; and its diff     *)
(* turns one text into the other and keeps as much of it as can be kept.   *)
DifferencesAreNamed ==
  answer # <<>> =>
    \A f \in DOMAIN answer.differences \intersect DOMAIN release.dist
                \intersect DOMAIN release.dists[answer.previous] :
      LET before == release.dists[answer.previous][f]
          after  == release.dist[f]
          a      == NormalizeDeclarations(before).kept
          b      == NormalizeDeclarations(after).kept
          diff   == answer.differences[f].diff
          Side(sign, s) ==  \* the positions of s that the lines of this sign may stand for
            LET marked == Picked(diff, {k \in DOMAIN diff : diff[k][1] = sign})
            IN  {P \in SUBSET DOMAIN s : Picked(s, P) = [i \in DOMAIN marked |-> marked[i][2]]}
          Rest(s, P) == Picked(s, DOMAIN s \ P)
          Common == {Rest(a, P) : P \in SUBSET DOMAIN a} \intersect
                    {Rest(b, P) : P \in SUBSET DOMAIN b}
      IN  /\ answer.differences[f].changed = {} => IsPermutation(Kept(before), Kept(after))
          /\ \E P \in Side("-", a), Q \in Side("+", b) : Rest(a, P) = Rest(b, Q)
          /\ \A c \in Common : Len(a) + Len(b) - Len(diff) >= 2 * Len(c)
=============================================================================
