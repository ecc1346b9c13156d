---------------------------- MODULE BundleComments ----------------------------
(***************************************************************************)
(* src/scripts/strip-bundle-comments.mjs: the comments of the built        *)
(* bundles are removed, and nothing is written unless every bundle is      *)
(* still the same program.  A write that fails or is killed part way       *)
(* leaves a part of its bundle.                                            *)
(*                                                                         *)
(* A bundle is a sequence of pieces: "a", a token that joins the one it    *)
(* touches and that a line break after it ends, as `return`; "op", one     *)
(* that never joins; "sp" and "nl", blank and line break; and comments:    *)
(* "c" on one line, "m" over several, "l" to the end of its line, "k" and  *)
(* "K" as "c" and "m" but kept for their licence.                          *)
(***************************************************************************)
EXTENDS ScriptProcess, FiniteSets, FiniteSetsExt

CONSTANT Builds  \* what the build may have put in dist: path -> bundle

Pieces == {"a", "op", "sp", "nl", "c", "m", "l", "k", "K"}

ASSUME BuildsAssumption == \A build \in Builds : \A p \in DOMAIN build : build[p] \in Seq(Pieces)

VARIABLES
  built,   \* the bundles as built
  dist,    \* the bundles on disk
  strip,   \* the strip that is applied
  unwritten  \* changed bundles not written yet, or not to the end

stripVars == <<built, dist, strip, unwritten>>

Code    == {"a", "op"}
Dropped == {"c", "m", "l"}
Breaks(piece) == piece \in {"nl", "m", "K"}

-----------------------------------------------------------------------------
(* Text.                                                                   *)

(* Two pieces of code that touch may be read as another token.             *)
NeedsSpace(left, right) ==
  /\ left # <<>> /\ right # <<>>
  /\ Last(left) \notin {"sp", "nl", "op"}
  /\ Head(right) \notin {"sp", "nl", "op"}

Blank(s) == ToSet(s) \subseteq {"sp"}

(* The comment at pos goes, with its line when it has the line for itself, *)
(* else with the blanks before it.  A comment over several lines leaves a  *)
(* break between pieces of code.                                           *)
RemoveComment(text, pos) ==
  LET lineStart == Max({0} \union {q \in 1..(pos - 1) : Breaks(text[q])})
      lineEnd   == Min({Len(text) + 1} \union {q \in (pos + 1)..Len(text) : Breaks(text[q])})
      before    == SubSeq(text, lineStart + 1, pos - 1)
      after     == SubSeq(text, pos + 1, lineEnd - 1)
      clear(s, q) == Blank(s) /\ (q \in DOMAIN text => text[q] = "nl")
      codeBefore == ~clear(before, lineStart)
      codeAfter  == ~clear(after, lineEnd)
      trimmed   == Max({lineStart} \union {q \in (lineStart + 1)..(pos - 1) : text[q] # "sp"})
      kept      == SubSeq(text, 1, trimmed)
      rest      == SubSeq(text, pos + 1, Len(text))
  IN  IF ~codeBefore /\ ~codeAfter
      THEN SubSeq(text, 1, lineStart) \o SubSeq(text, lineEnd + 1, Len(text))
      ELSE kept \o (IF codeBefore /\ codeAfter /\ Breaks(text[pos]) THEN <<"nl">>
                    ELSE IF NeedsSpace(kept, rest) THEN <<"sp">> ELSE <<>>) \o rest

(* From the last comment to the first, so that positions stay those of the *)
(* source.                                                                 *)
StripComments(source) ==
  LET stripped[n \in 0..Len(source)] ==
        IF n = 0 THEN source
        ELSE LET pos == Len(source) + 1 - n
             IN  IF source[pos] \in Dropped
                 THEN RemoveComment(stripped[n - 1], pos)
                 ELSE stripped[n - 1]
  IN  stripped[Len(source)]

(* The broken strip of the tests: comments just vanish.                    *)
StripLoosely(source) == Picked(source, {p \in DOMAIN source : source[p] \notin Dropped})

Strip(source) == IF strip = "comments" THEN StripComments(source) ELSE StripLoosely(source)

(* The program of a text: its tokens, which of them touch and join, and    *)
(* where a line break counts.                                              *)
PrintProgram(text) ==
  LET code == InOrder({p \in DOMAIN text : text[p] \in Code})
      since(n) == IF n = 1 THEN 0 ELSE code[n - 1]
  IN  [n \in DOMAIN code |->
         [token |-> text[code[n]],
          joined |-> n > 1 /\ code[n] = since(n) + 1 /\ text[code[n]] = "a" /\ text[since(n)] = "a",
          broken |-> /\ n > 1 /\ text[since(n)] = "a"
                     /\ \E q \in (since(n) + 1)..(code[n] - 1) : Breaks(text[q])]]

SameProgram(before, after) == PrintProgram(before) = PrintProgram(after)

-----------------------------------------------------------------------------
StripInit ==
  /\ built \in Builds
  /\ dist = built
  /\ strip \in {"comments", "loose"}
  /\ unwritten = {}

StripIdle == built = <<>> /\ dist = <<>> /\ strip = "comments" /\ unwritten = {}

Changed == {p \in DOMAIN dist : Strip(dist[p]) # dist[p]}

(* stripDirectory: no bundle, a bundle that would be another program, or   *)
(* the writes begin.                                                       *)
StripDirectory ==
  /\ Runs("strip-bundle-comments")
  /\ unwritten = {}
  /\ IF \/ DOMAIN dist = {}
        \/ \E p \in Changed : ~SameProgram(dist[p], Strip(dist[p]))
     THEN Ends("1") /\ UNCHANGED unwritten
     ELSE IF Changed = {} THEN Ends("0") /\ UNCHANGED unwritten
     ELSE Continues /\ unwritten' = Changed
  /\ UNCHANGED <<built, dist, strip>>

WriteBundle ==
  /\ Runs("strip-bundle-comments")
  /\ \E p \in unwritten :
       /\ dist' = [dist EXCEPT ![p] = Strip(@)]
       /\ unwritten' = unwritten \ {p}
  /\ IF unwritten' = {} THEN Ends("0") ELSE Continues
  /\ UNCHANGED <<built, strip>>

(* writeFileSync throws, or the process is killed in it.  The file is      *)
(* untouched if it could not be opened; once opened it is empty, and holds *)
(* what was written until then.  The bundles before it stay written.       *)
WriteFails ==
  /\ Runs("strip-bundle-comments")
  /\ \E p \in unwritten :
       \/ UNCHANGED dist
       \/ \E n \in 0..Len(Strip(dist[p])) : dist' = [dist EXCEPT ![p] = SubSeq(Strip(@), 1, n)]
  /\ \E status \in {"1", "signal"} : Ends(status)
  /\ UNCHANGED <<built, strip, unwritten>>

StripNext == StripDirectory \/ WriteBundle \/ WriteFails

-----------------------------------------------------------------------------
(* Properties.                                                             *)

Broken == {p \in DOMAIN dist : ~SameProgram(built[p], dist[p])}

(* Whatever the strip is and wherever it stops: a bundle that is no longer *)
(* the program that was built is the one, and the only one, whose write    *)
(* was cut, and the status says so; status 0 means that all are stripped;  *)
(* and a strip that would change any program has written nothing.          *)
BundlesKeepProgram ==
  /\ Broken # {} => exit \in {"1", "signal"}
  /\ Broken \subseteq unwritten /\ \A p, q \in Broken : p = q
  /\ script = "strip-bundle-comments" /\ exit = "0" => \A p \in DOMAIN dist : dist[p] = Strip(built[p])
  /\ dist # built => \A p \in DOMAIN built : SameProgram(built[p], Strip(built[p]))

Licences(text) == Picked(text, {p \in DOMAIN text : text[p] \in {"k", "K"}})

(* The strip itself never changes a program, so a build is only refused    *)
(* when there is none or a write fails; and a second run finds nothing to  *)
(* do, and every kept comment.                                             *)
StripIsSafe ==
  \A p \in DOMAIN built :
    LET once == StripComments(built[p])
    IN  /\ SameProgram(built[p], once)
        /\ ToSet(once) \intersect Dropped = {}
        /\ StripComments(once) = once
        /\ Licences(once) = Licences(built[p])
=============================================================================
